-------------------------- MODULE AccessControlProofs --------------------------
(***************************************************************************)
(* The rate limit and the allow list, for any number of requests and       *)
(* addresses, every rate and burst, and any lists and headers.             *)
(*                                                                         *)
(* The limit holds and is exhausted before a request is refused: LimitInv  *)
(* is inductive, and its arithmetic parts say that for every address the   *)
(* tokens given out and those left add up to the allowance since the       *)
(* bucket was last full, and to no more over any other stretch of time.    *)
(*                                                                         *)
(* Limit and list apply to one address, the one a request comes from if    *)
(* its headers tell: OneClient is inductive with the types, and that the   *)
(* chain only uses the limiter through the limiter's own steps brings the  *)
(* results about the limiter to the chain.                                 *)
(***************************************************************************)
EXTENDS AccessControl, FiniteSetTheorems, SequenceTheorems, TLAPS

------------------------------------------------------------------------------
(* The limiter.                                                              *)

LEMMA BurstPositive == Burst \in Nat \ {0} /\ Full \in Nat /\ Full >= Cost
<1>1. Burst \in Nat \ {0}
  BY RateAssumption DEF Burst
<1>2. \A m \in Nat \ {0}, n \in Nat \ {0} : m * n \in Nat /\ m * n >= n
  OBVIOUS
<1> QED BY <1>1, <1>2, RateAssumption DEF Full

\* What the rate adds over two adjacent stretches of time adds up.
LEMMA RateAdds ==
  ASSUME NEW s \in Nat, NEW t \in Nat, NEW u \in Nat, s =< t, t =< u
  PROVE  /\ Rate * (u - s) = Rate * (u - t) + Rate * (t - s)
         /\ Rate * (u - t) \in Nat /\ Rate * (t - s) \in Nat
         /\ Rate * (t - t) = 0
         /\ t < u => Rate * (u - t) > 0
<1>1. \A r \in Nat \ {0}, x \in Nat, y \in Nat : r * (x + y) = r * x + r * y
  OBVIOUS
<1>2. \A r \in Nat \ {0}, x \in Nat : r * x \in Nat /\ (x > 0 => r * x > 0)
  OBVIOUS
<1>3. /\ u - t \in Nat /\ t - s \in Nat /\ u - s = (u - t) + (t - s)
      /\ t - t = 0 /\ (t < u => u - t > 0)
  OBVIOUS
<1>4. Rate * 0 = 0
  BY RateAssumption
<1> QED BY <1>1, <1>2, <1>3, <1>4, RateAssumption

LEMMA RateNatural ==
  ASSUME NEW s \in Nat, NEW t \in Nat, s =< t
  PROVE  Rate * (t - s) \in Nat
<1>1. \A r \in Nat \ {0}, x \in Nat : r * x \in Nat
  OBVIOUS
<1>2. t - s \in Nat
  OBVIOUS
<1> QED BY <1>1, <1>2, RateAssumption

LEMMA RateZero == \A t \in Nat : Rate * (t - t) = 0
<1>1. \A t \in Nat : t - t = 0
  OBVIOUS
<1>2. Rate * 0 = 0
  BY RateAssumption
<1> QED BY <1>1, <1>2

LEMMA CostAdds ==
  ASSUME NEW n \in Nat
  PROVE  n * Cost \in Nat /\ (n + 1) * Cost = n * Cost + Cost
BY RateAssumption

LEMMA AdmittedFinite ==
  ASSUME TypeOK, NEW a \in Address, IsFiniteSet(AdmittedSince(a, 0)), NEW s \in Nat
  PROVE  IsFiniteSet(AdmittedSince(a, s)) /\ Cardinality(AdmittedSince(a, s)) \in Nat
<1>1. AdmittedSince(a, s) \subseteq AdmittedSince(a, 0)
  BY DEF AdmittedSince, TypeOK
<1> QED BY <1>1, FS_Subset, FS_CardinalityType
LEMMA RefilledBounds ==
  ASSUME TypeOK, LastUsed, NEW b \in Request
  PROVE  /\ Refilled(b) \in 0..Full
         /\ \/ Refilled(b) = tokens[b] + Rate * (now - last[b])
            \/ Refilled(b) = Full /\ tokens[b] + Rate * (now - last[b]) > Full
<1>1. last[b] \in Nat /\ now \in Nat /\ last[b] =< now /\ tokens[b] \in 0..Full
  BY DEF TypeOK, LastUsed
<1>2. Rate * (now - last[b]) \in Nat
  BY <1>1, RateNatural
<1> HIDE DEF Full
<1> QED BY <1>1, <1>2, BurstPositive DEF Refilled

------------------------------------------------------------------------------

\* Two outcomes of Allow.
Admit(r) == Allow(r) /\ Refilled(limiter[r]) >= Cost
Refuse(r) == Allow(r) /\ Refilled(limiter[r]) < Cost

LEMMA TypeStep ==
  ASSUME TypeOK, Control, LastUsed, [Next]_limitVars
  PROVE  TypeOK'
<1> HIDE DEF Full
<1> USE BurstPositive, RateAssumption, AbsentAssumption
<1>1. ASSUME NEW r \in Request, Arrive(r)
      PROVE  TypeOK'
  BY <1>1 DEF TypeOK, Arrive, Goto
<1>2. ASSUME NEW r \in Request, FindLimiter(r)
      PROVE  TypeOK'
  BY <1>2 DEF TypeOK, FindLimiter, Goto, Control
<1>3. ASSUME NEW r \in Request, FindOrCreate(r)
      PROVE  TypeOK'
  BY <1>3 DEF TypeOK, FindOrCreate, Goto, Control
<1>4. ASSUME NEW r \in Request, Allow(r)
      PROVE  TypeOK'
  <2>1. limiter[r] \in Request
    BY <1>4 DEF TypeOK, Control, Allow
  <2>2. Refilled(limiter[r]) \in 0..Full
    BY <2>1, RefilledBounds
  <2>3. CASE Refilled(limiter[r]) >= Cost
    <3>1. Refilled(limiter[r]) - Cost \in 0..Full
      BY <2>2, <2>3
    <3> QED BY <1>4, <2>1, <2>2, <2>3, <3>1 DEF TypeOK, Allow, Goto
  <2>4. CASE Refilled(limiter[r]) < Cost
    BY <1>4, <2>2, <2>4 DEF TypeOK, Allow, Goto
  <2> QED BY <2>2, <2>3, <2>4
<1>5. CASE Tick
  BY <1>5 DEF TypeOK, Tick
<1>6. CASE UNCHANGED limitVars
  BY <1>6 DEF TypeOK, limitVars
<1> QED BY <1>1, <1>2, <1>3, <1>4, <1>5, <1>6 DEF Next

\* The parts of the invariant without arithmetic.
LEMMA BucketStep ==
  ASSUME TypeOK, Control, OneBucketPerAddress, BucketsOwned, [Next]_limitVars
  PROVE  Control' /\ OneBucketPerAddress' /\ BucketsOwned'
<1> USE AbsentAssumption DEF TypeOK, Control, OneBucketPerAddress, BucketsOwned, Goto
<1>1. ASSUME NEW r \in Request, Arrive(r)
      PROVE  Control' /\ OneBucketPerAddress' /\ BucketsOwned'
  BY <1>1 DEF Arrive
<1>2. ASSUME NEW r \in Request, FindLimiter(r)
      PROVE  Control' /\ OneBucketPerAddress' /\ BucketsOwned'
  BY <1>2 DEF FindLimiter
<1>3. ASSUME NEW r \in Request, FindOrCreate(r)
      PROVE  Control' /\ OneBucketPerAddress' /\ BucketsOwned'
  <2>1. CASE limiters[address[r]] # NoBucket
    BY <1>3, <2>1 DEF FindOrCreate
  <2>2. CASE limiters[address[r]] = NoBucket
    BY <1>3, <2>2 DEF FindOrCreate
  <2> QED BY <2>1, <2>2
<1>4. ASSUME NEW r \in Request, Allow(r)
      PROVE  Control' /\ OneBucketPerAddress' /\ BucketsOwned'
  BY <1>4 DEF Allow
<1>5. CASE Tick
  BY <1>5 DEF Tick
<1>6. CASE UNCHANGED limitVars
  BY <1>6 DEF limitVars
<1> QED BY <1>1, <1>2, <1>3, <1>4, <1>5, <1>6 DEF Next

LEMMA LastUsedStep ==
  ASSUME TypeOK, Control, OneBucketPerAddress, BucketsOwned, LastUsed, [Next]_limitVars
  PROVE  LastUsed'
<1> USE AbsentAssumption DEF TypeOK, Control, OneBucketPerAddress, BucketsOwned, LastUsed, Goto
<1>1. ASSUME NEW r \in Request, Arrive(r)
      PROVE  LastUsed'
  BY <1>1 DEF Arrive
<1>2. ASSUME NEW r \in Request, FindLimiter(r)
      PROVE  LastUsed'
  BY <1>2 DEF FindLimiter
<1>3. ASSUME NEW r \in Request, FindOrCreate(r)
      PROVE  LastUsed'
  BY <1>3 DEF FindOrCreate
<1>4. ASSUME NEW r \in Request, Allow(r)
      PROVE  LastUsed'
  BY <1>4 DEF Allow
<1>5. CASE Tick
  BY <1>5 DEF Tick
<1>6. CASE UNCHANGED limitVars
  BY <1>6 DEF limitVars
<1> QED BY <1>1, <1>2, <1>3, <1>4, <1>5, <1>6 DEF Next

------------------------------------------------------------------------------
(* The arithmetic.                                                           *)

SafeInv == TypeOK /\ Control /\ OneBucketPerAddress /\ BucketsOwned /\ LastUsed

\* Only an admission changes what has been admitted.
LEMMA SameAdmitted ==
  ASSUME SafeInv, NEW a \in Address, NEW s \in Nat,
         \/ \E r \in Request : Arrive(r) \/ FindLimiter(r) \/ FindOrCreate(r) \/ Refuse(r)
         \/ Tick
         \/ UNCHANGED limitVars
  PROVE  AdmittedSince(a, s)' = AdmittedSince(a, s)
<1> USE AbsentAssumption, RateAssumption DEF AdmittedSince, SafeInv, TypeOK, Goto
<1>1. ASSUME NEW r \in Request, Arrive(r)
      PROVE  AdmittedSince(a, s)' = AdmittedSince(a, s)
  BY <1>1 DEF Arrive
<1>2. ASSUME NEW r \in Request, FindLimiter(r)
      PROVE  AdmittedSince(a, s)' = AdmittedSince(a, s)
  BY <1>2 DEF FindLimiter
<1>3. ASSUME NEW r \in Request, FindOrCreate(r)
      PROVE  AdmittedSince(a, s)' = AdmittedSince(a, s)
  BY <1>3 DEF FindOrCreate
<1>4. ASSUME NEW r \in Request, Refuse(r)
      PROVE  AdmittedSince(a, s)' = AdmittedSince(a, s)
  <2>1. ~ (Refilled(limiter[r]) >= Cost)
    <3>1. limiter[r] \in Request
      BY <1>4 DEF Refuse, Allow, Control
    <3>2. Refilled(limiter[r]) \in 0..Full
      BY <3>1, RefilledBounds
    <3> QED BY <1>4, <3>2, BurstPositive DEF Refuse
  <2> QED BY <1>4, <2>1 DEF Refuse, Allow
<1>5. CASE Tick
  BY <1>5 DEF Tick
<1>6. CASE UNCHANGED limitVars
  BY <1>6 DEF limitVars
<1> QED BY <1>1, <1>2, <1>3, <1>4, <1>5, <1>6

LEMMA AdmitsOne ==
  ASSUME SafeInv, NEW r \in Request, Admit(r), NEW here \in Address, here = address[r]
  PROVE  /\ \A s \in 0..now : AdmittedSince(here, s)' = AdmittedSince(here, s) \cup {r}
         /\ \A s \in Nat : r \notin AdmittedSince(here, s)
         /\ \A a \in Address \ {here}, s \in Nat : AdmittedSince(a, s)' = AdmittedSince(a, s)
<1>1. limiter[r] \in Request
  BY DEF Admit, Allow, Control, SafeInv, TypeOK
<1>2. Refilled(limiter[r]) \in 0..Full
  BY <1>1, RefilledBounds DEF SafeInv
<1>3. ~ (Refilled(limiter[r]) < Cost)
  BY <1>2, BurstPositive, RateAssumption DEF Admit
<1>4. /\ pc[r] = "allow" /\ pc' = [pc EXCEPT ![r] = "next"]
      /\ at' = [at EXCEPT ![r] = now] /\ address' = address
  BY <1>3 DEF Admit, Allow, Goto
<1>5. now \in Nat /\ pc \in [Request -> {"idle", "read", "write", "allow", "next", "refused"}]
      /\ at \in [Request -> Nat]
  BY DEF SafeInv, TypeOK
<1>6. \A s \in 0..now : AdmittedSince(here, s)' = AdmittedSince(here, s) \cup {r}
  BY <1>4, <1>5 DEF AdmittedSince
<1>7. \A s \in Nat : r \notin AdmittedSince(here, s)
  BY <1>4 DEF AdmittedSince
<1>8. ASSUME NEW a \in Address \ {here}, NEW s \in Nat
      PROVE  AdmittedSince(a, s)' = AdmittedSince(a, s)
  BY <1>4, <1>5 DEF AdmittedSince
<1> QED BY <1>6, <1>7, <1>8

\* A step that leaves the buckets alone and admits nobody.
LEMMA QuietStep ==
  ASSUME SafeInv, Allowance, Exhausted, UNCHANGED <<limiters, tokens, last>>,
         \A a \in Address, s \in Nat : AdmittedSince(a, s)' = AdmittedSince(a, s)
  PROVE  Allowance' /\ Exhausted'
<1>1. \A a \in Address : limiters[a] # NoBucket => last[limiters[a]] \in Nat
  BY DEF SafeInv, TypeOK
<1>2. Allowance'
  BY <1>1 DEF Allowance
<1>3. Exhausted'
  BY <1>1 DEF Exhausted
<1> QED BY <1>2, <1>3

LEMMA CreateStep ==
  ASSUME SafeInv, Allowance, Exhausted, NEW r \in Request, FindOrCreate(r),
         limiters[address[r]] = NoBucket
  PROVE  Allowance' /\ Exhausted'
<1>a. address[r] \in Address /\ r # NoBucket /\ limiter[r] = NoBucket /\ now \in Nat
  BY AbsentAssumption DEF SafeInv, Control, TypeOK, FindOrCreate
<1> PICK here \in Address : here = address[r]
  BY <1>a
<1> PICK t \in Nat : t = now
  BY <1>a
<1>0. here = address[r] /\ r # NoBucket /\ limiter[r] = NoBucket /\ now \in Nat
  BY <1>a
<1>1. \A a \in Address, s \in Nat : AdmittedSince(a, s)' = AdmittedSince(a, s)
  BY SameAdmitted
<1>2. \A s \in Nat : AdmittedSince(here, s) = {}
  <2> SUFFICES ASSUME NEW q \in Request, pc[q] = "next", address[q] = here
               PROVE  FALSE
    BY DEF AdmittedSince
  <2>1. limiter[q] # NoBucket
    BY AbsentAssumption DEF SafeInv, Control
  <2>2. limiter[q] = limiters[here]
    BY <2>1 DEF SafeInv, OneBucketPerAddress
  <2> QED BY <1>0, <2>1, <2>2
<1>3. limiters'[here] = r /\ tokens'[r] = Full /\ last'[r] = now
  BY <1>0 DEF SafeInv, TypeOK, FindOrCreate
<1>4. ASSUME NEW a \in Address, a # here, limiters[a] # NoBucket
      PROVE  /\ limiters'[a] = limiters[a]
             /\ tokens'[limiters[a]] = tokens[limiters[a]]
             /\ last'[limiters[a]] = last[limiters[a]]
             /\ last[limiters[a]] \in Nat
  <2>1. limiters[a] # r /\ limiters[a] \in Request
    BY <1>0, <1>4 DEF SafeInv, BucketsOwned, TypeOK
  <2> QED BY <1>0, <1>4, <2>1 DEF SafeInv, TypeOK, FindOrCreate
<1>5. ASSUME NEW a \in Address, a # here, limiters[a] = NoBucket
      PROVE  limiters'[a] = NoBucket
  BY <1>0, <1>5 DEF SafeInv, TypeOK, FindOrCreate
<1>6. \A s \in 0..now : Rate * (now - s) \in Nat
  BY <1>0, RateNatural
<1>7. Rate * (now - now) = 0 /\ 0 * Cost = 0 /\ Full \in Nat
  BY <1>0, RateAdds, RateAssumption, BurstPositive
<1>8. ASSUME NEW s \in 0..now
      PROVE  /\ Cardinality(AdmittedSince(here, s)') = 0
             /\ 0 * Cost + Full =< Full + Rate * (now - s)
  <2>1. AdmittedSince(here, s)' = {}
    BY <1>0, <1>1, <1>2
  <2> HIDE DEF Full
  <2> QED BY <1>6, <1>7, <1>8, <2>1, FS_EmptySet
<1>9. Allowance'
  <2> SUFFICES ASSUME NEW a \in Address
               PROVE  /\ IsFiniteSet(AdmittedSince(a, 0)')
                      /\ limiters'[a] # NoBucket =>
                           \A s \in 0..last'[limiters'[a]] :
                             Cardinality(AdmittedSince(a, s)') * Cost + tokens'[limiters'[a]]
                               =< Full + Rate * (last'[limiters'[a]] - s)
    BY DEF Allowance, Full, Burst
  <2>1. IsFiniteSet(AdmittedSince(a, 0)')
    BY <1>1 DEF Allowance
  <2>2. CASE a = here
    <3> HIDE DEF Full
    <3>1. \A s \in 0..now : Cardinality(AdmittedSince(here, s)') * Cost + Full
                              =< Full + Rate * (now - s)
      BY <1>8
    <3> QED BY <1>3, <2>1, <2>2, <3>1
  <2>3. CASE a # here /\ limiters[a] # NoBucket
    BY <1>1, <1>4, <2>1, <2>3 DEF Allowance
  <2>4. CASE a # here /\ limiters[a] = NoBucket
    BY <1>5, <2>1, <2>4
  <2> QED BY <2>2, <2>3, <2>4
<1>10. Exhausted'
  <2> SUFFICES ASSUME NEW a \in Address, limiters'[a] # NoBucket
               PROVE  \E s \in 0..last'[limiters'[a]] :
                        Cardinality(AdmittedSince(a, s)') * Cost + tokens'[limiters'[a]]
                          = Full + Rate * (last'[limiters'[a]] - s)
    BY DEF Exhausted, Full, Burst
  <2>1. CASE a = here
    <3>1. t \in 0..last'[limiters'[a]] /\ 0 * Cost + Full = Full + Rate * (t - t)
      BY <1>0, <1>3, <1>7, <2>1
    <3>2. Cardinality(AdmittedSince(a, t)') = 0
      <4>1. t \in 0..now
        BY <1>0
      <4> QED BY <1>8, <2>1, <4>1
    <3> QED BY <1>3, <2>1, <3>1, <3>2
  <2>2. CASE a # here /\ limiters[a] # NoBucket
    BY <1>1, <1>4, <2>2 DEF Exhausted
  <2>3. CASE a # here /\ limiters[a] = NoBucket
    BY <1>5, <2>3
  <2> QED BY <2>1, <2>2, <2>3
<1> QED BY <1>9, <1>10

\* The bucket of r's address before and after r is admitted.
LEMMA AdmitStep ==
  ASSUME SafeInv, Allowance, Exhausted, NEW r \in Request, Admit(r)
  PROVE  Allowance' /\ Exhausted'
<1>a. address[r] \in Address /\ limiter[r] \in Request /\ limiter[r] = limiters[address[r]]
      /\ limiter[r] # NoBucket /\ now \in Nat
  BY DEF Admit, Allow, SafeInv, Control, TypeOK, OneBucketPerAddress
<1> PICK here \in Address : here = address[r]
  BY <1>a
<1> PICK t \in Nat : t = now
  BY <1>a
<1> PICK b \in Request : b = limiter[r]
  BY <1>a
<1> PICK u \in Nat : u = last[b]
  BY DEF SafeInv, TypeOK
<1> DEFINE n(s) == Cardinality(AdmittedSince(here, s))
           m(s) == Cardinality(AdmittedSince(here, s)')
<1>0. here = address[r] /\ b = limiters[here] /\ b # NoBucket /\ u =< t /\ tokens[b] \in 0..Full
  BY <1>a DEF SafeInv, LastUsed, TypeOK
<1>1. /\ Refilled(b) \in 0..Full
      /\ \/ Refilled(b) = tokens[b] + Rate * (t - u)
         \/ Refilled(b) = Full /\ tokens[b] + Rate * (t - u) > Full
  BY RefilledBounds DEF SafeInv
<1>2. ~ (Refilled(b) < Cost)
  BY <1>1, BurstPositive, RateAssumption DEF Admit
<1>3. /\ tokens' = [tokens EXCEPT ![b] = Refilled(b) - Cost]
      /\ last' = [last EXCEPT ![b] = t]
      /\ limiters' = limiters
  BY <1>2 DEF Admit, Allow
<1>4. tokens'[b] = Refilled(b) - Cost /\ last'[b] = t
  BY <1>3 DEF SafeInv, TypeOK
<1>5. ASSUME NEW a \in Address, a # here, limiters[a] # NoBucket
      PROVE  /\ limiters'[a] = limiters[a]
             /\ tokens'[limiters[a]] = tokens[limiters[a]]
             /\ last'[limiters[a]] = last[limiters[a]]
             /\ last[limiters[a]] \in Nat
  <2>1. limiters[a] # b /\ limiters[a] \in Request
    BY <1>0, <1>5 DEF SafeInv, BucketsOwned, TypeOK
  <2> QED BY <1>3, <2>1 DEF SafeInv, TypeOK
\* r counts in every stretch of time that ends now ...
<1>6. ASSUME NEW s \in 0..t
      PROVE  /\ IsFiniteSet(AdmittedSince(here, s)) /\ n(s) \in Nat
             /\ IsFiniteSet(AdmittedSince(here, s)') /\ m(s) = n(s) + 1
  <2>1. IsFiniteSet(AdmittedSince(here, s)) /\ n(s) \in Nat
    BY <1>0, AdmittedFinite DEF Allowance, SafeInv
  <2>2. /\ AdmittedSince(here, s)' = AdmittedSince(here, s) \cup {r}
        /\ r \notin AdmittedSince(here, s)
    BY <1>0, AdmitsOne
  <2> QED BY <2>1, <2>2, FS_AddElement
\* ... and nobody was admitted after the bucket was last used.
<1>7. ASSUME NEW s \in 0..t, s > u
      PROVE  n(s) = 0
  <2>1. \A q \in Request : pc[q] = "next" /\ address[q] = here => at[q] =< u
    <3> SUFFICES ASSUME NEW q \in Request, pc[q] = "next", address[q] = here
                 PROVE  at[q] =< u
      OBVIOUS
    <3>1. limiter[q] = b
      BY <1>0, AbsentAssumption DEF SafeInv, Control, OneBucketPerAddress
    <3> QED BY <3>1, AbsentAssumption DEF SafeInv, LastUsed
  <2>2. AdmittedSince(here, s) = {}
    BY <1>7, <2>1 DEF AdmittedSince, SafeInv, TypeOK
  <2> QED BY <2>2, FS_EmptySet
<1>8. ASSUME NEW s \in 0..u
      PROVE  n(s) * Cost + tokens[b] =< Full + Rate * (u - s)
  BY <1>0, <1>8 DEF Allowance
<1>9. ASSUME NEW s \in 0..t
      PROVE  /\ (n(s) + 1) * Cost = n(s) * Cost + Cost
             /\ n(s) * Cost \in Nat /\ Cost \in Nat
             /\ Rate * (t - s) \in Nat
  BY <1>6, CostAdds, RateNatural, RateAssumption
<1>10. ASSUME NEW s \in 0..u
       PROVE  /\ Rate * (t - s) = Rate * (t - u) + Rate * (u - s)
              /\ Rate * (t - u) \in Nat /\ Rate * (u - s) \in Nat
  <2>1. s \in Nat /\ s =< u /\ u =< t
    BY <1>0
  <2> QED BY <2>1, RateAdds
<1>11. ASSUME NEW s \in 0..t
       PROVE  m(s) * Cost + tokens'[b] =< Full + Rate * (t - s)
  <2> HIDE DEF Full, n, m
  <2> USE BurstPositive
  <2>1. m(s) * Cost = n(s) * Cost + Cost /\ n(s) * Cost \in Nat /\ Cost \in Nat
        /\ Rate * (t - s) \in Nat
    BY <1>6, <1>9
  <2>2. CASE s =< u
    <3>1. n(s) * Cost + tokens[b] =< Full + Rate * (u - s)
      BY <1>8, <2>2
    <3>2. /\ Rate * (t - s) = Rate * (t - u) + Rate * (u - s)
          /\ Rate * (t - u) \in Nat /\ Rate * (u - s) \in Nat
      BY <1>10, <2>2
    <3>3. Refilled(b) =< tokens[b] + Rate * (t - u)
      BY <1>0, <1>1, <3>2
    <3> QED BY <1>0, <1>1, <1>4, <2>1, <3>1, <3>2, <3>3
  <2>3. CASE s > u
    <3>1. n(s) * Cost = 0
      BY <1>7, <2>3, RateAssumption
    <3> QED BY <1>1, <1>4, <2>1, <3>1
  <2> QED BY <2>2, <2>3
<1>12. \E s \in 0..t : m(s) * Cost + tokens'[b] = Full + Rate * (t - s)
  <2> HIDE DEF Full, n, m
  <2> USE BurstPositive
  <2>1. CASE Refilled(b) = tokens[b] + Rate * (t - u)
    <3>1. PICK s \in 0..u : n(s) * Cost + tokens[b] = Full + Rate * (u - s)
      BY <1>0 DEF Exhausted, n
    <3>2. s \in 0..t
      BY <1>0
    <3>3. m(s) * Cost = n(s) * Cost + Cost /\ n(s) * Cost \in Nat /\ Cost \in Nat
      BY <1>6, <1>9, <3>2
    <3>4. /\ Rate * (t - s) = Rate * (t - u) + Rate * (u - s)
          /\ Rate * (t - u) \in Nat /\ Rate * (u - s) \in Nat
      BY <1>10
    <3>5. tokens'[b] = (tokens[b] + Rate * (t - u)) - Cost /\ tokens[b] \in Nat
      <4>1. tokens[b] \in Nat
        BY <1>0
      <4> QED BY <1>4, <2>1, <4>1, Zenon
    <3>6. /\ (n(s) * Cost + Cost) + ((tokens[b] + Rate * (t - u)) - Cost)
              = (n(s) * Cost + tokens[b]) + Rate * (t - u)
          /\ (Full + Rate * (u - s)) + Rate * (t - u) = Full + Rate * (t - s)
      BY <3>3, <3>4, <3>5
    <3>7. m(s) * Cost + tokens'[b] = Full + Rate * (t - s)
      BY <3>1, <3>3, <3>5, <3>6
    <3> QED BY <3>2, <3>7
  <2>2. CASE Refilled(b) = Full /\ tokens[b] + Rate * (t - u) > Full
    <3>1. u < t
      <4>1. Rate * (u - u) = 0
        BY RateZero
      <4> QED BY <1>0, <2>2, <4>1
    <3>2. t \in 0..t /\ n(t) * Cost = 0
      BY <1>7, <3>1, RateAssumption
    <3>3. m(t) * Cost = n(t) * Cost + Cost /\ Cost \in Nat
      BY <1>6, <1>9, <3>2
    <3>4. Rate * (t - t) = 0
      BY RateZero
    <3>5. m(t) * Cost + tokens'[b] = Full + Rate * (t - t)
      BY <1>4, <2>2, <3>2, <3>3, <3>4
    <3> QED BY <3>2, <3>5
  <2> QED BY <1>1, <2>1, <2>2
<1>13. Allowance'
  <2> SUFFICES ASSUME NEW a \in Address
               PROVE  /\ IsFiniteSet(AdmittedSince(a, 0)')
                      /\ limiters'[a] # NoBucket =>
                           \A s \in 0..last'[limiters'[a]] :
                             Cardinality(AdmittedSince(a, s)') * Cost + tokens'[limiters'[a]]
                               =< Full + Rate * (last'[limiters'[a]] - s)
    BY DEF Allowance, Full, Burst
  <2>1. CASE a = here
    <3>1. IsFiniteSet(AdmittedSince(a, 0)')
      <4>1. 0 \in 0..t
        OBVIOUS
      <4> QED BY <1>6, <2>1, <4>1
    <3>2. limiters'[a] = b /\ last'[b] = t
      BY <1>0, <1>3, <1>4, <2>1
    <3> HIDE DEF Full
    <3> QED BY <1>11, <2>1, <3>1, <3>2
  <2>2. CASE a # here
    <3>1. \A s \in Nat : AdmittedSince(a, s)' = AdmittedSince(a, s)
      BY <1>0, <2>2, AdmitsOne
    <3>2. CASE limiters[a] = NoBucket
      BY <1>3, <3>1, <3>2 DEF Allowance
    <3>3. CASE limiters[a] # NoBucket
      BY <1>5, <2>2, <3>1, <3>3 DEF Allowance
    <3> QED BY <3>2, <3>3
  <2> QED BY <2>1, <2>2
<1>14. Exhausted'
  <2> SUFFICES ASSUME NEW a \in Address, limiters'[a] # NoBucket
               PROVE  \E s \in 0..last'[limiters'[a]] :
                        Cardinality(AdmittedSince(a, s)') * Cost + tokens'[limiters'[a]]
                          = Full + Rate * (last'[limiters'[a]] - s)
    BY DEF Exhausted, Full, Burst
  <2>1. CASE a = here
    <3>1. limiters'[a] = b /\ last'[b] = t
      BY <1>0, <1>3, <1>4, <2>1
    <3> HIDE DEF Full
    <3> QED BY <1>12, <2>1, <3>1
  <2>2. CASE a # here
    <3>1. \A s \in Nat : AdmittedSince(a, s)' = AdmittedSince(a, s)
      BY <1>0, <2>2, AdmitsOne
    <3> QED BY <1>3, <1>5, <2>2, <3>1 DEF Exhausted
  <2> QED BY <2>1, <2>2
<1> QED BY <1>13, <1>14

LEMMA LimitStep ==
  ASSUME LimitInv, [Next]_limitVars
  PROVE  LimitInv'
<1>1. SafeInv /\ Allowance /\ Exhausted
  BY DEF LimitInv, SafeInv
<1>2. TypeOK' /\ Control' /\ OneBucketPerAddress' /\ BucketsOwned' /\ LastUsed'
  BY <1>1, TypeStep, BucketStep, LastUsedStep DEF SafeInv
<1>3. Allowance' /\ Exhausted'
  <2>1. ASSUME NEW r \in Request, Arrive(r)
        PROVE  Allowance' /\ Exhausted'
    BY <1>1, <2>1, SameAdmitted, QuietStep DEF Arrive
  <2>2. ASSUME NEW r \in Request, FindLimiter(r)
        PROVE  Allowance' /\ Exhausted'
    BY <1>1, <2>2, SameAdmitted, QuietStep DEF FindLimiter
  <2>3. ASSUME NEW r \in Request, FindOrCreate(r), limiters[address[r]] # NoBucket
        PROVE  Allowance' /\ Exhausted'
    BY <1>1, <2>3, SameAdmitted, QuietStep DEF FindOrCreate
  <2>4. ASSUME NEW r \in Request, FindOrCreate(r), limiters[address[r]] = NoBucket
        PROVE  Allowance' /\ Exhausted'
    BY <1>1, <2>4, CreateStep
  <2>5. ASSUME NEW r \in Request, Admit(r)
        PROVE  Allowance' /\ Exhausted'
    BY <1>1, <2>5, AdmitStep
  <2>6. ASSUME NEW r \in Request, Refuse(r)
        PROVE  Allowance' /\ Exhausted'
    <3>1. limiter[r] \in Request /\ Refilled(limiter[r]) \in 0..Full
      BY <1>1, <2>6, RefilledBounds DEF Refuse, Allow, Control, SafeInv, TypeOK
    <3>2. ~ (Refilled(limiter[r]) >= Cost)
      BY <2>6, <3>1, BurstPositive, RateAssumption DEF Refuse
    <3>3. UNCHANGED <<limiters, tokens, last>>
      BY <2>6, <3>2 DEF Refuse, Allow
    <3> QED BY <1>1, <2>6, <3>3, SameAdmitted, QuietStep
  <2>7. CASE Tick
    BY <1>1, <2>7, SameAdmitted, QuietStep DEF Tick
  <2>8. CASE UNCHANGED limitVars
    BY <1>1, <2>8, SameAdmitted, QuietStep DEF limitVars
  <2> QED
    BY <2>1, <2>2, <2>3, <2>4, <2>5, <2>6, <2>7, <2>8 DEF Next, Allow, Admit, Refuse
<1> QED BY <1>2, <1>3 DEF LimitInv

LEMMA LimitInit == Init => LimitInv
<1> SUFFICES ASSUME Init
             PROVE  LimitInv
  OBVIOUS
<1> USE BurstPositive, AbsentAssumption DEF Init
<1> HIDE DEF Full
<1>1. TypeOK
  BY DEF TypeOK
<1>2. Control /\ OneBucketPerAddress /\ BucketsOwned /\ LastUsed
  BY DEF Control, OneBucketPerAddress, BucketsOwned, LastUsed
<1>3. Allowance
  <2>1. \A a \in Address : AdmittedSince(a, 0) = {}
    BY DEF AdmittedSince
  <2> QED BY <2>1, FS_EmptySet DEF Allowance
<1>4. Exhausted
  BY DEF Exhausted
<1> QED BY <1>1, <1>2, <1>3, <1>4 DEF LimitInv

------------------------------------------------------------------------------
(* The theorems.                                                             *)

\* The accounting of the buckets is an invariant (getLimiter, Allow).
THEOREM LimiterCorrect == Spec => []LimitInv
BY LimitInit, LimitStep, PTL DEF Spec

\* The racing first requests of an address end up with one bucket (getLimiter).
THEOREM OneBucket == Spec => []OneBucketPerAddress
<1>1. LimitInv => OneBucketPerAddress
  BY DEF LimitInv
<1> QED BY <1>1, LimiterCorrect, PTL

LEMMA InvWithinRate == LimitInv => WithinRate
<1> SUFFICES ASSUME LimitInv, NEW a \in Address, NEW s \in 0..now
             PROVE  Cardinality(AdmittedSince(a, s)) * Cost =< Full + Rate * (now - s)
  BY DEF WithinRate, Full
<1>1. SafeInv /\ now \in Nat /\ s \in Nat /\ s =< now
  BY DEF LimitInv, SafeInv, TypeOK
<1>2. Rate * (now - s) \in Nat /\ Full \in Nat
  BY <1>1, RateNatural, BurstPositive
<1> HIDE DEF Full
<1>3. ASSUME NEW q \in Request, pc[q] = "next", address[q] = a
      PROVE  limiter[q] = limiters[a] /\ limiters[a] # NoBucket /\ at[q] =< last[limiters[a]]
  BY <1>1, <1>3, AbsentAssumption DEF SafeInv, Control, OneBucketPerAddress, LastUsed
<1>4. CASE AdmittedSince(a, s) = {}
  <2>1. Cardinality(AdmittedSince(a, s)) * Cost = 0
    BY <1>4, FS_EmptySet, RateAssumption
  <2> QED BY <1>2, <2>1
<1>5. CASE AdmittedSince(a, s) # {}
  <2>1. PICK b \in Request : b = limiters[a]
    BY <1>1, <1>3, <1>5 DEF AdmittedSince, SafeInv, TypeOK
  <2>2. /\ limiters[a] # NoBucket /\ s =< last[b]
        /\ last[b] \in Nat /\ tokens[b] \in Nat /\ last[b] =< now
    BY <1>1, <1>3, <1>5, <2>1 DEF AdmittedSince, SafeInv, TypeOK, LastUsed
  <2>3. Cardinality(AdmittedSince(a, s)) * Cost + tokens[b] =< Full + Rate * (last[b] - s)
    BY <1>1, <2>1, <2>2 DEF LimitInv, Allowance
  <2>4. /\ Rate * (now - s) = Rate * (now - last[b]) + Rate * (last[b] - s)
        /\ Rate * (now - last[b]) \in Nat /\ Rate * (last[b] - s) \in Nat
    BY <1>1, <2>2, RateAdds
  <2>5. Cardinality(AdmittedSince(a, s)) * Cost \in Nat
    BY <1>1, AdmittedFinite, CostAdds DEF LimitInv, Allowance, SafeInv
  <2> QED BY <1>2, <2>2, <2>3, <2>4, <2>5
<1> QED BY <1>4, <1>5

\* Over no stretch of time does an address get more than its allowance
\* (RateLimitMiddleware).
THEOREM RateHolds == Spec => []WithinRate
BY LimiterCorrect, InvWithinRate, PTL

\* A bucket that refuses a request has given all that its address may get.
LEMMA RefusedSpent ==
  ASSUME LimitInv, NEW r \in Request, Refuse(r)
  PROVE  /\ address[r] \in Address
         /\ \E s \in 0..now :
              (Cardinality(AdmittedSince(address[r], s)) + 1) * Cost > Full + Rate * (now - s)
<1>1. SafeInv /\ now \in Nat
  BY DEF LimitInv, SafeInv, TypeOK
<1>2. Refuse(r)
  OBVIOUS
<1>3. PICK a \in Address : a = address[r]
  BY <1>1, <1>2 DEF Refuse, Allow, SafeInv, Control, TypeOK
<1>4. PICK b \in Request : b = limiter[r]
  BY <1>1, <1>2 DEF Refuse, Allow, SafeInv, Control, TypeOK
<1>5. b = limiters[a] /\ b # NoBucket
  BY <1>1, <1>2, <1>3, <1>4 DEF Refuse, Allow, SafeInv, Control, OneBucketPerAddress
<1>6. last[b] \in Nat /\ last[b] =< now /\ tokens[b] \in 0..Full
  BY <1>1 DEF SafeInv, TypeOK, LastUsed
<1> HIDE DEF Full
<1> USE BurstPositive, RateAssumption
<1>7. Refilled(b) < Cost
  BY <1>2, <1>4 DEF Refuse
<1>8. Rate * (now - last[b]) \in Nat
  BY <1>1, <1>6, RateNatural
<1>9. tokens[b] + Rate * (now - last[b]) < Cost
  BY <1>1, <1>6, <1>7, <1>8, RefilledBounds DEF SafeInv
<1>10. PICK s \in 0..last[b] :
         Cardinality(AdmittedSince(a, s)) * Cost + tokens[b] = Full + Rate * (last[b] - s)
  BY <1>5 DEF LimitInv, Exhausted
<1>11. s \in Nat /\ s =< last[b] /\ s \in 0..now
  BY <1>1, <1>6
<1>12. /\ Rate * (now - s) = Rate * (now - last[b]) + Rate * (last[b] - s)
       /\ Rate * (last[b] - s) \in Nat
  BY <1>1, <1>6, <1>11, RateAdds
<1>13. /\ Cardinality(AdmittedSince(a, s)) * Cost \in Nat
       /\ (Cardinality(AdmittedSince(a, s)) + 1) * Cost
            = Cardinality(AdmittedSince(a, s)) * Cost + Cost
  BY <1>1, <1>11, AdmittedFinite, CostAdds DEF LimitInv, Allowance, SafeInv
<1>14. (Cardinality(AdmittedSince(a, s)) + 1) * Cost > Full + Rate * (now - s)
  <2>1. (Cardinality(AdmittedSince(a, s)) * Cost + tokens[b]) + Rate * (now - last[b])
          = Full + Rate * (now - s)
    BY <1>6, <1>8, <1>10, <1>12, <1>13
  <2> QED BY <1>6, <1>8, <1>9, <1>12, <1>13, <2>1
<1> QED BY <1>3, <1>11, <1>14

\* A refused request had an address whose allowance was used up
\* (RateLimitMiddleware).
THEOREM RefusalsJustified == Spec => RefusedOnlyWhenSpent
<1> DEFINE Justified ==
      \A r \in Request :
        pc[r] # "refused" /\ pc'[r] = "refused" =>
          \E s \in 0..now :
            (Cardinality(AdmittedSince(address[r], s)) + 1) * Cost > Full + Rate * (now - s)
<1>1. LimitInv /\ [Next]_limitVars => [Justified]_limitVars
  <2> SUFFICES ASSUME LimitInv, Next, NEW r \in Request, pc[r] # "refused", pc'[r] = "refused"
               PROVE  \E s \in 0..now :
                        (Cardinality(AdmittedSince(address[r], s)) + 1) * Cost
                          > Full + Rate * (now - s)
    BY DEF Justified
  <2>1. Refuse(r)
    BY DEF Next, Arrive, FindLimiter, FindOrCreate, Allow, Tick, Goto, Refuse, LimitInv, TypeOK
  <2> QED BY <2>1, RefusedSpent
<1> QED BY <1>1, LimiterCorrect, PTL DEF Spec, RefusedOnlyWhenSpent

\* A bucket that admits a request has that much left of what its address may get.
LEMMA AdmittedFits ==
  ASSUME LimitInv, WithinRate', NEW r \in Request, Admit(r), NEW s \in 0..now
  PROVE  /\ address[r] \in Address
         /\ (Cardinality(AdmittedSince(address[r], s)) + 1) * Cost =< Full + Rate * (now - s)
<1>1. SafeInv /\ now \in Nat /\ s \in Nat
  BY DEF LimitInv, SafeInv, TypeOK
<1>2. PICK a \in Address : a = address[r]
  BY <1>1 DEF Admit, Allow, SafeInv, Control, TypeOK
<1>3. AdmittedSince(a, s)' = AdmittedSince(a, s) \cup {r} /\ r \notin AdmittedSince(a, s)
  BY <1>1, <1>2, AdmitsOne
<1>4. IsFiniteSet(AdmittedSince(a, s))
  BY <1>1, AdmittedFinite DEF LimitInv, Allowance, SafeInv
<1>5. Cardinality(AdmittedSince(a, s)') = Cardinality(AdmittedSince(a, s)) + 1
  BY <1>3, <1>4, FS_AddElement
<1>6. now' = now
  BY DEF Admit, Allow
<1>7. Cardinality(AdmittedSince(a, s)') * Cost =< Full + Rate * (now - s)
  BY <1>6 DEF WithinRate, Full, Burst
<1> QED
  BY <1>2, <1>5, <1>7

\* An instance has its own copy of the standard module it extends.
LEMMA SameCardinality == \A S : Allowed!Cardinality(S) = Cardinality(S)
BY DEF Allowed!Cardinality, Cardinality

\* The abstract requests that passed are the ones the buckets admitted.
LEMMA SamePassed ==
  /\ \A a, s : Allowed!PassedSince(a, s) = AdmittedSince(a, s)
  /\ \A a : Allowed!Fits(a) <=>
       \A s \in 0..now : (Cardinality(AdmittedSince(a, s)) + 1) * Cost =< Full + Rate * (now - s)
<1>1. ASSUME NEW a, NEW s PROVE Allowed!PassedSince(a, s) = AdmittedSince(a, s)
  BY DEF Allowed!PassedSince, AdmittedSince
<1>2. ASSUME NEW a
      PROVE  Allowed!Fits(a) <=>
               \A s \in 0..now : (Cardinality(AdmittedSince(a, s)) + 1) * Cost =< Full + Rate * (now - s)
  <2>1. \A s : Allowed!PassedSince(a, s) = AdmittedSince(a, s)
    BY <1>1
  <2> QED
    BY <2>1, SameCardinality DEF Allowed!Fits
<1> QED
  BY <1>1, <1>2
\* Every step of the limiter decides as the abstract limiter does, or nothing.
LEMMA AllowanceStep ==
  ASSUME LimitInv, WithinRate', [Next]_limitVars
  PROVE  [Allowed!Next]_(Allowed!vars)
<1> DEFINE open == {"read", "write", "allow"}
<1>0. TypeOK /\ Control
  BY DEF LimitInv
<1> USE <1>0 DEF TypeOK, Allowed!vars, Goto
<1>1. ASSUME NEW r \in Request, Arrive(r) PROVE Allowed!Ask(r)
  <2>1. PICK a \in Address \cup {NoAddress} :
          /\ address' = [address EXCEPT ![r] = a]
          /\ pc' = [pc EXCEPT ![r] = IF a = NoAddress THEN "next" ELSE "read"]
    BY <1>1 DEF Arrive
  <2>2. pc[r] = "idle" /\ at' = [at EXCEPT ![r] = now] /\ now' = now
    BY <1>1 DEF Arrive
  <2> DEFINE verdict == [q \in Request |-> IF pc[q] \in open THEN "asked" ELSE pc[q]]
  <2>3. verdict' = [verdict EXCEPT ![r] = IF a = NoAddress THEN "next" ELSE "asked"]
    BY <2>1, <2>2
  <2>4. verdict[r] = "idle"
    BY <2>2
  <2> QED
    BY <2>1, <2>2, <2>3, <2>4 DEF Allowed!Ask
<1>2. ASSUME NEW r \in Request, FindLimiter(r) \/ FindOrCreate(r)
      PROVE  UNCHANGED Allowed!vars
  BY <1>2 DEF FindLimiter, FindOrCreate
<1>3. ASSUME NEW r \in Request, Admit(r) PROVE Allowed!Pass(r)
  <2>1. Allowed!Fits(address[r])
    BY <1>3, AdmittedFits, SamePassed
  <2>2. ~ (Refilled(limiter[r]) < Cost)
    <3>1. limiter[r] \in Request
      BY <1>3 DEF Admit, Allow, Control
    <3>2. Refilled(limiter[r]) \in 0..Full
      BY <3>1, RefilledBounds DEF LimitInv
    <3> QED BY <1>3, <3>2, BurstPositive, RateAssumption DEF Admit
  <2>3. pc[r] = "allow" /\ pc' = [pc EXCEPT ![r] = "next"] /\ at' = [at EXCEPT ![r] = now]
        /\ UNCHANGED <<address, now>>
    BY <1>3, <2>2 DEF Admit, Allow
  <2> QED BY <2>1, <2>3 DEF Allowed!Pass
<1>4. ASSUME NEW r \in Request, Refuse(r) PROVE Allowed!Refuse(r)
  <2>1. ~ Allowed!Fits(address[r])
    <3>1. PICK s \in 0..now :
            (Cardinality(AdmittedSince(address[r], s)) + 1) * Cost > Full + Rate * (now - s)
      BY <1>4, RefusedSpent
    <3>2. /\ address[r] \in Address /\ now \in Nat /\ s \in Nat /\ s =< now
          /\ Cardinality(AdmittedSince(address[r], s)) \in Nat
      BY <1>4, RefusedSpent, AdmittedFinite DEF LimitInv, Allowance
    <3>3. Full \in Nat /\ Rate * (now - s) \in Nat
          /\ (Cardinality(AdmittedSince(address[r], s)) + 1) * Cost \in Nat
      BY <3>2, BurstPositive, RateNatural, CostAdds
    <3>4. ~ ((Cardinality(AdmittedSince(address[r], s)) + 1) * Cost =< Full + Rate * (now - s))
      <4> HIDE DEF Full
      <4> QED BY <3>1, <3>3
    <3> QED BY <3>4, SamePassed
  <2>2. ~ (Refilled(limiter[r]) >= Cost)
    <3>1. limiter[r] \in Request
      BY <1>4 DEF Refuse, Allow, Control
    <3>2. Refilled(limiter[r]) \in 0..Full
      BY <3>1, RefilledBounds DEF LimitInv
    <3> QED BY <1>4, <3>2, BurstPositive, RateAssumption DEF Refuse
  <2>3. pc[r] = "allow" /\ pc' = [pc EXCEPT ![r] = "refused"] /\ UNCHANGED <<address, at, now>>
    BY <1>4, <2>2 DEF Refuse, Allow
  <2> QED BY <2>1, <2>3 DEF Allowed!Refuse
<1>5. ASSUME Tick PROVE Allowed!Tick
  BY <1>5 DEF Tick, Allowed!Tick
<1>6. ASSUME UNCHANGED limitVars PROVE UNCHANGED Allowed!vars
  BY <1>6 DEF limitVars
<1>7. ASSUME NEW r \in Request, Allow(r) PROVE Admit(r) \/ Refuse(r)
  BY <1>7 DEF Allow, Admit, Refuse
<1> QED
  BY <1>1, <1>2, <1>3, <1>4, <1>5, <1>6, <1>7 DEF Next, Allowed!Next

\* The buckets decide as if they remembered every request that passed: they let
\* a request through exactly if its address stays within its allowance over
\* every stretch of time (RateLimitMiddleware).
THEOREM BucketsImplementAllowance == Spec => ImplementsAllowance
<1>1. Init => Allowed!Init
  BY DEF Init, Allowed!Init
<1>2. LimitInv /\ LimitInv' /\ [Next]_limitVars => [Allowed!Next]_(Allowed!vars)
  <2>1. LimitInv' => WithinRate'
    BY InvWithinRate, PTL
  <2> QED BY <2>1, AllowanceStep
<1> QED
  BY <1>1, <1>2, LimiterCorrect, PTL DEF Spec, ImplementsAllowance, Allowed!Spec

------------------------------------------------------------------------------
(* The chain of middlewares.                                                 *)

\* The chain's steps are the limiter's, or leave it alone.
LEMMA UsesLimiter == AccessSpec => Spec
<1>1. AccessInit => Init
  BY DEF AccessInit
<1>2. [AccessNext]_chainVars => [Next]_limitVars
  BY DEF AccessNext, Next, Receive, GetLimiter, Limit, Filter, chainVars, limitVars
<1> QED
  BY <1>1, <1>2, PTL DEF AccessSpec, Spec

\* Where the headers tell the origin, it is what the code makes of them
\* (extractClientIP), and it always makes an address of them, or nothing.
LEMMA ExtractsOrigin ==
  ASSUME NEW way \in Ways, NEW from \in Address \cup {NoAddress}, NEW sent \in Sent,
         way.proxied => from # NoAddress
  PROVE  /\ Tells(way, sent) => extractClientIP(Headers(way, from, sent)) = from
         /\ extractClientIP(Headers(way, from, sent)) \in Address \cup {NoAddress}
<1> DEFINE h == Headers(way, from, sent)
<1>1. /\ way \in Way
      /\ ~way.proxied => way.XRealIP = "passed" /\ way.XForwardedFor = "passed"
      /\ Proxy \in Address
      /\ sent.XRealIP \in Address \cup {NoAddress}
      /\ sent.XForwardedFor \in Seq(Address \cup {NoAddress})
  BY ProxyAssumption DEF Sent
<1> DEFINE list == sent.XForwardedFor
           Name == Address \cup {NoAddress}
<1>0. /\ way.XForwardedFor = "set" => h.XForwardedFor = <<from>>
      /\ way.XForwardedFor = "appended" => h.XForwardedFor = Append(list, from)
      /\ way.XForwardedFor = "passed" => h.XForwardedFor = list
  BY DEF Headers
<1>2. h.XForwardedFor \in Seq(Name)
  <2>1. from \in Name /\ list \in Seq(Name)
    BY <1>1
  <2>2. <<from>> \in Seq(Name) /\ Append(list, from) \in Seq(Name)
    <3> HIDE DEF list, Name
    <3> QED
      BY <2>1, AppendProperties
  <2>3. way.XForwardedFor \in {"set", "appended", "passed"}
    BY <1>1 DEF Way
  <2> HIDE DEF list, Name, h
  <2> QED
    BY <1>0, <2>1, <2>2, <2>3
<1>3. h.XForwardedFor # <<>> => h.XForwardedFor[1] \in Address \cup {NoAddress}
  BY <1>2
<1>4. /\ h.XRealIP = IF way.XRealIP = "set" THEN from ELSE sent.XRealIP
      /\ h.RemoteAddr = IF way.proxied THEN Proxy ELSE from
  BY DEF Headers
<1>5. extractClientIP(h) \in Address \cup {NoAddress}
  BY <1>1, <1>3, <1>4
  DEF extractClientIP, extractFromRemoteAddr, tryExtractFromProxyHeaders
<1>6. ASSUME Tells(way, sent), way.proxied
      PROVE  extractClientIP(h) = from
  <2>1. config.trustProxy /\ from # NoAddress
    BY <1>6 DEF Tells
  <2>2. CASE way.XRealIP = "set"
    BY <2>1, <2>2, <1>4 DEF extractClientIP, tryExtractFromProxyHeaders
  <2>3. CASE way.XRealIP # "set"
    <3>1. h.XRealIP = NoAddress
      BY <1>4, <1>6, <2>3 DEF Tells
    <3>2. h.XForwardedFor = <<from>>
      <4>1. way.XForwardedFor = "set" \/ (way.XForwardedFor = "appended" /\ list = <<>>)
        BY <1>6, <2>3 DEF Tells
      <4>2. Append(<<>>, from) = <<from>>
        OBVIOUS
      <4> HIDE DEF h, list
      <4> QED
        BY <1>0, <4>1, <4>2
    <3> HIDE DEF h
    <3> QED
      BY <2>1, <3>1, <3>2 DEF extractClientIP, tryExtractFromProxyHeaders
  <2> QED
    BY <2>2, <2>3
<1>7. ASSUME Tells(way, sent), ~way.proxied
      PROVE  extractClientIP(h) = from
  <2>1. /\ h.RemoteAddr = from /\ h.XRealIP = sent.XRealIP
        /\ h.XForwardedFor = sent.XForwardedFor
    BY <1>1, <1>7 DEF Headers
  <2> HIDE DEF h
  <2> QED
    BY <1>7, <2>1 DEF Tells, extractClientIP, extractFromRemoteAddr, tryExtractFromProxyHeaders
<1> QED
  BY <1>5, <1>6, <1>7

\* Every step of the chain keeps the types and who each middleware decides for.
LEMMA AccessStep ==
  ASSUME AccessInv, Control, TypeOK', [AccessNext]_chainVars
  PROVE  AccessInv'
<1> USE DEF AccessInv, AccessTypeOK, OneClient
<1> DEFINE Kept == config' = config /\ (\A ip : IsAllowed(ip)' <=> IsAllowed(ip))
<1>0. config' = config => \A ip : IsAllowed(ip)' <=> IsAllowed(ip)
  BY DEF IsAllowed, allowedNets, parseIPOrCIDR
<1>1. ASSUME NEW r \in Request, Receive(r)
      PROVE  AccessInv'
  <2>1. PICK way \in Ways, from \in Address \cup {NoAddress}, sent \in Sent :
          LET ip == extractClientIP(Headers(way, from, sent)) IN
            /\ way.proxied => from # NoAddress
            /\ address'[r] = IF config.limited THEN ip ELSE NoAddress
            /\ origin' = [origin EXCEPT ![r] = IF Tells(way, sent) THEN from ELSE Untold]
            /\ client' = [client EXCEPT ![r] = ip]
    BY <1>1 DEF Receive
  <2>2. /\ Tells(way, sent) => extractClientIP(Headers(way, from, sent)) = from
        /\ extractClientIP(Headers(way, from, sent)) \in Address \cup {NoAddress}
    BY <2>1, ExtractsOrigin
  <2>3. /\ config' = config /\ answer' = answer /\ pc[r] = "idle"
        /\ \A q \in Request \ {r} : address'[q] = address[q] /\ pc'[q] = pc[q]
        /\ pc'[r] \in {"next", "read"}
    BY <1>1 DEF Receive, Arrive, Goto, TypeOK
  <2>4. AccessTypeOK'
    BY <2>1, <2>2, <2>3
  <2>5. OneClient'
    BY <1>0, <2>1, <2>2, <2>3
  <2> QED
    BY <2>4, <2>5
<1>2. ASSUME NEW r \in Request, GetLimiter(r)
      PROVE  AccessInv'
  <2>1. UNCHANGED <<config, origin, client, answer, address>>
    BY <1>2 DEF GetLimiter, FindLimiter, FindOrCreate, accessVars
  <2>2. \A q \in Request : (pc'[q] = pc[q]) \/ (q = r /\ pc[q] \in {"read", "write"}
                                                 /\ pc'[q] \in {"write", "allow"})
    BY <1>2 DEF GetLimiter, FindLimiter, FindOrCreate, Goto, TypeOK
  <2> QED
    BY <1>0, <2>1, <2>2
<1>3. ASSUME NEW r \in Request, Limit(r)
      PROVE  AccessInv'
  <2>1. /\ UNCHANGED <<config, origin, client, address>> /\ pc[r] = "allow"
        /\ pc'[r] \in {"next", "refused"}
        /\ \A q \in Request \ {r} : pc'[q] = pc[q]
        /\ answer' = IF pc'[r] = "refused" THEN [answer EXCEPT ![r] = "limiter"] ELSE answer
    BY <1>3 DEF Limit, Allow, Goto, TypeOK
  <2> QED
    BY <1>0, <2>1
<1>4. ASSUME NEW r \in Request, Filter(r)
      PROVE  AccessInv'
  <2>1. /\ UNCHANGED <<config, origin, client, address, pc>> /\ pc[r] = "next"
        /\ answer' = [answer EXCEPT ![r] = IF IsAllowed(client[r]) THEN "routes" ELSE "filter"]
    BY <1>4 DEF Filter, limitVars
  <2> QED
    BY <1>0, <2>1
<1>5. CASE Tick /\ UNCHANGED accessVars
  BY <1>0, <1>5 DEF Tick, accessVars
<1>6. CASE UNCHANGED chainVars
  BY <1>0, <1>6 DEF chainVars, limitVars, accessVars
<1> QED
  BY <1>1, <1>2, <1>3, <1>4, <1>5, <1>6 DEF AccessNext

\* The middlewares decide about one address, which is the request's origin where
\* its headers tell that (Run, extractClientIP, mustExtractClientIP).
THEOREM AccessCorrect == AccessSpec => []AccessInv
<1>1. AccessInit => AccessInv
  <2>1. AccessInit => TypeOK
    BY LimitInit DEF AccessInit, LimitInv
  <2>2. AccessInit => AccessTypeOK /\ OneClient
    BY <2>1 DEF AccessInit, AccessTypeOK, OneClient, Init
  <2> QED
    BY <2>2 DEF AccessInv
<1>2. LimitInv /\ LimitInv' /\ AccessInv /\ [AccessNext]_chainVars => AccessInv'
  BY AccessStep DEF LimitInv
<1> QED
  BY <1>1, <1>2, UsesLimiter, LimiterCorrect, PTL DEF AccessSpec

\* A request reaches the routes if and only if its origin is listed or nothing is
\* - or, if its headers do not tell the origin, the address they state (IsAllowed,
\* IPFilterMiddleware).
THEOREM ListHolds == AccessSpec => []ListDecides
<1>1. AccessInv => ListDecides
  <2> DEFINE whose(r) == IF origin[r] = Untold THEN client[r] ELSE origin[r]
  <2> SUFFICES ASSUME AccessInv, NEW r \in Request, PlainList, answer[r] \in {"routes", "filter"}
               PROVE  answer[r] = "routes"
                        <=> config.ALLOWED_IPS \subseteq {Blank}
                              \/ whose(r) \in UNION {Named(entry) :
                                                    entry \in config.ALLOWED_IPS \ {Blank}}
    BY DEF ListDecides
  <2>0. pc[r] = "next" /\ (origin[r] # Untold => client[r] = origin[r])
    BY DEF AccessInv, OneClient
  <2>1. answer[r] = "routes" <=> IsAllowed(whose(r))
    BY <2>0 DEF AccessInv, OneClient
  <2> HIDE DEF whose
  <2>2. ASSUME NEW entry \in config.ALLOWED_IPS \ {Blank}
        PROVE  parseIPOrCIDR(entry) = Named(entry)
    <3>1. entry \in Entry /\ entry # Blank /\ entry # Invalid
      BY ConfigAssumption DEF AccessInv, AccessTypeOK, OneClient
    <3>2. entry.kind \in {"address", "mapped", "cidr"} /\ entry.kind # "mapped"
      BY <3>1 DEF Entry, PlainList
    <3> QED
      BY <3>2 DEF parseIPOrCIDR, Named
  <2>3. allowedNets = {} <=> config.ALLOWED_IPS \subseteq {Blank}
    BY DEF allowedNets
  <2>4. (\E net \in allowedNets : whose(r) \in net)
          <=> whose(r) \in UNION {Named(entry) : entry \in config.ALLOWED_IPS \ {Blank}}
    BY <2>2 DEF allowedNets
  <2> QED
    BY <2>1, <2>3, <2>4 DEF IsAllowed
<1> QED
  BY <1>1, AccessCorrect, PTL

\* With a rate limit, no place on the network passes more often than burst and
\* rate allow with the requests whose headers tell that they are its own, by
\* whatever ways and with whatever else in them (RateLimitMiddleware).
THEOREM OriginsLimited == AccessSpec => []OriginLimited
<1>1. LimitInv /\ AccessInv => OriginLimited
  <2> DEFINE Passed(a, s) == {r \in Request : answer[r] \in {"routes", "filter"}
                                                /\ origin[r] = a /\ at[r] >= s}
  <2> SUFFICES ASSUME LimitInv, AccessInv, config.limited, NEW a \in Address, NEW s \in 0..now
               PROVE  Cardinality(Passed(a, s)) * Cost =< Full + Rate * (now - s)
    BY DEF OriginLimited
  <2>1. SafeInv /\ s \in Nat /\ now \in Nat /\ s =< now
    BY DEF LimitInv, SafeInv, TypeOK
  <2>2. Passed(a, s) \subseteq AdmittedSince(a, s)
    BY AbsentAssumption, UntoldAssumption DEF AdmittedSince, AccessInv, OneClient
  <2>3. IsFiniteSet(AdmittedSince(a, s)) /\ Cardinality(AdmittedSince(a, s)) \in Nat
    BY <2>1, AdmittedFinite DEF LimitInv, Allowance
  <2>4. /\ Cardinality(Passed(a, s)) =< Cardinality(AdmittedSince(a, s))
        /\ Cardinality(Passed(a, s)) \in Nat
    BY <2>2, <2>3, FS_Subset, FS_CardinalityType
  <2>5. \A m \in Nat, n \in Nat, c \in Nat \ {0} : m =< n => m * c =< n * c
    OBVIOUS
  <2>6. Cardinality(Passed(a, s)) * Cost =< Cardinality(AdmittedSince(a, s)) * Cost
    BY <2>3, <2>4, <2>5, RateAssumption
  <2>7. Cardinality(AdmittedSince(a, s)) * Cost =< Full + Rate * (now - s)
    BY InvWithinRate DEF WithinRate
  <2>8. /\ Cardinality(Passed(a, s)) * Cost \in Nat /\ Cardinality(AdmittedSince(a, s)) * Cost \in Nat
        /\ Full \in Nat /\ Rate * (now - s) \in Nat
    BY <2>1, <2>3, <2>4, CostAdds, BurstPositive, RateNatural
  <2> HIDE DEF Passed, Full
  <2> QED
    BY <2>6, <2>7, <2>8
<1> QED
  BY <1>1, AccessCorrect, UsesLimiter, LimiterCorrect, PTL

==============================================================================
