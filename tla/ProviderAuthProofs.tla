------------------------ MODULE ProviderAuthProofs ------------------------
(***************************************************************************)
(* Proofs about ProviderAuth, for any number of instances, wallets and     *)
(* addresses and any limits: type correctness, that access ends with the   *)
(* registration, and that a challenge is worth one token.                  *)
(***************************************************************************)
EXTENDS ProviderAuth, FiniteSetTheorems, TLAPS

\* A request that answers a challenge names it; one that asks for one does not.
Named ==
    \A i \in Instance :
        /\ req[i].step \in {"find", "consume", "issue"} => req[i].nonce \in Nonce \ {None}
        /\ req[i].step = "create" => req[i].nonce = None

\* There is a name left for every challenge that was asked for.
Room == Cardinality(Asking) <= Cardinality(Nonce \ Remembered)

TypeInv == TypeOK /\ Named /\ Room

\* Who was found registered has been off the Router for no longer than the
\* request has been on its way.
Recent ==
    /\ \A p \in registered : lapsed[p] = 0
    /\ \A i \in Instance :
        req[i].step \in {"consume", "issue"} => lapsed[WalletOf[i]] <= req[i].age

\* The challenges that were paid for with a token, or are about to be.
Issuing == {i \in Instance : req[i].step = "issue"}
Redeemed == {t.nonce : t \in tokens} \cup {req[i].nonce : i \in Issuing}

Spent ==
    /\ \A c, d \in challenges : c.nonce = d.nonce => c = d
    /\ \A c \in challenges : c.nonce \in Redeemed => c.consumed
    /\ \A i \in Issuing : \A t \in tokens : t.nonce # req[i].nonce
    /\ \A i, j \in Issuing : req[i].nonce = req[j].nonce => i = j
    /\ OneTokenPerChallenge

IInv == TypeInv /\ Recent /\ AccessLapses /\ Spent

---------------------------------------------------------------------------
(* The rate limiter. *)

Windows == [Key -> [count : 0 .. RateLimit, left : 0 .. Window]]

(* Counting a call leaves the windows well typed.                          *)
LEMMA CountedType ==
    ASSUME NEW w \in Windows, NEW k \in Key
    PROVE  Counted(w, k) \in Windows
<1>1. CASE Over(w, k)
  BY <1>1 DEF Counted
<1>2. CASE ~Over(w, k) /\ w[k].left > 0
  <2>1. [w[k] EXCEPT !.count = w[k].count + 1] \in [count : 0 .. RateLimit, left : 0 .. Window]
    BY <1>2, ConstantsAssumption DEF Over, Windows
  <2>2. Counted(w, k) = [w EXCEPT ![k] = [w[k] EXCEPT !.count = w[k].count + 1]]
    BY <1>2 DEF Counted
  <2>3. QED
    BY <2>1, <2>2 DEF Windows
<1>3. CASE ~Over(w, k) /\ ~(w[k].left > 0)
  <2>1. [count |-> 1, left |-> Window] \in [count : 0 .. RateLimit, left : 0 .. Window]
    BY ConstantsAssumption
  <2>2. Counted(w, k) = [w EXCEPT ![k] = [count |-> 1, left |-> Window]]
    BY <1>3 DEF Counted
  <2>3. QED
    BY <2>1, <2>2 DEF Windows
<1>4. QED
  BY <1>1, <1>2, <1>3

(* So does the arrival of a call at either auth route.                     *)
LEMMA LimitsType ==
    ASSUME windows \in Windows, NEW i \in Instance, NEW route \in {"challenge", "verify"}
    PROVE  Limits(route, i).after \in Windows
<1>1. <<route, AddressOf[i]>> \in Key /\ <<route, WalletOf[i]>> \in Key
  BY ConstantsAssumption DEF Key, Route
<1>2. Counted(windows, <<route, AddressOf[i]>>) \in Windows
  BY <1>1, CountedType
<1>3. Counted(Counted(windows, <<route, AddressOf[i]>>), <<route, WalletOf[i]>>) \in Windows
  BY <1>1, <1>2, CountedType
<1>4. QED
  BY <1>2, <1>3 DEF Limits

Requests == [Instance -> [step : Step \cup {"idle"}, age : 0 .. MaxDelay,
                          nonce : Nonce \cup {None}]]

(* A call that arrives is taken on, or refused by the limiter.             *)
LEMMA ArriveType ==
    ASSUME TypeOK, NEW i \in Instance, NEW route \in {"challenge", "verify"},
           NEW step \in Step, NEW nonce \in Nonce \cup {None}, Arrive(i, route, step, nonce)
    PROVE  /\ windows' \in Windows
           /\ req' \in Requests
           /\ \A j \in Instance : j # i => req'[j] = req[j]
           /\ \/ req' = req
              \/ req'[i] = [step |-> step, age |-> 0, nonce |-> nonce]
<1>1. windows' \in Windows
  BY LimitsType DEF Arrive, TypeOK, Windows
<1>2. [step |-> step, age |-> 0, nonce |-> nonce]
        \in [step : Step \cup {"idle"}, age : 0 .. MaxDelay, nonce : Nonce \cup {None}]
  BY ConstantsAssumption
<1>3. req \in Requests
  BY DEF TypeOK, Requests
<1>4. CASE req' = req
  BY <1>1, <1>3, <1>4
<1>5. CASE req' = [req EXCEPT ![i] = [step |-> step, age |-> 0, nonce |-> nonce]]
  BY <1>1, <1>2, <1>3, <1>5 DEF Requests
<1>6. QED
  BY <1>4, <1>5 DEF Arrive

(* A request goes on with a step, or is answered.                          *)
LEMMA GoesOnType ==
    ASSUME req \in Requests, NEW i \in Instance, NEW step \in Step, GoesOn(i, step)
    PROVE  /\ req' \in Requests
           /\ \A j \in Instance : j # i => req'[j] = req[j]
           /\ req'[i].step = step /\ req'[i].age = req[i].age /\ req'[i].nonce = req[i].nonce
<1>1. [req[i] EXCEPT !.step = step]
        \in [step : Step \cup {"idle"}, age : 0 .. MaxDelay, nonce : Nonce \cup {None}]
  BY DEF Requests
<1>2. QED
  BY <1>1 DEF GoesOn, Requests

LEMMA AnsweredType ==
    ASSUME req \in Requests, NEW i \in Instance, Answered(i)
    PROVE  /\ req' \in Requests
           /\ \A j \in Instance : j # i => req'[j] = req[j]
           /\ req'[i] = Idle
<1>1. Idle \in [step : Step \cup {"idle"}, age : 0 .. MaxDelay, nonce : Nonce \cup {None}]
  BY ConstantsAssumption DEF Idle
<1>2. QED
  BY <1>1 DEF Answered, Requests

---------------------------------------------------------------------------
(* Names for challenges. *)

(* The sets the bound compares are finite.                                 *)
LEMMA Finite == IsFiniteSet(Asking) /\ IsFiniteSet(Nonce \ Remembered)
<1>1. Asking \in SUBSET Instance
  BY DEF Asking
<1>2. QED
  BY <1>1, ConstantsAssumption, FS_Subset, FS_Difference

(* The name of a new challenge is one nothing remembers.                   *)
LEMMA NewNonceIsFree ==
    ASSUME Room, NEW i \in Instance, i \in Asking
    PROVE  NewNonce \in Nonce /\ NewNonce \notin Remembered
<1>1. Cardinality(Asking) # 0
  BY Finite, FS_EmptySet
<1>2. Cardinality(Asking) \in Nat /\ Cardinality(Nonce \ Remembered) \in Nat
  BY Finite, FS_CardinalityType
<1>3. Nonce \ Remembered # {}
  BY <1>1, <1>2, FS_EmptySet DEF Room
<1>4. QED
  BY <1>3 DEF NewNonce

(* One more element makes a set larger by at most one.                     *)
LEMMA OneMore ==
    ASSUME NEW S, NEW x, IsFiniteSet(S)
    PROVE  /\ IsFiniteSet(S \cup {x})
           /\ Cardinality(S \cup {x}) <= Cardinality(S) + 1
<1>1. Cardinality(S) \in Nat
  BY FS_CardinalityType
<1>2. /\ IsFiniteSet(S \cup {x})
      /\ Cardinality(S \cup {x}) = IF x \in S THEN Cardinality(S) ELSE Cardinality(S) + 1
  BY FS_AddElement
<1>3. QED
  BY <1>1, <1>2

(* When no one starts to ask and nothing new is remembered, room is left.  *)
LEMMA RoomStays ==
    ASSUME Room, Asking' \subseteq Asking, Remembered' \subseteq Remembered \cup {None}
    PROVE  Room'
<1>1. IsFiniteSet(Asking') /\ IsFiniteSet((Nonce \ Remembered)')
  BY Finite, FS_Subset, ConstantsAssumption, FS_Difference
<1>2. Asking' \in SUBSET Asking /\ Nonce \ Remembered \in SUBSET (Nonce \ Remembered)'
  BY ConstantsAssumption
<1>3. /\ Cardinality(Asking') <= Cardinality(Asking)
      /\ Cardinality(Nonce \ Remembered) <= Cardinality((Nonce \ Remembered)')
  BY <1>1, <1>2, Finite, FS_Subset
<1>4. /\ Cardinality(Asking') \in Nat /\ Cardinality(Asking) \in Nat
      /\ Cardinality(Nonce \ Remembered) \in Nat
      /\ Cardinality((Nonce \ Remembered)') \in Nat
  BY <1>1, Finite, FS_CardinalityType
<1>5. QED
  BY <1>3, <1>4 DEF Room
---------------------------------------------------------------------------
(* Type correctness. *)

(* What a request leaves behind when it goes on, or is answered.           *)
LEMMA StepIsNamed ==
    ASSUME Named, NEW i \in Instance,
           \A j \in Instance : j # i => req'[j] = req[j],
           req'[i].step \in {"find", "consume", "issue"} => req'[i].nonce \in Nonce \ {None},
           req'[i].step = "create" => req'[i].nonce = None
    PROVE  Named'
BY DEF Named

LEMMA InitInv == Init => IInv
<1> SUFFICES ASSUME Init PROVE IInv
  OBVIOUS
<1> USE DEF Init
<1>1. TypeOK
  <2>1. Idle \in [step : Step \cup {"idle"}, age : 0 .. MaxDelay, nonce : Nonce \cup {None}]
    BY ConstantsAssumption DEF Idle
  <2>2. Fresh \in [count : 0 .. RateLimit, left : 0 .. Window]
    BY ConstantsAssumption DEF Fresh
  <2>3. QED
    BY <2>1, <2>2, ConstantsAssumption DEF TypeOK
<1>2. Named
  BY DEF Named, Idle
<1>3. Room
  <2>1. Asking = {}
    BY DEF Asking, Idle
  <2>2. Cardinality(Asking) = 0
    BY <2>1, FS_EmptySet
  <2>3. Cardinality(Nonce \ Remembered) \in Nat
    BY Finite, FS_CardinalityType
  <2>4. QED
    BY <2>2, <2>3 DEF Room
<1>4. Recent
  BY DEF Recent, Idle
<1>5. AccessLapses /\ Spent
  BY DEF AccessLapses, Spent, OneTokenPerChallenge, Issuing, Redeemed, Idle
<1>6. QED
  BY <1>1, <1>2, <1>3, <1>4, <1>5 DEF IInv, TypeInv

(* The requests that are served keep the variables in their types and      *)
(* leave a name for everyone who asks.                                     *)
LEMMA RegistrationTyped ==
    ASSUME TypeInv, NEW i \in Instance, CheckRegistration(i)
    PROVE  TypeInv'
<1> USE DEF TypeInv
<1>0. req \in Requests
  BY DEF TypeOK, Requests
<1>1. CASE /\ GoesOn(i, IF req[i].nonce = None THEN "create" ELSE "consume")
           /\ UNCHANGED <<signed, faults>>
  <2>1. (IF req[i].nonce = None THEN "create" ELSE "consume") \in Step
    BY DEF Step
  <2>2. /\ req' \in Requests
        /\ \A j \in Instance : j # i => req'[j] = req[j]
        /\ req'[i].step = (IF req[i].nonce = None THEN "create" ELSE "consume")
        /\ req'[i].nonce = req[i].nonce
    BY <1>0, <1>1, <2>1, GoesOnType
  <2>3. TypeOK'
    BY <1>1, <2>2 DEF CheckRegistration, TypeOK, Requests, rows
  <2>4. Named'
    BY <1>0, <2>2, StepIsNamed DEF Requests
  <2>5. Asking' \subseteq Asking /\ Remembered' \subseteq Remembered
    BY <1>0, <1>1, <2>2 DEF CheckRegistration, Asking, Remembered, rows
  <2>6. QED
    BY <2>3, <2>4, <2>5, RoomStays
<1>2. CASE /\ WalletOf[i] \notin registered \/ faults < MaxFaults
           /\ faults' = IF WalletOf[i] \notin registered THEN faults ELSE faults + 1
           /\ Answered(i)
           /\ signed' = [signed EXCEPT ![i] = None]
  <2>1. /\ req' \in Requests
        /\ \A j \in Instance : j # i => req'[j] = req[j]
        /\ req'[i] = Idle
    BY <1>0, <1>2, AnsweredType
  <2>2. faults' \in 0 .. MaxFaults
    BY <1>2, ConstantsAssumption DEF TypeOK
  <2>3. TypeOK'
    BY <1>2, <2>1, <2>2 DEF CheckRegistration, TypeOK, Requests, rows
  <2>4. Named'
    BY <2>1, StepIsNamed DEF Idle
  <2>5. Asking' \subseteq Asking
    BY <2>1 DEF Asking, Idle
  <2>6. Remembered' \subseteq Remembered \cup {None}
    BY <1>2, <2>1 DEF CheckRegistration, Remembered, TypeOK, Idle, rows
  <2>7. QED
    BY <2>3, <2>4, <2>5, <2>6, RoomStays
<1>3. QED
  BY <1>1, <1>2 DEF CheckRegistration
LEMMA AskTyped ==
    ASSUME TypeInv, NEW i \in Instance, AskChallenge(i)
    PROVE  TypeInv'
<1> USE DEF TypeInv
<1>1. /\ windows' \in Windows
      /\ req' \in Requests
      /\ \A j \in Instance : j # i => req'[j] = req[j]
      /\ \/ req' = req
         \/ req'[i] = [step |-> "registry", age |-> 0, nonce |-> None]
  BY ArriveType DEF AskChallenge, Step
<1>2. TypeOK'
  BY <1>1 DEF AskChallenge, TypeOK, Requests, Windows, rows, client
<1>3. Named'
  BY <1>1, StepIsNamed DEF Named
<1>4. Remembered' \subseteq Remembered \cup {None}
  BY <1>1 DEF AskChallenge, Remembered, rows, client
<1>5. Asking' \subseteq Asking \cup {i}
  BY <1>1 DEF Asking
<1>6. Room'
  <2>1. /\ IsFiniteSet(Asking \cup {i}) /\ IsFiniteSet(Asking')
        /\ IsFiniteSet((Nonce \ Remembered)')
    BY <1>5, Finite, FS_AddElement, FS_Subset, FS_Difference, ConstantsAssumption
  <2>2. Cardinality(Asking \cup {i}) <= Cardinality(Asking) + 1
    BY Finite, OneMore
  <2>3. Cardinality(Asking') <= Cardinality(Asking \cup {i})
    BY <1>5, <2>1, FS_Subset
  <2>4. Nonce \ Remembered \in SUBSET (Nonce \ Remembered)'
    BY <1>4, ConstantsAssumption
  <2>5. Cardinality(Nonce \ Remembered) <= Cardinality((Nonce \ Remembered)')
    BY <2>1, <2>4, FS_Subset
  <2>6. /\ Cardinality(Asking') \in Nat /\ Cardinality(Asking \cup {i}) \in Nat
        /\ Cardinality(Asking) \in Nat /\ Cardinality(Nonce \ Remembered) \in Nat
        /\ Cardinality((Nonce \ Remembered)') \in Nat
    BY <2>1, Finite, FS_CardinalityType
  <2>7. Cardinality(Nonce \ Remembered) > Cardinality(Asking)
    BY DEF AskChallenge
  <2>8. QED
    BY <2>2, <2>3, <2>5, <2>6, <2>7 DEF Room
<1>7. QED
  BY <1>2, <1>3, <1>6

LEMMA CreateTyped ==
    ASSUME TypeInv, NEW i \in Instance, CreateChallenge(i)
    PROVE  TypeInv'
<1> USE DEF TypeInv
<1> DEFINE n == NewNonce
<1>0. req \in Requests
  BY DEF TypeOK, Requests
<1>1. /\ req' \in Requests
      /\ \A j \in Instance : j # i => req'[j] = req[j]
      /\ req'[i] = Idle
  BY <1>0, AnsweredType DEF CreateChallenge
<1>2. i \in Asking
  BY DEF CreateChallenge, Named, Asking
<1>3. n \in Nonce /\ n \notin Remembered
  BY <1>2, NewNonceIsFree
<1>4. /\ challenges' = challenges \cup
           {[nonce |-> n, provider |-> WalletOf[i],
             left |-> ChallengeTtl - req[i].age, consumed |-> FALSE]}
      /\ Delivered(signed, i, n)
      /\ UNCHANGED <<registered, lapsed, tokens, windows, bearer>>
  BY DEF CreateChallenge
<1> HIDE DEF n
<1>5. ChallengeTtl - req[i].age \in (-MaxDelay) .. ChallengeTtl
  BY <1>0, ConstantsAssumption DEF Requests
<1>6. challenges' \subseteq Challenge
  <2>1. WalletOf[i] \in Provider
    BY ConstantsAssumption
  <2>2. [nonce |-> n, provider |-> WalletOf[i], left |-> ChallengeTtl - req[i].age,
         consumed |-> FALSE] \in Challenge
    BY <1>3, <1>5, <2>1 DEF Challenge
  <2>3. challenges \subseteq Challenge
    BY DEF TypeOK
  <2>4. QED
    BY <1>4, <2>2, <2>3
<1>7. /\ signed' \in [Instance -> Nonce \cup {None}]
      /\ \A j \in Instance : signed'[j] \in {signed[j], n, None}
      /\ faults' \in 0 .. MaxFaults
  BY <1>3, <1>4, ConstantsAssumption DEF Delivered, TypeOK
<1>8. TypeOK'
  BY <1>1, <1>4, <1>6, <1>7 DEF TypeOK, Requests
<1>9. Named'
  BY <1>1, StepIsNamed DEF Idle
<1>10. Asking' = Asking \ {i}
  BY <1>1 DEF Asking, Idle
<1>11. Nonce \ Remembered \subseteq (Nonce \ Remembered)' \cup {n}
  <2>1. Remembered' \subseteq Remembered \cup {n, None}
    BY <1>1, <1>4, <1>7 DEF Remembered, Idle
  <2>2. QED
    BY <2>1, ConstantsAssumption
<1>12. Room'
  <2>1. IsFiniteSet(Asking') /\ IsFiniteSet((Nonce \ Remembered)')
    BY <1>10, Finite, FS_RemoveElement, FS_Difference, ConstantsAssumption
  <2>2. Cardinality(Asking') = Cardinality(Asking) - 1
    BY <1>2, <1>10, Finite, FS_RemoveElement
  <2>3. /\ IsFiniteSet((Nonce \ Remembered)' \cup {n})
        /\ Cardinality((Nonce \ Remembered)' \cup {n}) <= Cardinality((Nonce \ Remembered)') + 1
    BY <2>1, OneMore
  <2>4. Nonce \ Remembered \in SUBSET ((Nonce \ Remembered)' \cup {n})
    BY <1>11
  <2>5. Cardinality(Nonce \ Remembered) <= Cardinality((Nonce \ Remembered)' \cup {n})
    BY <2>3, <2>4, FS_Subset
  <2>6. /\ Cardinality(Asking') \in Nat /\ Cardinality(Asking) \in Nat
        /\ Cardinality(Nonce \ Remembered) \in Nat
        /\ Cardinality((Nonce \ Remembered)') \in Nat
        /\ Cardinality((Nonce \ Remembered)' \cup {n}) \in Nat
    BY <2>1, <2>3, Finite, FS_CardinalityType
  <2>7. QED
    BY <2>2, <2>3, <2>5, <2>6 DEF Room
<1>13. QED
  BY <1>8, <1>9, <1>12
LEMMA SendTyped ==
    ASSUME TypeInv, NEW i \in Instance, SendSignature(i)
    PROVE  TypeInv'
<1> USE DEF TypeInv
<1>0. PICK j \in Instance : signed[j] # None /\ Arrive(i, "verify", "find", signed[j])
  BY DEF SendSignature
<1>1. signed[j] \in Nonce
  BY <1>0 DEF TypeOK
<1>2. /\ windows' \in Windows
      /\ req' \in Requests
      /\ \A k \in Instance : k # i => req'[k] = req[k]
      /\ \/ req' = req
         \/ req'[i] = [step |-> "find", age |-> 0, nonce |-> signed[j]]
  BY <1>0, <1>1, ArriveType DEF Step
<1>3. TypeOK'
  BY <1>2 DEF SendSignature, TypeOK, Requests, Windows, rows, client
<1>4. Named'
  BY <1>0, <1>1, <1>2, StepIsNamed DEF Named
<1>5. Asking' \subseteq Asking
  BY <1>2 DEF Asking
<1>6. Remembered' \subseteq Remembered
  BY <1>2 DEF SendSignature, Remembered, rows, client
<1>7. QED
  BY <1>3, <1>4, <1>5, <1>6, RoomStays

LEMMA FindTyped ==
    ASSUME TypeInv, NEW i \in Instance, FindChallenge(i)
    PROVE  TypeInv'
<1> USE DEF TypeInv
<1>0. req \in Requests
  BY DEF TypeOK, Requests
<1>1. CASE GoesOn(i, "registry") /\ UNCHANGED signed
  <2>1. /\ req' \in Requests
        /\ \A j \in Instance : j # i => req'[j] = req[j]
        /\ req'[i].step = "registry" /\ req'[i].nonce = req[i].nonce
    BY <1>0, <1>1, GoesOnType DEF Step
  <2>2. TypeOK'
    BY <1>1, <2>1 DEF FindChallenge, TypeOK, Requests, rows
  <2>3. Named'
    BY <2>1, StepIsNamed
  <2>4. Asking' \subseteq Asking /\ Remembered' \subseteq Remembered
    BY <1>1, <2>1 DEF FindChallenge, Named, Asking, Remembered, rows
  <2>5. QED
    BY <2>2, <2>3, <2>4, RoomStays
<1>2. CASE Refuse(i)
  <2>1. /\ req' \in Requests
        /\ \A j \in Instance : j # i => req'[j] = req[j]
        /\ req'[i] = Idle
    BY <1>0, <1>2, AnsweredType DEF Refuse
  <2>2. TypeOK'
    BY <1>2, <2>1 DEF FindChallenge, Refuse, TypeOK, Requests, rows
  <2>3. Named' /\ Asking' \subseteq Asking
    BY <2>1, StepIsNamed DEF Idle, Asking
  <2>4. Remembered' \subseteq Remembered \cup {None}
    BY <1>2, <2>1 DEF FindChallenge, Refuse, Remembered, TypeOK, Idle, rows
  <2>5. QED
    BY <2>2, <2>3, <2>4, RoomStays
<1>3. QED
  BY <1>1, <1>2 DEF FindChallenge

LEMMA ConsumeTyped ==
    ASSUME TypeInv, NEW i \in Instance, Consume(i)
    PROVE  TypeInv'
<1> USE DEF TypeInv
<1>0. req \in Requests
  BY DEF TypeOK, Requests
<1>1. ASSUME NEW c \in challenges,
             challenges' = (challenges \ {c}) \cup {[c EXCEPT !.consumed = TRUE]},
             GoesOn(i, "issue"), UNCHANGED signed
      PROVE  TypeInv'
  <2>1. /\ req' \in Requests
        /\ \A j \in Instance : j # i => req'[j] = req[j]
        /\ req'[i].step = "issue" /\ req'[i].nonce = req[i].nonce
    BY <1>0, <1>1, GoesOnType DEF Step
  <2>2. [c EXCEPT !.consumed = TRUE] \in Challenge /\ [c EXCEPT !.consumed = TRUE].nonce = c.nonce
    BY DEF TypeOK, Challenge
  <2>3. TypeOK'
    BY <1>1, <2>1, <2>2 DEF Consume, TypeOK, Requests
  <2>4. Named'
    BY <2>1, StepIsNamed DEF Consume, Named
  <2>5. Asking' \subseteq Asking
    BY <2>1 DEF Asking
  <2>6. {d.nonce : d \in challenges'} \subseteq {d.nonce : d \in challenges}
    BY <1>1, <2>2
  <2>7. Remembered' \subseteq Remembered
    <3>1. {req'[j].nonce : j \in Instance} = {req[j].nonce : j \in Instance}
      BY <2>1
    <3>2. UNCHANGED <<tokens, signed, bearer>>
      BY <1>1 DEF Consume
    <3>3. QED
      BY <2>6, <3>1, <3>2 DEF Remembered
  <2>8. QED
    BY <2>3, <2>4, <2>5, <2>7, RoomStays
<1>2. CASE Refuse(i) /\ UNCHANGED challenges
  <2>1. /\ req' \in Requests
        /\ \A j \in Instance : j # i => req'[j] = req[j]
        /\ req'[i] = Idle
    BY <1>0, <1>2, AnsweredType DEF Refuse
  <2>2. TypeOK'
    BY <1>2, <2>1 DEF Consume, Refuse, TypeOK, Requests
  <2>3. Named' /\ Asking' \subseteq Asking
    BY <2>1, StepIsNamed DEF Idle, Asking
  <2>4. Remembered' \subseteq Remembered \cup {None}
    BY <1>2, <2>1 DEF Consume, Refuse, Remembered, TypeOK, Idle
  <2>5. QED
    BY <2>2, <2>3, <2>4, RoomStays
<1>3. QED
  BY <1>1, <1>2 DEF Consume

LEMMA IssueTyped ==
    ASSUME TypeInv, NEW i \in Instance, Issue(i)
    PROVE  TypeInv'
<1> USE DEF TypeInv
<1>0. req \in Requests
  BY DEF TypeOK, Requests
<1>1. /\ req' \in Requests
      /\ \A j \in Instance : j # i => req'[j] = req[j]
      /\ req'[i] = Idle
  BY <1>0, AnsweredType DEF Issue
<1>2. req[i].nonce \in Nonce
  BY DEF Issue, Named
<1>3. NewToken(i) \in Token /\ NewToken(i).nonce = req[i].nonce
  <2>1. TokenTtl - req[i].age \in (-MaxDelay) .. TokenTtl
    BY <1>0, ConstantsAssumption DEF Requests
  <2>2. WalletOf[i] \in Provider
    BY ConstantsAssumption
  <2>3. QED
    BY <1>2, <2>1, <2>2 DEF NewToken, Token
<1>4. /\ bearer' \in [Instance -> Nonce \cup {None}]
      /\ \A j \in Instance : bearer'[j] \in {bearer[j], req[i].nonce, None}
      /\ faults' \in 0 .. MaxFaults
  <2> DEFINE n == req[i].nonce
  <2>1. \/ bearer' = [bearer EXCEPT ![i] = n] /\ UNCHANGED faults
        \/ bearer' = [bearer EXCEPT ![i] = None] /\ faults < MaxFaults /\ faults' = faults + 1
    BY DEF Issue, Delivered
  <2>2. n \in Nonce /\ bearer \in [Instance -> Nonce \cup {None}] /\ faults \in 0 .. MaxFaults
    BY <1>2 DEF TypeOK
  <2> HIDE DEF n
  <2>3. /\ bearer' \in [Instance -> Nonce \cup {None}]
        /\ \A j \in Instance : bearer'[j] \in {bearer[j], n, None}
    BY <2>1, <2>2
  <2>4. faults' \in 0 .. MaxFaults
    BY <2>1, <2>2, ConstantsAssumption
  <2>5. QED
    BY <2>3, <2>4 DEF n
<1>5. TypeOK'
  BY <1>1, <1>3, <1>4 DEF Issue, TypeOK, Requests
<1>6. Named' /\ Asking' \subseteq Asking
  BY <1>1, StepIsNamed DEF Idle, Asking
<1>7. Remembered' \subseteq Remembered \cup {None}
  <2>1. {t.nonce : t \in tokens'} \subseteq {t.nonce : t \in tokens} \cup {req[i].nonce}
    BY <1>3 DEF Issue
  <2>2. {bearer'[j] : j \in Instance} \subseteq {bearer[j] : j \in Instance} \cup {req[i].nonce, None}
    BY <1>4
  <2>3. {signed'[j] : j \in Instance} \subseteq {signed[j] : j \in Instance} \cup {None}
    BY DEF Issue, TypeOK
  <2>4. {req'[j].nonce : j \in Instance} \subseteq {req[j].nonce : j \in Instance} \cup {None}
    BY <1>1 DEF Idle
  <2>5. QED
    BY <2>1, <2>2, <2>3, <2>4 DEF Issue, Remembered
<1>8. QED
  BY <1>5, <1>6, <1>7, RoomStays
LEMMA LookupTyped ==
    ASSUME TypeInv, NEW i \in Instance, Poll(i) \/ Lookup(i)
    PROVE  TypeInv'
<1> USE DEF TypeInv
<1>0. req \in Requests /\ windows \in Windows
  BY DEF TypeOK, Requests, Windows
<1>1. CASE Poll(i)
  <2> DEFINE r == [step |-> "lookup", age |-> 0, nonce |-> bearer[i]]
  <2>1. req' = [req EXCEPT ![i] = r]
    BY <1>1 DEF Poll
  <2>2. r \in [step : Step \cup {"idle"}, age : 0 .. MaxDelay, nonce : Nonce \cup {None}]
    BY ConstantsAssumption DEF TypeOK, Step
  <2>3. r.step = "lookup" /\ r.nonce = bearer[i]
    OBVIOUS
  <2> HIDE DEF r
  <2>4. /\ req' \in Requests
        /\ \A j \in Instance : j # i => req'[j] = req[j]
        /\ req'[i] = r
    BY <1>0, <2>1, <2>2 DEF Requests
  <2>5. TypeOK'
    BY <1>1, <2>4 DEF Poll, TypeOK, Requests, rows, client
  <2>6. Named' /\ Asking' \subseteq Asking
    BY <2>3, <2>4, StepIsNamed DEF Asking
  <2>7. Remembered' \subseteq Remembered
    BY <1>1, <2>3, <2>4 DEF Poll, Remembered, rows, client
  <2>8. QED
    BY <2>5, <2>6, <2>7, RoomStays
<1>2. CASE Lookup(i)
  <2>1. /\ req' \in Requests
        /\ \A j \in Instance : j # i => req'[j] = req[j]
        /\ req'[i] = Idle
    BY <1>0, <1>2, AnsweredType DEF Lookup
  <2>2. windows' \in Windows
    <3>1. <<"export", i>> \in Key
      BY DEF Key, Route
    <3>2. QED
      BY <1>0, <1>2, <3>1, CountedType DEF Lookup
  <2>3. /\ bearer' \in [Instance -> Nonce \cup {None}]
        /\ \A j \in Instance : bearer'[j] \in {bearer[j], None}
    BY <1>2 DEF Lookup, TypeOK
  <2>4. TypeOK'
    BY <1>2, <2>1, <2>2, <2>3 DEF Lookup, TypeOK, Requests, Windows, rows
  <2>5. Named' /\ Asking' \subseteq Asking
    BY <2>1, StepIsNamed DEF Idle, Asking
  <2>6. Remembered' \subseteq Remembered \cup {None}
    BY <1>2, <2>1, <2>3 DEF Lookup, Remembered, Idle, rows
  <2>7. QED
    BY <2>4, <2>5, <2>6, RoomStays
<1>3. QED
  BY <1>1, <1>2

(* Nothing on the chain takes a request or a row with it.                  *)
LEMMA ChainTyped ==
    ASSUME TypeInv, NEW p \in Provider, Register(p) \/ Deregister(p)
    PROVE  TypeInv'
<1> USE DEF TypeInv
<1>1. UNCHANGED <<challenges, tokens, windows, req, signed, bearer, faults>>
  BY DEF Register, Deregister, rows, client
<1>2. registered' \subseteq Provider /\ lapsed' \in [Provider -> 0 .. TokenTtl]
  BY ConstantsAssumption DEF Register, Deregister, TypeOK
<1>3. TypeOK' /\ Named'
  BY <1>1, <1>2 DEF TypeOK, Named
<1>4. Asking' \subseteq Asking /\ Remembered' \subseteq Remembered
  BY <1>1 DEF Asking, Remembered
<1>5. QED
  BY <1>3, <1>4, RoomStays

LEMMA CrashTyped ==
    ASSUME TypeInv, Crash
    PROVE  TypeInv'
<1> USE DEF TypeInv
<1>1. req' \in Requests /\ \A i \in Instance : req'[i] = Idle
  BY ConstantsAssumption DEF Crash, Requests, Idle
<1>2. windows' \in Windows
  BY ConstantsAssumption DEF Crash, Windows, Fresh
<1>3. faults' \in 0 .. MaxFaults
  BY ConstantsAssumption DEF Crash, TypeOK
<1>4. TypeOK'
  BY <1>1, <1>2, <1>3 DEF Crash, TypeOK, Requests, Windows, rows, client
<1>5. Named' /\ Asking' \subseteq Asking
  BY <1>1 DEF Named, Asking, Idle
<1>6. Remembered' \subseteq Remembered \cup {None}
  BY <1>1 DEF Crash, Remembered, Idle, rows, client
<1>7. QED
  BY <1>4, <1>5, <1>6, RoomStays

(* A second ages every row by one, and forgets some.                       *)
LEMMA OlderRows ==
    ASSUME NEW S, NEW x \in Older(S)
    PROVE  \E y \in S : y.left > -MaxDelay /\ x = [y EXCEPT !.left = y.left - 1]
BY DEF Older

LEMMA TickTyped ==
    ASSUME TypeInv, Tick
    PROVE  TypeInv'
<1> USE DEF TypeInv
<1>1. challenges' \subseteq Challenge /\ \A c \in challenges' : \E d \in challenges : c.nonce = d.nonce
  <2> SUFFICES ASSUME NEW c \in challenges'
               PROVE  c \in Challenge /\ \E d \in challenges : c.nonce = d.nonce
    OBVIOUS
  <2>1. PICK d \in challenges : d.left > -MaxDelay /\ c = [d EXCEPT !.left = d.left - 1]
    BY OlderRows DEF Tick
  <2>2. QED
    BY <2>1, ConstantsAssumption DEF TypeOK, Challenge
<1>2. tokens' \subseteq Token /\ \A t \in tokens' : \E u \in tokens : t.nonce = u.nonce
  <2> SUFFICES ASSUME NEW t \in tokens'
               PROVE  t \in Token /\ \E u \in tokens : t.nonce = u.nonce
    OBVIOUS
  <2>1. PICK u \in tokens : u.left > -MaxDelay /\ t = [u EXCEPT !.left = u.left - 1]
    BY OlderRows DEF Tick
  <2>2. QED
    BY <2>1, ConstantsAssumption DEF TypeOK, Token
<1>3. /\ req' \in Requests
      /\ \A i \in Instance : req'[i].step = req[i].step /\ req'[i].nonce = req[i].nonce
  <2>1. \A i \in Instance : req'[i] = IF req[i] = Idle THEN Idle
                                      ELSE [req[i] EXCEPT !.age = req[i].age + 1]
    BY DEF Tick
  <2>2. \A i \in Instance : req[i] \in [step : Step \cup {"idle"}, age : 0 .. MaxDelay,
                                         nonce : Nonce \cup {None}]
    BY DEF TypeOK
  <2>3. \A i \in Instance : req[i] # Idle => req[i].age < MaxDelay
    BY DEF Tick
  <2>4. ASSUME NEW i \in Instance
        PROVE  /\ req'[i] \in [step : Step \cup {"idle"}, age : 0 .. MaxDelay,
                               nonce : Nonce \cup {None}]
               /\ req'[i].step = req[i].step /\ req'[i].nonce = req[i].nonce
    <3>1. CASE req[i] = Idle
      BY <2>1, <2>2, <3>1
    <3>2. CASE req[i] # Idle
      <4>1. req'[i] = [req[i] EXCEPT !.age = req[i].age + 1]
        BY <2>1, <3>2
      <4>2. req[i].age + 1 \in 0 .. MaxDelay
        BY <2>2, <2>3, <3>2, ConstantsAssumption
      <4>3. QED
        BY <2>2, <4>1, <4>2
    <3>3. QED
      BY <3>1, <3>2
  <2>5. req' = [i \in Instance |-> req'[i]]
    BY DEF Tick
  <2>6. QED
    BY <2>4, <2>5 DEF Requests
<1>4. windows' \in Windows
  <2>1. windows' = [k \in Key |-> IF windows[k].left <= 1 THEN Fresh
                                  ELSE [windows[k] EXCEPT !.left = windows[k].left - 1]]
    BY DEF Tick
  <2>2. ASSUME NEW k \in Key
        PROVE  (IF windows[k].left <= 1 THEN Fresh
                ELSE [windows[k] EXCEPT !.left = windows[k].left - 1])
                 \in [count : 0 .. RateLimit, left : 0 .. Window]
    <3>1. windows[k] \in [count : 0 .. RateLimit, left : 0 .. Window]
      BY DEF TypeOK
    <3>2. Fresh \in [count : 0 .. RateLimit, left : 0 .. Window]
      BY ConstantsAssumption DEF Fresh
    <3>3. ~(windows[k].left <= 1)
             => [windows[k] EXCEPT !.left = windows[k].left - 1]
                  \in [count : 0 .. RateLimit, left : 0 .. Window]
      BY <3>1, ConstantsAssumption
    <3>4. QED
      BY <3>2, <3>3
  <2>3. QED
    BY <2>1, <2>2 DEF Windows
<1>5. lapsed' \in [Provider -> 0 .. TokenTtl]
  <2>1. \A p \in Provider : lapsed[p] \in 0 .. TokenTtl
    BY DEF TypeOK
  <2>2. lapsed' = [p \in Provider |-> IF p \in registered \/ lapsed[p] = TokenTtl THEN lapsed[p]
                                     ELSE lapsed[p] + 1]
    BY DEF Tick
  <2>3. \A p \in Provider : lapsed[p] # TokenTtl => lapsed[p] + 1 \in 0 .. TokenTtl
    BY <2>1, ConstantsAssumption
  <2>4. QED
    BY <2>1, <2>2, <2>3
<1>6. TypeOK'
  <2>1. UNCHANGED <<registered, signed, bearer, faults>>
    BY DEF Tick, client
  <2>2. QED
    BY <1>1, <1>2, <1>3, <1>4, <1>5, <2>1 DEF TypeOK, Requests, Windows
<1>7. Named' /\ Asking' \subseteq Asking
  BY <1>3 DEF Named, Asking
<1>8. Remembered' \subseteq Remembered
  <2>1. {req'[i].nonce : i \in Instance} = {req[i].nonce : i \in Instance}
    BY <1>3
  <2>2. UNCHANGED <<signed, bearer>>
    BY DEF Tick, client
  <2>3. /\ {c.nonce : c \in challenges'} \subseteq {c.nonce : c \in challenges}
        /\ {t.nonce : t \in tokens'} \subseteq {t.nonce : t \in tokens}
    BY <1>1, <1>2
  <2>4. QED
    BY <2>1, <2>2, <2>3 DEF Remembered
<1>9. QED
  BY <1>6, <1>7, <1>8, RoomStays

LEMMA TypeStep == TypeInv /\ [Next]_vars => TypeInv'
<1> SUFFICES ASSUME TypeInv, [Next]_vars PROVE TypeInv'
  OBVIOUS
<1>1. ASSUME NEW i \in Instance, Serve(i) \/ Call(i)
      PROVE  TypeInv'
  BY <1>1, RegistrationTyped, CreateTyped, FindTyped, ConsumeTyped, IssueTyped, LookupTyped,
     AskTyped, SendTyped DEF Serve, Call
<1>2. ASSUME NEW p \in Provider, Register(p) \/ Deregister(p)
      PROVE  TypeInv'
  BY <1>2, ChainTyped
<1>3. CASE Crash \/ Tick
  BY <1>3, CrashTyped, TickTyped
<1>4. CASE UNCHANGED vars
  BY <1>4 DEF vars, rows, client, TypeInv, TypeOK, Named, Room, Asking, Remembered
<1>5. QED
  BY <1>1, <1>2, <1>3, <1>4 DEF Next
(* Every state of every behaviour is well typed.                           *)
THEOREM TypeCorrect == Spec => []TypeOK
<1>1. Init => TypeInv
  BY InitInv DEF IInv
<1>2. TypeInv => TypeOK
  BY DEF TypeInv
<1>3. QED
  BY <1>1, <1>2, TypeStep, PTL DEF Spec

---------------------------------------------------------------------------
(* Access ends with the registration. *)

(* What a step does to the requests that were found registered, when it    *)
(* leaves the registrations and the tokens alone.                          *)
LEMMA RecentStays ==
    ASSUME Recent, AccessLapses, UNCHANGED <<registered, lapsed, tokens>>,
           \A i \in Instance : req'[i].step \in {"consume", "issue"} =>
              \/ /\ req[i].step \in {"consume", "issue"}
                 /\ req'[i].age = req[i].age
              \/ lapsed[WalletOf[i]] <= req'[i].age
    PROVE  Recent' /\ AccessLapses'
BY DEF Recent, AccessLapses

LEMMA AccessStep ==
    TypeInv /\ Recent /\ AccessLapses /\ [Next]_vars => Recent' /\ AccessLapses'
<1> SUFFICES ASSUME TypeInv, Recent, AccessLapses, [Next]_vars
             PROVE  Recent' /\ AccessLapses'
  OBVIOUS
<1>0. /\ TypeOK /\ req \in Requests
      /\ \A i \in Instance : req[i].age \in 0 .. MaxDelay /\ WalletOf[i] \in Provider
      /\ \A p \in Provider : lapsed[p] \in 0 .. TokenTtl
  BY ConstantsAssumption DEF TypeInv, TypeOK, Requests
<1>1. ASSUME NEW i \in Instance, CheckRegistration(i)
      PROVE  Recent' /\ AccessLapses'
  <2>1. CASE /\ WalletOf[i] \in registered
             /\ GoesOn(i, IF req[i].nonce = None THEN "create" ELSE "consume")
    <3>1. (IF req[i].nonce = None THEN "create" ELSE "consume") \in Step
      BY DEF Step
    <3>2. /\ \A j \in Instance : j # i => req'[j] = req[j]
          /\ req'[i].age = req[i].age
      BY <1>0, <2>1, <3>1, GoesOnType
    <3>3. lapsed[WalletOf[i]] <= req'[i].age
      BY <1>0, <2>1, <3>2 DEF Recent
    <3>4. QED
      BY <1>1, <3>2, <3>3, RecentStays DEF CheckRegistration, rows
  <2>2. CASE Answered(i)
    <3>1. (\A j \in Instance : j # i => req'[j] = req[j]) /\ req'[i] = Idle
      BY <1>0, <2>2, AnsweredType
    <3>2. QED
      BY <1>1, <3>1, RecentStays DEF CheckRegistration, rows, Idle
  <2>3. QED
    BY <1>1, <2>1, <2>2 DEF CheckRegistration
<1>2. ASSUME NEW i \in Instance, AskChallenge(i) \/ SendSignature(i)
      PROVE  Recent' /\ AccessLapses'
  <2>1. /\ \A j \in Instance : j # i => req'[j] = req[j]
        /\ req' = req \/ req'[i].step \in {"registry", "find"}
    <3>1. CASE AskChallenge(i)
      <4>1. /\ \A j \in Instance : j # i => req'[j] = req[j]
            /\ \/ req' = req
               \/ req'[i] = [step |-> "registry", age |-> 0, nonce |-> None]
        BY <1>0, <3>1, ArriveType DEF AskChallenge, Step
      <4>2. QED
        BY <4>1
    <3>2. CASE SendSignature(i)
      <4>1. PICK j \in Instance : Arrive(i, "verify", "find", signed[j])
        BY <3>2 DEF SendSignature
      <4>2. signed[j] \in Nonce \cup {None}
        BY <1>0 DEF TypeOK
      <4>3. /\ \A k \in Instance : k # i => req'[k] = req[k]
            /\ \/ req' = req
               \/ req'[i] = [step |-> "find", age |-> 0, nonce |-> signed[j]]
        BY <1>0, <4>1, <4>2, ArriveType DEF Step
      <4>4. QED
        BY <4>3
    <3>3. QED
      BY <1>2, <3>1, <3>2
  <2>2. UNCHANGED <<registered, lapsed, tokens>>
    BY <1>2 DEF AskChallenge, SendSignature, rows
  <2>3. QED
    BY <2>1, <2>2, RecentStays
<1>3. ASSUME NEW i \in Instance, CreateChallenge(i) \/ Lookup(i)
      PROVE  Recent' /\ AccessLapses'
  <2>1. (\A j \in Instance : j # i => req'[j] = req[j]) /\ req'[i] = Idle
    BY <1>0, <1>3, AnsweredType DEF CreateChallenge, Lookup
  <2>2. QED
    BY <1>3, <2>1, RecentStays DEF CreateChallenge, Lookup, rows, Idle
<1>4. ASSUME NEW i \in Instance, FindChallenge(i) \/ Consume(i)
      PROVE  Recent' /\ AccessLapses'
  <2>1. \/ FindChallenge(i) /\ GoesOn(i, "registry")
        \/ Consume(i) /\ GoesOn(i, "issue")
        \/ Refuse(i)
    BY <1>4 DEF FindChallenge, Consume
  <2>2. UNCHANGED <<registered, lapsed, tokens>>
    BY <1>4 DEF FindChallenge, Consume, rows
  <2>3. CASE Refuse(i)
    BY <1>0, <2>2, <2>3, AnsweredType, RecentStays DEF Refuse, Idle
  <2>4. CASE FindChallenge(i) /\ GoesOn(i, "registry")
    BY <1>0, <2>2, <2>4, GoesOnType, RecentStays DEF Step
  <2>5. CASE Consume(i) /\ GoesOn(i, "issue")
    BY <1>0, <2>2, <2>5, GoesOnType, RecentStays DEF Consume, Step
  <2>6. QED
    BY <2>1, <2>3, <2>4, <2>5
<1>5. ASSUME NEW i \in Instance, Issue(i)
      PROVE  Recent' /\ AccessLapses'
  <2>1. (\A j \in Instance : j # i => req'[j] = req[j]) /\ req'[i] = Idle
    BY <1>0, <1>5, AnsweredType DEF Issue
  <2>2. Recent'
    BY <1>5, <2>1 DEF Issue, Recent, Idle
  <2>3. NewToken(i).left + lapsed[NewToken(i).provider] <= TokenTtl
    <3>1. lapsed[WalletOf[i]] <= req[i].age
      BY <1>5 DEF Issue, Recent
    <3>2. QED
      BY <1>0, <3>1, ConstantsAssumption DEF NewToken
  <2>4. AccessLapses'
    BY <1>5, <2>3 DEF Issue, AccessLapses
  <2>5. QED
    BY <2>2, <2>4
<1>6. ASSUME NEW i \in Instance, Poll(i)
      PROVE  Recent' /\ AccessLapses'
  <2>1. \A j \in Instance : req'[j] = req[j] \/ req'[j].step = "lookup"
    BY <1>0, <1>6 DEF Poll, Requests
  <2>2. QED
    BY <1>6, <2>1, RecentStays DEF Poll, rows
<1>7. ASSUME NEW p \in Provider, Register(p) \/ Deregister(p)
      PROVE  Recent' /\ AccessLapses'
  <2>1. /\ UNCHANGED <<tokens, req>>
        /\ \A q \in Provider : lapsed'[q] = lapsed[q] \/ lapsed'[q] = 0
        /\ \A q \in registered' : lapsed'[q] = 0
    BY <1>0, <1>7 DEF Register, Deregister, TypeOK, Recent, rows
  <2>2. \A q \in Provider : lapsed'[q] <= lapsed[q]
    BY <1>0, <2>1
  <2>3. lapsed' \in [Provider -> 0 .. TokenTtl]
    BY <1>0, <1>7, ConstantsAssumption DEF Register, Deregister, TypeOK
  <2>4. Recent'
    BY <1>0, <2>1, <2>2, <2>3 DEF Recent
  <2>5. AccessLapses'
    <3> SUFFICES ASSUME NEW t \in tokens PROVE t.left + lapsed'[t.provider] <= TokenTtl
      BY <2>1 DEF AccessLapses
    <3>1. t.provider \in Provider /\ t.left \in Int
      BY <1>0, ConstantsAssumption DEF TypeOK, Token
    <3>2. t.left + lapsed[t.provider] <= TokenTtl
      BY DEF AccessLapses
    <3>3. QED
      BY <1>0, <2>2, <2>3, <3>1, <3>2, ConstantsAssumption
  <2>6. QED
    BY <2>4, <2>5
<1>8. CASE Crash
  BY <1>8, RecentStays DEF Crash, rows, Idle
<1>9. CASE Tick
  <2>1. \A p \in Provider :
          /\ lapsed'[p] \in 0 .. TokenTtl
          /\ lapsed'[p] <= lapsed[p] + 1
          /\ p \in registered => lapsed'[p] = lapsed[p]
    <3>1. \A p \in Provider : lapsed'[p] = IF p \in registered \/ lapsed[p] = TokenTtl THEN lapsed[p]
                                          ELSE lapsed[p] + 1
      BY <1>9 DEF Tick
    <3>2. QED
      BY <1>0, <3>1, ConstantsAssumption
  <2>2. \A i \in Instance : /\ req'[i].step = req[i].step
                            /\ req'[i].step \in {"consume", "issue"} => req'[i].age = req[i].age + 1
    <3>1. \A i \in Instance : req'[i] = IF req[i] = Idle THEN Idle
                                        ELSE [req[i] EXCEPT !.age = req[i].age + 1]
      BY <1>9 DEF Tick
    <3>2. \A i \in Instance : req[i] \in [step : Step \cup {"idle"}, age : 0 .. MaxDelay,
                                           nonce : Nonce \cup {None}]
      BY <1>0 DEF TypeOK
    <3>3. ASSUME NEW i \in Instance
          PROVE  /\ req'[i].step = req[i].step
                 /\ req'[i].step \in {"consume", "issue"} => req'[i].age = req[i].age + 1
      <4>1. CASE req[i] = Idle
        <5>1. req'[i] = Idle
          BY <3>1, <4>1
        <5>2. Idle.step = "idle"
          BY DEF Idle
        <5>3. QED
          BY <4>1, <5>1, <5>2
      <4>2. CASE req[i] # Idle
        <5>1. req'[i] = [req[i] EXCEPT !.age = req[i].age + 1]
          BY <3>1, <4>2
        <5>2. QED
          BY <3>2, <5>1
      <4>3. QED
        BY <4>1, <4>2
    <3>4. QED
      BY <3>3
  <2>3. Recent'
    <3>1. \A p \in registered' : lapsed'[p] = 0
      BY <1>0, <1>9, <2>1 DEF Tick, TypeOK, Recent
    <3>2. ASSUME NEW i \in Instance, req'[i].step \in {"consume", "issue"}
          PROVE  lapsed'[WalletOf[i]] <= req'[i].age
      <4>1. lapsed[WalletOf[i]] <= req[i].age /\ req'[i].age = req[i].age + 1
        BY <2>2, <3>2 DEF Recent
      <4>2. lapsed'[WalletOf[i]] <= lapsed[WalletOf[i]] + 1 /\ lapsed'[WalletOf[i]] \in Nat
        BY <1>0, <2>1, ConstantsAssumption
      <4>3. lapsed[WalletOf[i]] \in Nat /\ req[i].age \in Nat
        BY <1>0, ConstantsAssumption
      <4>4. QED
        BY <4>1, <4>2, <4>3
    <3>3. QED
      BY <3>1, <3>2 DEF Recent
  <2>4. AccessLapses'
    <3> SUFFICES ASSUME NEW t \in tokens' PROVE t.left + lapsed'[t.provider] <= TokenTtl
      BY DEF AccessLapses
    <3>1. PICK u \in tokens : t = [u EXCEPT !.left = u.left - 1]
      BY <1>9, OlderRows DEF Tick
    <3>2. u \in Token
      BY <1>0 DEF TypeOK
    <3>3. t.provider = u.provider /\ t.left = u.left - 1 /\ u.left \in Int /\ u.provider \in Provider
      BY <3>1, <3>2, ConstantsAssumption DEF Token
    <3>4. u.left + lapsed[u.provider] <= TokenTtl
      BY DEF AccessLapses
    <3>5. /\ lapsed'[u.provider] <= lapsed[u.provider] + 1
          /\ lapsed'[u.provider] \in Int /\ lapsed[u.provider] \in Int /\ TokenTtl \in Int
      BY <1>0, <2>1, <3>3, ConstantsAssumption
    <3>6. QED
      BY <3>3, <3>4, <3>5
  <2>5. QED
    BY <2>3, <2>4
<1>10. CASE UNCHANGED vars
  BY <1>10 DEF vars, rows, Recent, AccessLapses
<1>11. QED
  BY <1>1, <1>2, <1>3, <1>4, <1>5, <1>6, <1>7, <1>8, <1>9, <1>10 DEF Next, Serve, Call

(* A wallet that left the Router keeps access for at most the life of one  *)
(* token: what is left of a token is never more than its life less the     *)
(* time since its wallet was last registered.                              *)
THEOREM AccessEnds == Spec => []AccessLapses
<1>1. Init => TypeInv /\ Recent /\ AccessLapses
  BY InitInv DEF IInv
<1>2. TypeInv /\ Recent /\ AccessLapses /\ [Next]_vars => (TypeInv /\ Recent /\ AccessLapses)'
  BY TypeStep, AccessStep
<1>3. QED
  BY <1>1, <1>2, PTL DEF Spec
---------------------------------------------------------------------------
(* A challenge is worth one token. *)

(* Nothing is spent by a step that leaves the rows alone and takes no      *)
(* request to the issue of a token.                                        *)
LEMMA SpentStays ==
    ASSUME Spent, UNCHANGED rows,
           \A i \in Instance : req'[i].step = "issue" =>
              req[i].step = "issue" /\ req'[i].nonce = req[i].nonce
    PROVE  Spent'
<1>1. /\ Issuing' \subseteq Issuing
      /\ \A i \in Issuing' : req'[i].nonce = req[i].nonce
  BY DEF Issuing
<1>2. Redeemed' \subseteq Redeemed
  BY <1>1 DEF Redeemed, rows
<1>3. QED
  BY <1>1, <1>2 DEF Spent, OneTokenPerChallenge, rows

LEMMA CreateSpends ==
    ASSUME TypeInv, Spent, NEW i \in Instance, CreateChallenge(i)
    PROVE  Spent'
<1> DEFINE n == NewNonce
           new == [nonce |-> n, provider |-> WalletOf[i],
                   left |-> ChallengeTtl - req[i].age, consumed |-> FALSE]
<1>1. (\A j \in Instance : j # i => req'[j] = req[j]) /\ req'[i] = Idle
  BY AnsweredType DEF CreateChallenge, TypeInv, TypeOK, Requests
<1>2. i \in Asking
  BY DEF CreateChallenge, TypeInv, Named, Asking
<1>3. n \notin Remembered
  BY <1>2, NewNonceIsFree DEF TypeInv
<1>4. challenges' = challenges \cup {new} /\ tokens' = tokens
  BY DEF CreateChallenge
<1>5. new.nonce = n
  OBVIOUS
<1> HIDE DEF n, new
<1>6. Redeemed' \subseteq Redeemed /\ Issuing' \subseteq Issuing
        /\ \A j \in Issuing' : req'[j].nonce = req[j].nonce
  BY <1>1, <1>4 DEF Redeemed, Issuing, Idle
<1>7. new.nonce \notin Redeemed /\ \A c \in challenges : c.nonce # new.nonce
  BY <1>3, <1>5 DEF Remembered, Redeemed, Issuing
<1>8. QED
  BY <1>4, <1>6, <1>7 DEF Spent, OneTokenPerChallenge

LEMMA ConsumeSpends ==
    ASSUME TypeInv, Spent, NEW i \in Instance, Consume(i)
    PROVE  Spent'
<1>0. req \in Requests
  BY DEF TypeInv, TypeOK, Requests
<1>1. ASSUME NEW c \in challenges, c.nonce = req[i].nonce, ~c.consumed,
             challenges' = (challenges \ {c}) \cup {[c EXCEPT !.consumed = TRUE]},
             GoesOn(i, "issue")
      PROVE  Spent'
  <2> DEFINE paid == [c EXCEPT !.consumed = TRUE]
  <2>1. /\ \A j \in Instance : j # i => req'[j] = req[j]
        /\ req'[i].step = "issue" /\ req'[i].nonce = req[i].nonce
    BY <1>0, <1>1, GoesOnType DEF Step
  <2>2. paid.nonce = c.nonce /\ paid.consumed
    BY DEF TypeInv, TypeOK, Challenge
  <2>3. challenges' = (challenges \ {c}) \cup {paid} /\ tokens' = tokens
    BY <1>1 DEF Consume
  <2> HIDE DEF paid
  <2>4. c.nonce \notin Redeemed
    BY <1>1 DEF Spent
  <2>5. Issuing' = Issuing \cup {i} /\ i \notin Issuing
    BY <2>1 DEF Issuing, Consume
  <2>6. \A j \in Issuing' : req'[j].nonce = req[j].nonce
    BY <2>1 DEF Issuing
  <2>7. Redeemed' = Redeemed \cup {c.nonce}
    BY <1>1, <2>3, <2>5, <2>6 DEF Redeemed
  <2>8. \A d, e \in challenges' : d.nonce = e.nonce => d = e
    BY <2>2, <2>3 DEF Spent
  <2>9. \A d \in challenges' : d.nonce \in Redeemed' => d.consumed
    <3> SUFFICES ASSUME NEW d \in challenges', d.nonce \in Redeemed', d # paid
                 PROVE  d.consumed
      BY <2>2
    <3>1. d \in challenges /\ d # c
      BY <2>3
    <3>2. d.nonce # c.nonce
      BY <3>1 DEF Spent
    <3>3. QED
      BY <2>7, <3>1, <3>2 DEF Spent
  <2>10. \A j \in Issuing' : \A t \in tokens' : t.nonce # req'[j].nonce
    BY <1>1, <2>3, <2>4, <2>5, <2>6 DEF Spent, Redeemed
  <2>11. \A j, k \in Issuing' : req'[j].nonce = req'[k].nonce => j = k
    BY <1>1, <2>4, <2>5, <2>6 DEF Spent, Redeemed
  <2>12. QED
    BY <2>3, <2>8, <2>9, <2>10, <2>11 DEF Spent, OneTokenPerChallenge
<1>2. CASE Refuse(i) /\ UNCHANGED challenges
  BY <1>0, <1>2, AnsweredType, SpentStays DEF Refuse, Consume, rows, Idle
<1>3. QED
  BY <1>1, <1>2 DEF Consume

LEMMA IssueSpends ==
    ASSUME TypeInv, Spent, NEW i \in Instance, Issue(i)
    PROVE  Spent'
<1>1. (\A j \in Instance : j # i => req'[j] = req[j]) /\ req'[i] = Idle
  BY AnsweredType DEF Issue, TypeInv, TypeOK, Requests
<1>2. /\ tokens' = tokens \cup {NewToken(i)} /\ challenges' = challenges
      /\ NewToken(i).nonce = req[i].nonce /\ i \in Issuing
  BY DEF Issue, NewToken, Issuing
<1>3. Issuing' = Issuing \ {i} /\ \A j \in Issuing' : req'[j].nonce = req[j].nonce
  BY <1>1 DEF Issuing, Idle
<1>4. Redeemed' \subseteq Redeemed
  BY <1>2, <1>3 DEF Redeemed
<1>5. \A j \in Issuing' : \A t \in tokens' : t.nonce # req'[j].nonce
  BY <1>2, <1>3 DEF Spent
<1>6. \A t, u \in tokens' : t.nonce = u.nonce => t = u
  BY <1>2 DEF Spent, OneTokenPerChallenge
<1>7. QED
  BY <1>2, <1>3, <1>4, <1>5, <1>6 DEF Spent, OneTokenPerChallenge

LEMMA TickSpends ==
    ASSUME TypeInv, Spent, Tick
    PROVE  Spent'
<1>1. \A c \in challenges' : \E d \in challenges :
        c = [d EXCEPT !.left = d.left - 1] /\ c.nonce = d.nonce /\ c.consumed = d.consumed
  <2> SUFFICES ASSUME NEW c \in challenges'
               PROVE  \E d \in challenges : /\ c = [d EXCEPT !.left = d.left - 1]
                                            /\ c.nonce = d.nonce /\ c.consumed = d.consumed
    OBVIOUS
  <2>1. PICK d \in challenges : c = [d EXCEPT !.left = d.left - 1]
    BY OlderRows DEF Tick
  <2>2. d \in Challenge
    BY DEF TypeInv, TypeOK
  <2>3. c.nonce = d.nonce /\ c.consumed = d.consumed
    BY <2>1, <2>2 DEF Challenge
  <2>4. QED
    BY <2>1, <2>3
<1>2. \A t \in tokens' : \E u \in tokens : t = [u EXCEPT !.left = u.left - 1] /\ t.nonce = u.nonce
  <2> SUFFICES ASSUME NEW t \in tokens'
               PROVE  \E u \in tokens : t = [u EXCEPT !.left = u.left - 1] /\ t.nonce = u.nonce
    OBVIOUS
  <2>1. PICK u \in tokens : t = [u EXCEPT !.left = u.left - 1]
    BY OlderRows DEF Tick
  <2>2. u \in Token
    BY DEF TypeInv, TypeOK
  <2>3. t.nonce = u.nonce
    BY <2>1, <2>2 DEF Token
  <2>4. QED
    BY <2>1, <2>3
<1>3. \A i \in Instance : req'[i].step = req[i].step /\ req'[i].nonce = req[i].nonce
  <2>1. \A i \in Instance : req'[i] = IF req[i] = Idle THEN Idle
                                      ELSE [req[i] EXCEPT !.age = req[i].age + 1]
    BY DEF Tick
  <2>2. \A i \in Instance : req[i] \in [step : Step \cup {"idle"}, age : 0 .. MaxDelay,
                                         nonce : Nonce \cup {None}]
    BY DEF TypeInv, TypeOK
  <2>3. QED
    BY <2>1, <2>2
<1>4. Issuing' = Issuing
  BY <1>3 DEF Issuing
<1>5. Redeemed' \subseteq Redeemed
  BY <1>2, <1>3, <1>4 DEF Redeemed, Issuing
<1>6. \A c, d \in challenges' : c.nonce = d.nonce => c = d
  BY <1>1 DEF Spent
<1>7. \A c \in challenges' : c.nonce \in Redeemed' => c.consumed
  BY <1>1, <1>5 DEF Spent
<1>8. \A i \in Issuing' : \A t \in tokens' : t.nonce # req'[i].nonce
  BY <1>2, <1>3, <1>4 DEF Spent, Issuing
<1>9. \A i, j \in Issuing' : req'[i].nonce = req'[j].nonce => i = j
  BY <1>3, <1>4 DEF Spent, Issuing
<1>10. OneTokenPerChallenge'
  BY <1>2 DEF Spent, OneTokenPerChallenge
<1>11. QED
  BY <1>6, <1>7, <1>8, <1>9, <1>10 DEF Spent

LEMMA SpentStep == TypeInv /\ Spent /\ [Next]_vars => Spent'
<1> SUFFICES ASSUME TypeInv, Spent, [Next]_vars PROVE Spent'
  OBVIOUS
<1>0. req \in Requests /\ TypeOK
  BY DEF TypeInv, TypeOK, Requests
<1>1. ASSUME NEW i \in Instance, CheckRegistration(i) PROVE Spent'
  <2>1. PICK step \in {"create", "consume", "idle"} :
          /\ \A j \in Instance : j # i => req'[j] = req[j]
          /\ req'[i].step = step
    <3>1. CASE Answered(i)
      BY <1>0, <3>1, AnsweredType DEF Idle
    <3>2. CASE GoesOn(i, IF req[i].nonce = None THEN "create" ELSE "consume")
      <4>1. (IF req[i].nonce = None THEN "create" ELSE "consume") \in Step
        BY DEF Step
      <4>2. /\ \A j \in Instance : j # i => req'[j] = req[j]
            /\ req'[i].step = (IF req[i].nonce = None THEN "create" ELSE "consume")
        BY <1>0, <3>2, <4>1, GoesOnType
      <4>3. QED
        BY <4>2
    <3>3. QED
      BY <1>1, <3>1, <3>2 DEF CheckRegistration
  <2>2. QED
    BY <1>1, <2>1, SpentStays DEF CheckRegistration
<1>2. ASSUME NEW i \in Instance, AskChallenge(i) \/ SendSignature(i) PROVE Spent'
  <2>1. /\ \A j \in Instance : j # i => req'[j] = req[j]
        /\ req' = req \/ req'[i].step \in {"registry", "find"}
    <3>1. CASE AskChallenge(i)
      <4>1. /\ \A j \in Instance : j # i => req'[j] = req[j]
            /\ \/ req' = req
               \/ req'[i] = [step |-> "registry", age |-> 0, nonce |-> None]
        BY <1>0, <3>1, ArriveType DEF AskChallenge, Step
      <4>2. QED
        BY <4>1
    <3>2. CASE SendSignature(i)
      <4>1. PICK j \in Instance : Arrive(i, "verify", "find", signed[j])
        BY <3>2 DEF SendSignature
      <4>2. signed[j] \in Nonce \cup {None}
        BY <1>0 DEF TypeOK
      <4>3. /\ \A k \in Instance : k # i => req'[k] = req[k]
            /\ \/ req' = req
               \/ req'[i] = [step |-> "find", age |-> 0, nonce |-> signed[j]]
        BY <1>0, <4>1, <4>2, ArriveType DEF Step
      <4>4. QED
        BY <4>3
    <3>3. QED
      BY <1>2, <3>1, <3>2
  <2>2. UNCHANGED rows
    BY <1>2 DEF AskChallenge, SendSignature
  <2>3. QED
    BY <2>1, <2>2, SpentStays
<1>3. ASSUME NEW i \in Instance, FindChallenge(i) PROVE Spent'
  <2>1. CASE Refuse(i)
    BY <1>0, <1>3, <2>1, AnsweredType, SpentStays DEF FindChallenge, Refuse, Idle
  <2>2. CASE GoesOn(i, "registry")
    BY <1>0, <1>3, <2>2, GoesOnType, SpentStays DEF FindChallenge, Step
  <2>3. QED
    BY <1>3, <2>1, <2>2 DEF FindChallenge
<1>4. ASSUME NEW i \in Instance, CreateChallenge(i) \/ Consume(i) \/ Issue(i) PROVE Spent'
  BY <1>4, CreateSpends, ConsumeSpends, IssueSpends
<1>5. ASSUME NEW i \in Instance, Lookup(i) PROVE Spent'
  BY <1>0, <1>5, AnsweredType, SpentStays DEF Lookup, Idle
<1>6. ASSUME NEW i \in Instance, Poll(i) PROVE Spent'
  <2>1. \A j \in Instance : req'[j] = req[j] \/ req'[j].step = "lookup"
    BY <1>0, <1>6 DEF Poll, Requests
  <2>2. QED
    BY <1>6, <2>1, SpentStays DEF Poll
<1>7. ASSUME NEW p \in Provider, Register(p) \/ Deregister(p) PROVE Spent'
  BY <1>7, SpentStays DEF Register, Deregister
<1>8. CASE Crash
  BY <1>8, SpentStays DEF Crash, Idle
<1>9. CASE Tick
  BY <1>9, TickSpends
<1>10. CASE UNCHANGED vars
  <2>1. req' = req /\ UNCHANGED rows
    BY <1>10 DEF vars, rows
  <2>2. QED
    BY <2>1, SpentStays
<1>11. QED
  BY <1>1, <1>2, <1>3, <1>4, <1>5, <1>6, <1>7, <1>8, <1>9, <1>10 DEF Next, Serve, Call

(* However many verifies of one challenge run at once, one token comes of  *)
(* it: consumed once by updateMany, and its name is never given again.     *)
THEOREM OneTokenEach == Spec => []OneTokenPerChallenge
<1>1. Init => TypeInv /\ Spent
  BY InitInv DEF IInv
<1>2. TypeInv /\ Spent /\ [Next]_vars => (TypeInv /\ Spent)'
  BY TypeStep, SpentStep
<1>3. Spent => OneTokenPerChallenge
  BY DEF Spent
<1>4. QED
  BY <1>1, <1>2, <1>3, PTL DEF Spec
===========================================================================
