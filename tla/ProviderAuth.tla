--------------------------- MODULE ProviderAuth ---------------------------
(***************************************************************************)
(* How a go-ooo instance gets and keeps access to the verified-pairs       *)
(* export: lib/providerAuth.ts, lib/exportAuth.ts, lib/rateLimit.ts and    *)
(* the handlers under pages/api/ooo/v1.  A provider is a wallet on a       *)
(* chain; several instances may share one.  Times are relative: a row      *)
(* keeps the seconds it has left, a request the seconds since its clock    *)
(* was read, which is once, on arrival.                                    *)
(***************************************************************************)
EXTENDS Integers, FiniteSets

CONSTANTS
    Instance,      \* go-ooo instances, clients of the API
    Provider,      \* wallets on a chain that has an OoO Router
    Steady,        \* the instance the liveness is about
    WalletOf,      \* Instance -> Provider
    Address,       \* IP addresses
    AddressOf,     \* Instance -> Address
    Nonce,         \* names of challenges; a bound on those remembered at once
    ChallengeTtl,  \* CHALLENGE_TTL_SEC
    TokenTtl,      \* tokenTtlSec()
    RateLimit,     \* RATE_LIMIT of the handlers
    Window,        \* RATE_WINDOW_MS
    MaxDelay,      \* bound: how long a request may take
    MaxFaults      \* bound: crashes, lost responses and failing eth_calls

None == "none"

ASSUME ConstantsAssumption ==
    /\ IsFiniteSet(Instance) /\ IsFiniteSet(Nonce) /\ None \notin Nonce
    /\ Steady \in Instance
    /\ WalletOf \in [Instance -> Provider]
    /\ AddressOf \in [Instance -> Address]
    /\ {ChallengeTtl, TokenTtl, RateLimit, Window} \subseteq Nat \ {0}
    /\ {MaxDelay, MaxFaults} \subseteq Nat

VARIABLES
    registered,  \* providers with a minFee above 0 on their Router
    lapsed,      \* seconds since a provider was last registered, up to TokenTtl
    challenges,  \* rows of ProviderChallenge
    tokens,      \* rows of ProviderToken
    windows,     \* the rate limiter's map, in memory
    req,         \* the request an instance has in flight
    signed,      \* the challenge an instance holds, signed
    bearer,      \* the token an instance holds
    faults

vars == <<registered, lapsed, challenges, tokens, windows, req, signed, bearer, faults>>
rows == <<challenges, tokens>>
client == <<signed, bearer>>

Route == {"challenge", "verify", "export"}
Step == {"registry", "create", "find", "consume", "issue", "lookup"}
Idle == [step |-> "idle", age |-> 0, nonce |-> None]
Key == Route \X (Address \cup Instance \cup Provider)
Fresh == [count |-> 0, left |-> 0]

Challenge == [nonce : Nonce, provider : Provider,
              left : (-MaxDelay) .. ChallengeTtl, consumed : BOOLEAN]
Token == [nonce : Nonce, provider : Provider, by : Instance,
          left : (-MaxDelay) .. TokenTtl, revoked : BOOLEAN]

TypeOK ==
    /\ registered \subseteq Provider
    /\ lapsed \in [Provider -> 0 .. TokenTtl]
    /\ challenges \subseteq Challenge
    /\ tokens \subseteq Token
    /\ windows \in [Key -> [count : 0 .. RateLimit, left : 0 .. Window]]
    /\ req \in [Instance -> [step : Step \cup {"idle"}, age : 0 .. MaxDelay,
                             nonce : Nonce \cup {None}]]
    /\ signed \in [Instance -> Nonce \cup {None}]
    /\ bearer \in [Instance -> Nonce \cup {None}]
    /\ faults \in 0 .. MaxFaults

Init ==
    /\ registered \in SUBSET Provider
    /\ lapsed = [p \in Provider |-> IF p \in registered THEN 0 ELSE TokenTtl]
    /\ challenges = {} /\ tokens = {}
    /\ windows = [k \in Key |-> Fresh]
    /\ req = [i \in Instance |-> Idle]
    /\ signed = [i \in Instance |-> None]
    /\ bearer = [i \in Instance |-> None]
    /\ faults = 0

---------------------------------------------------------------------------
(* The rate limiter: a fixed window per key, counted on arrival. *)

Over(w, k) == w[k].left > 0 /\ w[k].count >= RateLimit

(* A fault: a call that is refused keeps the key out for the next window, too. *)
CountedRenewing(w, k) ==
    IF Over(w, k) THEN [w EXCEPT ![k].left = Window + 1]
    ELSE [w EXCEPT ![k] = IF w[k].left > 0 THEN [w[k] EXCEPT !.count = w[k].count + 1]
                                           ELSE [count |-> 1, left |-> Window]]

Counted(w, k) ==
    IF Over(w, k) THEN w
    ELSE [w EXCEPT ![k] = IF w[k].left > 0 THEN [w[k] EXCEPT !.count = w[k].count + 1]
                                           ELSE [count |-> 1, left |-> Window]]

\* The auth routes ask for the address and for the wallet; the second key is
\* counted only when the first allows the call.
Limits(route, i) ==
    LET ip == <<route, AddressOf[i]>>
        wallet == <<route, WalletOf[i]>>
    IN [allowed |-> ~Over(windows, ip) /\ ~Over(windows, wallet),
        after   |-> LET asked == Counted(windows, ip)
                    IN  IF Over(windows, ip) THEN asked ELSE Counted(asked, wallet)]

Arrive(i, route, step, nonce) ==
    /\ req[i] = Idle
    /\ windows' = Limits(route, i).after
    /\ req' = IF Limits(route, i).allowed
              THEN [req EXCEPT ![i] = [step |-> step, age |-> 0, nonce |-> nonce]]
              ELSE req

Answered(i) == req' = [req EXCEPT ![i] = Idle]
GoesOn(i, step) == req' = [req EXCEPT ![i] = [req[i] EXCEPT !.step = step]]

---------------------------------------------------------------------------
(* POST /auth/challenge *)

Remembered == {c.nonce : c \in challenges} \cup {t.nonce : t \in tokens}
                \cup {signed[i] : i \in Instance} \cup {bearer[i] : i \in Instance}
                \cup {req[i].nonce : i \in Instance}

Asking == {i \in Instance : req[i].step \in {"registry", "create"} /\ req[i].nonce = None}

\* Bound: an instance asks while a name is left for the challenge.
AskChallenge(i) ==
    /\ bearer[i] = None /\ signed[i] = None
    /\ Cardinality(Nonce \ Remembered) > Cardinality(Asking)
    /\ Arrive(i, "challenge", "registry", None)
    /\ UNCHANGED <<registered, lapsed, rows, client, faults>>

\* isRegisteredProvider: one eth_call, refused when it fails.  A verify holds
\* the nonce it found, a challenge request holds none yet.
CheckRegistration(i) ==
    /\ req[i].step = "registry"
    /\ \/ WalletOf[i] \in registered
          /\ GoesOn(i, IF req[i].nonce = None THEN "create" ELSE "consume")
          /\ UNCHANGED <<signed, faults>>
       \/ /\ WalletOf[i] \notin registered \/ faults < MaxFaults
          /\ faults' = IF WalletOf[i] \notin registered THEN faults ELSE faults + 1
          /\ Answered(i)
          /\ signed' = [signed EXCEPT ![i] = None]
    /\ UNCHANGED <<registered, lapsed, rows, windows, bearer>>

\* Random, so never one that is still about; which one does not matter.
NewNonce == CHOOSE n \in Nonce : n \notin Remembered

\* The response may be lost on its way.
Delivered(held, i, n) ==
    \/ held' = [held EXCEPT ![i] = n] /\ UNCHANGED faults
    \/ held' = [held EXCEPT ![i] = None] /\ faults < MaxFaults /\ faults' = faults + 1

CreateChallenge(i) ==
    /\ req[i].step = "create"
    /\ LET n == NewNonce IN
        /\ challenges' = challenges \cup
             {[nonce |-> n, provider |-> WalletOf[i],
               left |-> ChallengeTtl - req[i].age, consumed |-> FALSE]}
        /\ Delivered(signed, i, n)
    /\ Answered(i)
    /\ UNCHANGED <<registered, lapsed, tokens, windows, bearer>>

---------------------------------------------------------------------------
(* POST /auth/verify *)

\* An instance signs what it asked for; a retry may take another connection.
SendSignature(i) ==
    /\ bearer[i] = None
    /\ \E j \in Instance :
        /\ WalletOf[j] = WalletOf[i] /\ signed[j] # None
        /\ Arrive(i, "verify", "find", signed[j])
    /\ UNCHANGED <<registered, lapsed, rows, client, faults>>

Expired(row, i) == row.left + req[i].age <= 0

Answerable(i) ==
    {c \in challenges : c.provider = WalletOf[i] /\ ~c.consumed /\ ~Expired(c, i)}

\* The newest challenge, whichever the signature is for; createdAt has seconds.
Latest(i) == {c \in Answerable(i) : \A d \in Answerable(i) : d.left <= c.left}

\* The message is bound to its nonce, so a signature recovers for one challenge.
Signed(c, i) == c.nonce = req[i].nonce

Refuse(i) ==
    /\ Answered(i)
    /\ signed' = [signed EXCEPT ![i] = None]

FindChallenge(i) ==
    /\ req[i].step = "find"
    /\ \/ Latest(i) = {} /\ Refuse(i)
       \/ \E c \in Latest(i) :
            \/ Signed(c, i) /\ GoesOn(i, "registry") /\ UNCHANGED signed
            \/ ~Signed(c, i) /\ Refuse(i)
    /\ UNCHANGED <<registered, lapsed, rows, windows, bearer, faults>>

(* A fault: the row is updated by its id alone. *)
ConsumeById(i) ==
    /\ req[i].step = "consume"
    /\ \E c \in challenges :
            /\ c.nonce = req[i].nonce
            /\ challenges' = (challenges \ {c}) \cup {[c EXCEPT !.consumed = TRUE]}
    /\ GoesOn(i, "issue")
    /\ UNCHANGED <<registered, lapsed, tokens, windows, client, faults>>

\* updateMany where consumedAt is 0: one caller wins.
Consume(i) ==
    /\ req[i].step = "consume"
    /\ \/ \E c \in challenges :
            /\ c.nonce = req[i].nonce /\ ~c.consumed
            /\ challenges' = (challenges \ {c}) \cup {[c EXCEPT !.consumed = TRUE]}
            /\ GoesOn(i, "issue") /\ UNCHANGED signed
       \/ /\ \A c \in challenges : c.nonce = req[i].nonce => c.consumed
          /\ Refuse(i) /\ UNCHANGED challenges
    /\ UNCHANGED <<registered, lapsed, tokens, windows, bearer, faults>>

(* A fault: the token counts from a clock read when it is written. *)
NewTokenFromNow(i) == [nonce |-> req[i].nonce, provider |-> WalletOf[i], by |-> i,
                       left |-> TokenTtl, revoked |-> FALSE]

\* The token counts from the clock the request read when it arrived.
NewToken(i) == [nonce |-> req[i].nonce, provider |-> WalletOf[i], by |-> i,
                left |-> TokenTtl - req[i].age, revoked |-> FALSE]

Issue(i) ==
    /\ req[i].step = "issue"
    /\ tokens' = tokens \cup {NewToken(i)}
    /\ Delivered(bearer, i, req[i].nonce)
    /\ signed' = [signed EXCEPT ![i] = None]
    /\ Answered(i)
    /\ UNCHANGED <<registered, lapsed, challenges, windows>>

---------------------------------------------------------------------------
(* GET /export: authorised first, rate limited per token after. *)

Poll(i) ==
    /\ bearer[i] # None
    /\ req[i] = Idle
    /\ req' = [req EXCEPT ![i] = [step |-> "lookup", age |-> 0, nonce |-> bearer[i]]]
    /\ UNCHANGED <<registered, lapsed, rows, windows, client, faults>>

LiveToken(i) ==
    \E t \in tokens : t.nonce = req[i].nonce /\ ~t.revoked /\ ~Expired(t, i)

\* An instance that is refused authenticates again.
Lookup(i) ==
    /\ req[i].step = "lookup"
    /\ \/ LiveToken(i) /\ windows' = Counted(windows, <<"export", i>>) /\ UNCHANGED bearer
       \/ ~LiveToken(i) /\ bearer' = [bearer EXCEPT ![i] = None] /\ UNCHANGED windows
    /\ Answered(i)
    /\ UNCHANGED <<registered, lapsed, rows, signed, faults>>

---------------------------------------------------------------------------
(* The chain, the operator and time. *)

Register(p) ==
    /\ p \notin registered
    /\ registered' = registered \cup {p}
    /\ lapsed' = [lapsed EXCEPT ![p] = 0]
    /\ UNCHANGED <<rows, windows, req, client, faults>>

Deregister(p) ==
    /\ p \in registered
    /\ registered' = registered \ {p}
    /\ UNCHANGED <<lapsed, rows, windows, req, client, faults>>

\* The web process restarts: requests and rate windows are gone.
Crash ==
    /\ faults < MaxFaults /\ faults' = faults + 1
    /\ req' = [i \in Instance |-> Idle]
    /\ windows' = [k \in Key |-> Fresh]
    /\ UNCHANGED <<registered, lapsed, rows, client>>

\* A second passes.  A row no request can find alive again is forgotten.
Older(S) == {[r EXCEPT !.left = r.left - 1] : r \in {x \in S : x.left > -MaxDelay}}

Tick ==
    /\ \A i \in Instance : req[i] # Idle => req[i].age < MaxDelay
    /\ challenges' = Older(challenges)
    /\ tokens' = Older(tokens)
    /\ req' = [i \in Instance |-> IF req[i] = Idle THEN Idle
                                  ELSE [req[i] EXCEPT !.age = req[i].age + 1]]
    /\ windows' = [k \in Key |-> IF windows[k].left <= 1 THEN Fresh
                                 ELSE [windows[k] EXCEPT !.left = windows[k].left - 1]]
    /\ lapsed' = [p \in Provider |->
                    IF p \in registered \/ lapsed[p] = TokenTtl THEN lapsed[p]
                    ELSE lapsed[p] + 1]
    /\ UNCHANGED <<registered, client, faults>>

Serve(i) == \/ CheckRegistration(i) \/ CreateChallenge(i) \/ FindChallenge(i)
            \/ Consume(i) \/ Issue(i) \/ Lookup(i)
Call(i) == AskChallenge(i) \/ SendSignature(i) \/ Poll(i)

Next ==
    \/ \E i \in Instance : Serve(i) \/ Call(i)
    \/ \E p \in Provider : Register(p) \/ Deregister(p)
    \/ Crash \/ Tick

Spec == Init /\ [][Next]_vars

\* A challenge asked for while the limiter allows it.
AsksInTurn(i) == AskChallenge(i) /\ req'[i] # Idle

\* An answer sent while its challenge outlives the slowest request.
AnswersInTime(i) ==
    /\ \E c \in challenges : c.nonce = signed[i] /\ c.left > MaxDelay
    /\ SendSignature(i)
    /\ req'[i] # Idle /\ req'[i].nonce = signed[i]

\* A request is answered and time passes; the steady instance goes on, and is
\* not always the one that comes after others have used a window up, nor always
\* too late with its answer; the others may call and stop as they like.
Fairness ==
    /\ \A i \in Instance : WF_vars(Serve(i))
    /\ WF_vars(Call(Steady)) /\ SF_vars(AsksInTurn(Steady)) /\ SF_vars(AnswersInTime(Steady))
    /\ WF_vars(Tick)

FairSpec == Spec /\ Fairness

---------------------------------------------------------------------------
\* A challenge is worth one token, however many verifies of it run at once
\* (the updateMany guard of verifyAndIssueToken).
OneTokenPerChallenge ==
    \A t, u \in tokens : t.nonce = u.nonce => t = u

\* A wallet that left the Router keeps access for at most the life of one
\* token, though the registration is read before the token is written.
AccessLapses ==
    \A t \in tokens : t.left + lapsed[t.provider] <= TokenTtl

\* An instance whose wallet stays registered, and whose challenges no other
\* connection of the wallet supersedes or answers, holds a live token again and
\* again, however many calls of others behind its address the limiter counts or
\* refuses: a window that is used up ends.
Undisturbed ==
    /\ WalletOf[Steady] \in registered
    /\ \A j \in Instance \ {Steady} :
        WalletOf[j] = WalletOf[Steady] =>
            req[j].step \in {"idle", "lookup"} /\ signed[j] = None
Served ==
    \E t \in tokens : t.nonce = bearer[Steady] /\ t.left > 0
ProvidersGetIn == <>[]Undisturbed => []<>Served
===========================================================================
