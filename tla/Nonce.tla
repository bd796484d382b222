-------------------------------- MODULE Nonce --------------------------------
(***************************************************************************)
(* NonceService and incrementNonce.lua: concurrent publishers, in any      *)
(* number of processes, draw transaction nonces for one account.  A caller *)
(* asks the node for the account's next index, reserves the first number   *)
(* from there on that has no key in Redis, and submits under it.  The key  *)
(* expires two seconds later, whether or not the number was used.          *)
(*                                                                         *)
(* A key is named after the index the caller was told and the offset from  *)
(* it: the index is a codec object, to which + appends the offset's digits *)
(* as a string.  So a number has as many keys as there are indices to      *)
(* reach it from, and callers that were told different indices do not see  *)
(* each other's reservations.                                              *)
(***************************************************************************)
EXTENDS Naturals, Sequences, FiniteSets, FiniteSetsExt

CONSTANTS
    Calls,        \* slots for calls of getNextNonce and the submission after it
    KeysToCheck,  \* NUMBER_OF_NONCE_KEYS_TO_CHECK
    MaxNonce,     \* bound: numbers up to here
    Faults,       \* which mishaps may happen
    MaxFaults     \* bound: how many of them

(* "boot": a process starts and draws a number to log it; "lost": the caller dies or its  *)
(* submission fails; "drop": the node loses a transaction; "slow": a call takes more than *)
(* a second, half a key's life.                                                           *)
ASSUME NonceAssumption ==
    /\ KeysToCheck \in Nat \ {0}
    /\ MaxNonce \in Nat /\ MaxFaults \in Nat
    /\ Faults \subseteq {"boot", "lost", "drop", "slow"}

Nonces == 0 .. MaxNonce
Offsets == 0 .. KeysToCheck - 1

(* The bound keeps every number that an index may lead to in Nonces. *)
Indices == {n \in Nonces : n + KeysToCheck <= MaxNonce}

(* An index as text, and what + makes of it and an offset: 5 and 0 are "50". *)
Digits[n \in Nat] == IF n < 10 THEN <<n>> ELSE Append(Digits[n \div 10], n % 10)
KeyName(index, i) == Digits[index] \o Digits[i]

Names == {KeyName(index, i) : index \in Indices, i \in Offsets}

VARIABLES
    accepted,  \* numbers the node has a transaction for, in a block or in its pool
    keys,      \* names of the live keys in Redis
    older,     \* calls that were running when a key was set
    late,      \* calls that began while one of those was still running
    call,      \* what each call is doing
    faults,    \* mishaps so far
    meant,     \* history: the number each live key was set for
    origin,    \* history: the index under which an accepted number was drawn
    skipped,   \* history: numbers that were reserved and not used, were passed over
               \*   for another number's key, or whose transaction is lost
    unsafe     \* history: has a key been outlasted, or have the keys run out?

history == <<meant, origin, skipped, unsafe>>
vars == <<accepted, keys, older, late, call, faults, history>>

-----------------------------------------------------------------------------
CallRec == [pc : {"idle", "reserve", "submit"}, boot : BOOLEAN, from : Nonces, nonce : Nat]

Idle == [pc |-> "idle", boot |-> FALSE, from |-> 0, nonce |-> 0]
Running == {c \in Calls : call[c] # Idle}

Mishap(kind) == /\ kind \in Faults
                /\ faults < MaxFaults
                /\ faults' = faults + 1

Init ==
    /\ accepted = {} /\ keys = {}
    /\ older = [k \in Names |-> {}] /\ late = older
    /\ call = [c \in Calls |-> Idle]
    /\ faults = 0
    /\ meant = [k \in Names |-> 0] /\ origin = [n \in Nonces |-> 0]
    /\ skipped = {} /\ unsafe = FALSE

(* system_accountNextIndex: a transaction behind a gap does not count. *)
NextIndex == Min(Nat \cap ((0 .. MaxNonce + 1) \ accepted))

-----------------------------------------------------------------------------
(* getNextNonce, first await. *)
Ask(c) ==
    /\ call[c] = Idle
    /\ NextIndex \in Indices
    /\ \E boot \in BOOLEAN :
        /\ IF boot THEN Mishap("boot") ELSE UNCHANGED faults
        /\ call' = [call EXCEPT ![c] = [Idle EXCEPT !.pc = "reserve", !.boot = boot,
                                                    !.from = NextIndex]]
    /\ late' = [k \in Names |-> late[k] \cup (IF older[k] = {} THEN {} ELSE {c})]
    /\ UNCHANGED <<accepted, keys, older, history>>

(* getNextPossibleKeys. *)
Candidate(c, i) == KeyName(call[c].from, i)
Free(c) == {i \in Offsets : Candidate(c, i) \notin keys}

(* A caller passes over a number when its key is live, even if that is the key of another *)
(* number: from 1 on the key of 21 is "120", and so is the key of 12 from 12 on.           *)
PassedOver(c, i) == {m \in Nonces : \E j \in 0 .. (i - 1) :
                       m = call[c].from + j /\ meant[Candidate(c, j)] # m}

Drawn(c, n) == call' = [call EXCEPT ![c].pc = "submit", ![c].nonce = n]

(* The key of the caller's i-th number is set; `outlived` are the calls it has to outlive. *)
SetKey(c, i, outlived) ==
    LET k == Candidate(c, i)
        n == call[c].from + i IN
    /\ keys' = keys \cup {k}
    /\ older' = [older EXCEPT ![k] = outlived]
    /\ meant' = [meant EXCEPT ![k] = n]
    /\ Drawn(c, n)
    /\ UNCHANGED <<origin, unsafe>>

(* Mutant: the key is set without an expiry, so to speak: nothing is older than it. *)
ReserveForEver(c) ==
    /\ Free(c) # {}
    /\ SetKey(c, Min(Free(c)), Calls)
    /\ UNCHANGED skipped

(* Mutant: EXISTS and SETEX are two commands of the service; another may come between. *)
ReserveUnchecked(c) ==
    /\ SetKey(c, 0, Running)
    /\ UNCHANGED skipped

(* incrementNonce.lua: the first number without a key is reserved, atomically. *)
ReserveFirst(c) ==
    /\ Free(c) # {}
    /\ SetKey(c, Min(Free(c)), Running)
    /\ skipped' = skipped \cup PassedOver(c, Min(Free(c)))

(* It replies -1: the number after the last one is taken without a reservation. *)
KeysRunOut(c) ==
    /\ Free(c) = {}
    /\ Drawn(c, call[c].from + KeysToCheck)
    /\ unsafe' = TRUE
    /\ UNCHANGED <<keys, older, meant, origin, skipped>>

Reserve(c) ==
    /\ call[c].pc = "reserve"
    /\ ReserveFirst(c) \/ KeysRunOut(c)
    /\ UNCHANGED <<accepted, late, faults>>

(* Mutant: the call stays where it is noted. *)
EndedQuietly(c) == /\ call' = [call EXCEPT ![c] = Idle]
                   /\ UNCHANGED <<older, late>>

(* A call that ends has no key to wait for. *)
Ended(c) == /\ call' = [call EXCEPT ![c] = Idle]
            /\ older' = [k \in Names |-> older[k] \ {c}]
            /\ late' = [k \in Names |-> late[k] \ {c}]

(* signAndSend: under a number it already has the node does not take a transaction. *)
Submit(c) ==
    LET n == call[c].nonce IN
    /\ call[c].pc = "submit" /\ ~call[c].boot
    /\ accepted' = accepted \cup {n}
    /\ origin' = [origin EXCEPT ![n] = IF n \in accepted THEN @ ELSE call[c].from]
    /\ Ended(c)
    /\ UNCHANGED <<keys, faults, meant, skipped, unsafe>>

(* onApplicationBootstrap logs the number it drew and lets it go. *)
Log(c) ==
    /\ call[c].pc = "submit" /\ call[c].boot
    /\ skipped' = skipped \cup {call[c].nonce}
    /\ Ended(c)
    /\ UNCHANGED <<accepted, keys, faults, meant, origin, unsafe>>

Lose(c) ==
    /\ call[c].pc # "idle"
    /\ Mishap("lost")
    /\ skipped' = IF call[c].pc = "submit" THEN skipped \cup {call[c].nonce} ELSE skipped
    /\ Ended(c)
    /\ UNCHANGED <<accepted, keys, meant, origin, unsafe>>

(* Two seconds.  A call that takes less than one ends before a key expires that was set    *)
(* while it ran, or while a call ran that it overlaps with.                               *)
Outlasted(k) == older[k] \cup late[k] # {}
Expire(k) ==
    /\ k \in keys
    /\ \/ ~Outlasted(k) /\ UNCHANGED <<faults, unsafe>>
       \/ Outlasted(k) /\ Mishap("slow") /\ unsafe' = TRUE
    /\ keys' = keys \ {k}
    /\ older' = [older EXCEPT ![k] = {}]
    /\ late' = [late EXCEPT ![k] = {}]
    /\ meant' = [meant EXCEPT ![k] = 0]
    /\ UNCHANGED <<accepted, call, origin, skipped>>

Drop(n) ==
    /\ n \in accepted
    /\ Mishap("drop")
    /\ accepted' = accepted \ {n}
    /\ origin' = [origin EXCEPT ![n] = 0]
    /\ skipped' = skipped \cup {n}
    /\ UNCHANGED <<keys, older, late, call, meant, unsafe>>

-----------------------------------------------------------------------------
Next == \/ \E c \in Calls : Ask(c) \/ Reserve(c) \/ Submit(c) \/ Log(c) \/ Lose(c)
        \/ \E k \in Names : Expire(k)
        \/ \E n \in Nonces : Drop(n)

Spec == Init /\ [][Next]_vars

(* Publish jobs keep coming, requests are answered, and keys expire. *)
Fairness == /\ WF_vars(\E c \in Calls : Ask(c))
            /\ \A c \in Calls : WF_vars(Reserve(c) \/ Submit(c) \/ Log(c))
            /\ \A k \in Names : WF_vars(~Outlasted(k) /\ Expire(k))

FairSpec == Spec /\ Fairness

-----------------------------------------------------------------------------
(* Properties. *)

(* Every variable has its type; a key's older calls are running ones. *)
TypeOK ==
    /\ accepted \subseteq Nonces /\ keys \subseteq Names
    /\ {older, late} \subseteq [Names -> SUBSET Running]
    /\ call \in [Calls -> CallRec]
    /\ faults \in 0 .. MaxFaults
    /\ meant \in [Names -> Nonces] /\ origin \in [Nonces -> Nonces]
    /\ skipped \subseteq Nonces
    /\ unsafe \in BOOLEAN

(* A publisher has drawn a number the node already has a transaction for only if a lower  *)
(* number was skipped (then the node's index stands still before the gap while the keys   *)
(* above it expire), if a call outlasted a key or found all of them taken, or if the      *)
(* accepted one was drawn from another index, where the number's key has another name.    *)
ClashNeedsGap ==
    \A c \in Running :
        call[c].pc = "submit" /\ call[c].nonce \in accepted
            => \/ unsafe
               \/ \E m \in skipped : m <= call[c].nonce
               \/ origin[call[c].nonce] # call[c].from

(* utils/redis.ts, "mostly unique nonces": as long as the keys hold, no two running       *)
(* publishers that were told the same index have drawn the same number.  Publishers that  *)
(* were told different indices may: what one has reserved is free under the other's keys. *)
DrawnOnce ==
    \A c, d \in Running :
        (/\ ~unsafe /\ c # d
         /\ call[c].pc = "submit" /\ call[d].pc = "submit"
         /\ call[c].from = call[d].from)
            => call[c].nonce # call[d].nonce

(* utils/redis.ts: a skipped number is submitted after its key has expired, so that what  *)
(* waits behind it gets into a block.                                                     *)
Behind(n) == n \notin accepted /\ \E m \in accepted : n < m
GapsAreFilled == \A n \in Indices : Behind(n) ~> n \in accepted
=============================================================================
