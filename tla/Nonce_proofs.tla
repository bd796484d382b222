---------------------------- MODULE Nonce_proofs ----------------------------
(* Theorems about Nonce, for any calls, number of keys to check, numbers and mishaps.  What a *)
(* key's name is made of does not matter to them: two names may even be the same.             *)
EXTENDS Nonce, WellFoundedInduction, TLAPS

USE NonceAssumption DEF Nonces, Offsets, Indices, history

-----------------------------------------------------------------------------
(* The inductive invariant. *)

Drew(c) == call[c].pc = "submit"

(* The key under which a number was reserved by who was told the index. *)
KeyOf(index, n) == KeyName(index, n - index)

CallShape(c) ==
    /\ call[c].pc = "idle" => call[c] = Idle
    /\ call[c].pc # "idle" => call[c].from \in Indices
    /\ Drew(c) => call[c].from <= call[c].nonce /\ call[c].nonce <= call[c].from + KeysToCheck

(* What the node had a transaction for when the call asked, it has still, or lost since. *)
FromShape(c) == call[c].pc # "idle" =>
    \A m \in Nonces : m < call[c].from => m \in accepted \cup skipped

(* A key holds a number for who was told the index. *)
Holds(index, n) == /\ index \in Indices /\ n - index \in Offsets
                   /\ KeyOf(index, n) \in keys /\ meant[KeyOf(index, n)] = n

(* Who has drawn a number keeps its key from expiring. *)
DrawnShape(c) == Drew(c) /\ ~unsafe =>
    /\ Holds(call[c].from, call[c].nonce)
    /\ c \in older[KeyOf(call[c].from, call[c].nonce)]
    /\ \A d \in Calls : Drew(d) /\ call[d].from = call[c].from /\ call[d].nonce = call[c].nonce
                          => d = c

(* Up to here no number was skipped. *)
Gapless(n) == ~unsafe /\ \A m \in skipped : n < m

(* Each number up to a key's is accepted or drawn by a call the key waits for, as it does   *)
(* for every call that may try the number.                                                  *)
Below(k) == \A m \in 0 .. meant[k] : \/ m \in accepted
                                     \/ \E c \in older[k] : Drew(c) /\ call[c].nonce = m
Awaits(k) == \A c \in Running : call[c].from <= meant[k] => c \in older[k] \cup late[k]
KeyShape(k) == k \in keys /\ Gapless(meant[k]) => Below(k) /\ Awaits(k)

(* When the key it was drawn under has expired, no call will try the number again. *)
Passed(n) == 0 .. n \subseteq accepted /\ \A c \in Running : n < call[c].from
SettledShape(n) == n \in accepted /\ Gapless(n) => Passed(n) \/ Holds(origin[n], n)

(* What was drawn is not taken, unless from another index. *)
ClashFree(c) == Drew(c) /\ Gapless(call[c].nonce) /\ call[c].nonce \in accepted
                  => origin[call[c].nonce] # call[c].from

Shape == \A c \in Calls : CallShape(c)
Draws == \A c \in Calls : DrawnShape(c)
Clash == \A c \in Calls : ClashFree(c)

IInv == /\ TypeOK /\ Shape /\ Draws /\ Clash
        /\ \A c \in Calls : FromShape(c)
        /\ \A k \in Names : KeyShape(k)
        /\ \A n \in Nonces : SettledShape(n)

-----------------------------------------------------------------------------
(* The least number, and the node's next index. *)

(* A set of numbers that is not empty has a least one. *)
LEMMA LeastNumber ==
  ASSUME NEW S \in SUBSET Nat, S # {}
  PROVE  Min(S) \in S /\ \A m \in S : Min(S) <= m
  <1>1. \E n \in S : \A m \in S : ~(<<m, n>> \in OpToRel(<, Nat))
    BY NatLessThanWellFounded, WFMin
  <1>2. \A n, m \in S : <<m, n>> \in OpToRel(<, Nat) <=> m < n
    BY DEF OpToRel
  <1>3. PICK n \in S : \A m \in S : ~(m < n)
    BY <1>1, <1>2
  <1>4. \A m \in S : n <= m
    BY <1>3
  <1> QED BY <1>4 DEF Min

(* The first number the node has no transaction for. *)
LEMMA IndexIsFirst ==
  ASSUME TypeOK
  PROVE  /\ NextIndex \in Nat /\ NextIndex \notin accepted
         /\ \A m \in Nat : m < NextIndex => m \in accepted
  <1> DEFINE Unused == Nat \cap ((0 .. MaxNonce + 1) \ accepted)
  <1>1. MaxNonce + 1 \in Unused
    BY DEF TypeOK
  <1>2. NextIndex \in Unused /\ \A m \in Unused : NextIndex <= m
    BY <1>1, LeastNumber DEF NextIndex
  <1>3. \A m \in Nat : m < NextIndex => m \in accepted
    BY <1>2
  <1> QED BY <1>2, <1>3

(* Names are made of an index and an offset. *)
LEMMA NamesOfKeys ==
  ASSUME NEW index \in Indices, NEW i \in Offsets
  PROVE  /\ KeyName(index, i) \in Names /\ index + i \in Nonces
         /\ KeyOf(index, index + i) = KeyName(index, i)
  <1>1. (index + i) - index = i /\ index + i \in Nonces
    OBVIOUS
  <1> QED BY <1>1 DEF Names, KeyOf

-----------------------------------------------------------------------------
(* What the steps of a call do. *)

Others(c) == \A d \in Calls : d # c => call'[d] = call[d]

(* An idle call has a call's type. *)
LEMMA IdleType == Idle \in CallRec /\ Idle.pc = "idle"
  BY DEF Idle, CallRec

(* The running calls, by their step. *)
LEMMA RunningCalls ==
  ASSUME Shape
  PROVE  Running = {c \in Calls : call[c].pc # "idle"}
  BY IdleType DEF Shape, CallShape, Running

(* And so it is after a step. *)
LEMMA RunningNext ==
  ASSUME Shape'
  PROVE  Running' = {c \in Calls : call'[c].pc # "idle"}
  BY IdleType DEF Shape, CallShape, Running

(* The types, value by value. *)
Typed ==
    /\ accepted \subseteq Nonces /\ keys \subseteq Names /\ skipped \subseteq Nonces
    /\ unsafe \in BOOLEAN
    /\ \A c \in Calls : /\ call[c].pc \in {"idle", "reserve", "submit"}
                        /\ call[c].from \in Nonces /\ call[c].nonce \in Nat
                        /\ call[c].pc # "idle" => call[c].from \in Indices
                        /\ Drew(c) => call[c].nonce \in Nonces
    /\ Running = {c \in Calls : call[c].pc # "idle"}
    /\ \A k \in Names : /\ older[k] \subseteq Running /\ late[k] \subseteq Running
                        /\ meant[k] \in Nonces

(* They follow from the types and shapes. *)
LEMMA TypedNow == TypeOK /\ Shape => Typed
  <1> SUFFICES ASSUME TypeOK, Shape PROVE Typed
    OBVIOUS
  <1>1. \A c \in Calls : call[c] \in CallRec
    BY DEF TypeOK
  <1>2. \A c \in Calls : /\ call[c].pc \in {"idle", "reserve", "submit"}
                         /\ call[c].from \in Nonces /\ call[c].nonce \in Nat
    BY <1>1 DEF CallRec
  <1>3. \A c \in Calls : /\ call[c].pc # "idle" => call[c].from \in Indices
                         /\ Drew(c) => call[c].nonce \in Nonces
    BY <1>2 DEF Shape, CallShape, Drew
  <1>4. \A k \in Names : older[k] \subseteq Running /\ late[k] \subseteq Running
    BY DEF TypeOK
  <1>5. accepted \subseteq Nonces /\ keys \subseteq Names /\ skipped \subseteq Nonces
    BY DEF TypeOK
  <1>6. unsafe \in BOOLEAN /\ \A k \in Names : meant[k] \in Nonces
    BY DEF TypeOK
  <1> QED BY <1>2, <1>3, <1>4, <1>5, <1>6, RunningCalls DEF Typed

(* With no gap up to a number there is none up to a lower one. *)
LEMMA GaplessBelow ==
  ASSUME Typed, NEW m \in Nonces, NEW n \in Nonces, m < n, Gapless(n)
  PROVE  Gapless(m)
  <1> SUFFICES ASSUME NEW k \in skipped PROVE m < k
    BY DEF Gapless
  <1>1. k \in Nonces /\ n < k
    BY DEF Gapless, Typed
  <1> QED BY <1>1

(* A call has asked for the node's next index. *)
Asked(c) == /\ call' \in [Calls -> CallRec] /\ Others(c)
            /\ call[c].pc = "idle" /\ call'[c].pc = "reserve"
            /\ call'[c].from = NextIndex /\ NextIndex \in Indices
            /\ \A k \in Names : late'[k] = late[k] \cup (IF older[k] = {} THEN {} ELSE {c})
            /\ UNCHANGED <<accepted, keys, older, meant, origin, skipped, unsafe>>

(* So Ask does. *)
LEMMA AskEffect ==
  ASSUME TypeOK, NEW c \in Calls, Ask(c)
  PROVE  Asked(c)
  <1>1. NextIndex \in Indices /\ NextIndex \in Nonces
    BY DEF Ask
  <1>2. PICK boot \in BOOLEAN :
           call' = [call EXCEPT ![c] = [Idle EXCEPT !.pc = "reserve", !.boot = boot,
                                                    !.from = NextIndex]]
    BY DEF Ask
  <1> DEFINE new == [Idle EXCEPT !.pc = "reserve", !.boot = boot, !.from = NextIndex]
  <1>3. new \in CallRec /\ new.pc = "reserve" /\ new.from = NextIndex
    BY <1>1 DEF Idle, CallRec
  <1>4. call' \in [Calls -> CallRec] /\ Others(c) /\ call'[c] = new
    BY <1>2, <1>3 DEF TypeOK, Others
  <1>5. call[c].pc = "idle"
    BY IdleType DEF Ask
  <1> QED BY <1>1, <1>3, <1>4, <1>5 DEF Ask, Asked

(* A call has drawn a number. *)
LEMMA DrawnEffect ==
  ASSUME TypeOK, NEW c \in Calls, NEW n \in Nat, Drawn(c, n)
  PROVE  /\ call' \in [Calls -> CallRec] /\ Others(c)
         /\ call'[c].pc = "submit" /\ call'[c].nonce = n /\ call'[c].from = call[c].from
  <1> DEFINE new == [call[c] EXCEPT !.pc = "submit", !.nonce = n]
  <1>1. call[c] \in CallRec
    BY DEF TypeOK
  <1>2. new \in CallRec /\ new.pc = "submit" /\ new.nonce = n /\ new.from = call[c].from
    BY <1>1 DEF CallRec
  <1>3. call' = [call EXCEPT ![c] = new]
    BY DEF Drawn, TypeOK
  <1> QED BY <1>2, <1>3 DEF TypeOK, Others

(* The first number is reserved whose key is free; or none is. *)
Reserved(c, i) ==
    /\ Candidate(c, i) \notin keys /\ \A j \in 0 .. (i - 1) : Candidate(c, j) \in keys
    /\ call'[c].nonce = call[c].from + i
    /\ keys' = keys \cup {Candidate(c, i)}
    /\ older' = [older EXCEPT ![Candidate(c, i)] = Running]
    /\ meant' = [meant EXCEPT ![Candidate(c, i)] = call[c].from + i]
    /\ skipped' = skipped \cup PassedOver(c, i)
    /\ UNCHANGED <<origin, unsafe>>

Answered(c) == /\ call' \in [Calls -> CallRec] /\ Others(c)
               /\ call[c].pc = "reserve" /\ call'[c].pc = "submit"
               /\ call'[c].from = call[c].from /\ call[c].from \in Indices
               /\ UNCHANGED <<accepted, late, faults, origin>>
               /\ \/ \E i \in Offsets : Reserved(c, i)
                  \/ /\ call'[c].nonce = call[c].from + KeysToCheck
                     /\ unsafe' = TRUE /\ UNCHANGED <<keys, older, meant, skipped>>

(* So Reserve does. *)
LEMMA ReserveEffect ==
  ASSUME TypeOK, Shape, NEW c \in Calls, Reserve(c)
  PROVE  Answered(c)
  <1>1. call[c].pc = "reserve" /\ call[c].from \in Indices
    BY DEF Reserve, Shape, CallShape
  <1>2. CASE KeysRunOut(c)
    <2>1. call[c].from + KeysToCheck \in Nat
      BY <1>1
    <2> QED BY <1>1, <1>2, <2>1, DrawnEffect DEF Reserve, KeysRunOut, Answered
  <1>3. CASE ReserveFirst(c)
    <2>1. Free(c) \in SUBSET Nat /\ Free(c) # {}
      BY <1>3 DEF ReserveFirst, Free
    <2>2. Min(Free(c)) \in Free(c) /\ \A j \in Free(c) : Min(Free(c)) <= j
      BY <2>1, LeastNumber
    <2>3. PICK i \in Offsets : i = Min(Free(c)) /\ Candidate(c, i) \notin keys
      BY <2>2 DEF Free
    <2>4. ASSUME NEW j \in 0 .. (i - 1) PROVE Candidate(c, j) \in keys
      <3>1. j \in Offsets /\ ~(i <= j)
        OBVIOUS
      <3> QED BY <2>2, <2>3, <3>1 DEF Free
    <2>5. SetKey(c, i, Running) /\ skipped' = skipped \cup PassedOver(c, i)
      BY <1>3, <2>3 DEF ReserveFirst
    <2>6. call[c].from + i \in Nat /\ Drawn(c, call[c].from + i)
      BY <1>1, <2>5 DEF SetKey
    <2>7. /\ call' \in [Calls -> CallRec] /\ Others(c) /\ call'[c].pc = "submit"
          /\ call'[c].nonce = call[c].from + i /\ call'[c].from = call[c].from
      BY <2>6, DrawnEffect
    <2>8. Reserved(c, i)
      BY <2>3, <2>4, <2>5, <2>7 DEF Reserved, SetKey
    <2>9. UNCHANGED <<accepted, late, faults, origin>>
      BY <2>5 DEF Reserve, SetKey
    <2> QED BY <1>1, <2>7, <2>8, <2>9 DEF Answered
  <1> QED BY <1>2, <1>3 DEF Reserve

(* What the reservation of a number does to the keys, name by name. *)
KeySet(c, k, n) ==
    /\ k \in Names /\ n \in Nonces /\ k = KeyOf(call[c].from, n)
    /\ call[c].from <= n /\ n - call[c].from \in Offsets /\ call'[c].nonce = n
    /\ k \notin keys /\ keys' = keys \cup {k}
    /\ older'[k] = Running /\ meant'[k] = n
    /\ \A x \in Names : x # k => older'[x] = older[x] /\ meant'[x] = meant[x]
    /\ skipped \subseteq skipped'
    /\ \A m \in Nonces : call[c].from <= m /\ m < n /\ m \notin skipped' =>
         \E x \in keys : meant[x] = m
    /\ UNCHANGED unsafe

(* The key of the number is set, and those of the numbers before it are live. *)
LEMMA ReservedEffect ==
  ASSUME TypeOK, NEW c \in Calls, call[c].from \in Indices, NEW i \in Offsets, Reserved(c, i)
  PROVE  KeySet(c, Candidate(c, i), call[c].from + i)
  <1> DEFINE k == Candidate(c, i)
             n == call[c].from + i
  <1>1. k \in Names /\ n \in Nonces /\ k = KeyOf(call[c].from, n)
    BY NamesOfKeys DEF Candidate
  <1>2. call[c].from <= n /\ n - call[c].from \in Offsets
    OBVIOUS
  <1>3. older'[k] = Running /\ \A x \in Names : x # k => older'[x] = older[x]
    BY <1>1 DEF Reserved, TypeOK
  <1>4. meant'[k] = n /\ \A x \in Names : x # k => meant'[x] = meant[x]
    BY <1>1 DEF Reserved, TypeOK
  <1>5. ASSUME NEW m \in Nonces, call[c].from <= m, m < n, m \notin skipped'
        PROVE  \E x \in keys : meant[x] = m
    <2> DEFINE j == m - call[c].from
    <2>1. j \in 0 .. (i - 1) /\ m = call[c].from + j
      BY <1>5
    <2>2. Candidate(c, j) \in keys
      BY <2>1 DEF Reserved
    <2>3. meant[Candidate(c, j)] = m
      BY <1>5, <2>1 DEF Reserved, PassedOver
    <2> QED BY <2>2, <2>3
  <1> QED BY <1>1, <1>2, <1>3, <1>4, <1>5 DEF Reserved, KeySet

(* A call has ended: its number is accepted or skipped. *)
Over(c) == /\ call' \in [Calls -> CallRec] /\ Others(c)
           /\ call[c].pc # "idle" /\ call'[c] = Idle /\ call'[c].pc = "idle"
           /\ \A k \in Names : older'[k] = older[k] \ {c} /\ late'[k] = late[k] \ {c}
           /\ UNCHANGED <<keys, meant, unsafe>>
           /\ accepted \subseteq accepted' /\ skipped \subseteq skipped'
           /\ Drew(c) => call[c].nonce \in accepted' \cup skipped'
           /\ \A n \in accepted' \ accepted :
                Drew(c) /\ n = call[c].nonce /\ origin'[n] = call[c].from
           /\ \A n \in accepted : origin'[n] = origin[n]

Leaves(c) == Submit(c) \/ Log(c) \/ Lose(c)

(* So do the steps that end it. *)
LEMMA LeavesEffect ==
  ASSUME TypeOK, Shape, NEW c \in Calls, Leaves(c)
  PROVE  Over(c)
  <1>1. Ended(c) /\ call[c].pc # "idle" /\ UNCHANGED <<keys, meant, unsafe>>
    BY DEF Leaves, Submit, Log, Lose
  <1>2. /\ call' \in [Calls -> CallRec] /\ Others(c) /\ call'[c] = Idle /\ call'[c].pc = "idle"
        /\ \A k \in Names : older'[k] = older[k] \ {c} /\ late'[k] = late[k] \ {c}
    BY <1>1, IdleType DEF Ended, TypeOK, Others
  <1>3. /\ accepted \subseteq accepted' /\ skipped \subseteq skipped'
        /\ Drew(c) => call[c].nonce \in accepted' \cup skipped'
    BY DEF Leaves, Submit, Log, Lose, Drew
  <1>4. ASSUME NEW n \in accepted' \ accepted
        PROVE  Drew(c) /\ n = call[c].nonce /\ origin'[n] = call[c].from
    <2>1. Submit(c)
      BY <1>4 DEF Leaves, Log, Lose
    <2>2. Drew(c) /\ n = call[c].nonce /\ n \in Nonces
      BY <1>4, <2>1, TypedNow DEF Submit, Drew, Typed
    <2> QED BY <1>4, <2>1, <2>2 DEF Submit, TypeOK
  <1>5. \A n \in accepted : origin'[n] = origin[n]
    BY DEF Leaves, Submit, Log, Lose, TypeOK
  <1> QED BY <1>1, <1>2, <1>3, <1>4, <1>5 DEF Over

(* The steps, sorted by what they do. *)
LEMMA NextCases ==
  ASSUME Next
  PROVE  \/ \E c \in Calls : Ask(c) \/ Reserve(c) \/ Leaves(c)
         \/ \E k \in Names : Expire(k)
         \/ \E n \in Nonces : Drop(n)
  BY DEF Next, Leaves

-----------------------------------------------------------------------------
(* The invariant holds in every step. *)

(* What a call has in hand still fits. *)
LEMMA CallShapeStep ==
  ASSUME TypeOK, Shape, Next
  PROVE  Shape'
  <1> SUFFICES ASSUME NEW x \in Calls PROVE CallShape(x)'
    BY DEF Shape
  <1>a. Typed
    BY TypedNow
  <1>b. CallShape(x)
    BY DEF Shape
  <1> USE DEF CallShape, Drew, Others
  <1>1. ASSUME NEW c \in Calls, Ask(c) PROVE CallShape(x)'
    <2>1. Asked(c)
      BY <1>1, AskEffect
    <2> QED BY <1>b, <2>1 DEF Asked
  <1>2. ASSUME NEW c \in Calls, Reserve(c) PROVE CallShape(x)'
    <2>0. Answered(c)
      BY <1>2, ReserveEffect
    <2>1. CASE x # c
      BY <1>b, <2>0, <2>1 DEF Answered
    <2>2. CASE x = c
      <3>1. call[x].from \in Indices /\ call'[x].from = call[x].from
        BY <2>0, <2>2 DEF Answered
      <3>2. call[x].from <= call'[x].nonce /\ call'[x].nonce <= call[x].from + KeysToCheck
        BY <2>0, <2>2, <3>1 DEF Answered, Reserved
      <3>3. call'[x].pc = "submit"
        BY <2>0, <2>2 DEF Answered
      <3> QED BY <3>1, <3>2, <3>3
    <2> QED BY <2>1, <2>2
  <1>3. ASSUME NEW c \in Calls, Leaves(c) PROVE CallShape(x)'
    <2>1. Over(c)
      BY <1>3, LeavesEffect
    <2> QED BY <1>b, <2>1 DEF Over
  <1>4. ASSUME NEW k \in Names, Expire(k) PROVE CallShape(x)'
    BY <1>4, <1>b DEF Expire
  <1>5. ASSUME NEW n \in Nonces, Drop(n) PROVE CallShape(x)'
    BY <1>5, <1>b DEF Drop
  <1> QED BY <1>1, <1>2, <1>3, <1>4, <1>5, NextCases

(* Every step keeps the types. *)
LEMMA TypeStep ==
  ASSUME TypeOK, Shape, Shape', Next
  PROVE  TypeOK'
  <1>a. Typed
    BY TypedNow
  <1>c. Running' = {c \in Calls : call'[c].pc # "idle"}
    BY RunningNext
  <1>1. ASSUME NEW c \in Calls, Ask(c) PROVE TypeOK'
    <2>0. Asked(c)
      BY <1>1, AskEffect
    <2>1. Running \subseteq Running' /\ c \in Running'
      BY <1>a, <1>c, <2>0 DEF Typed, Others, Asked
    <2>2. older' \in [Names -> SUBSET Running']
      BY <2>0, <2>1 DEF TypeOK, Asked
    <2>3. \A k \in Names : late'[k] \subseteq Running'
      BY <1>a, <2>0, <2>1 DEF Typed, Asked
    <2>4. late' \in [Names -> SUBSET Running']
      BY <1>1, <2>3 DEF Ask
    <2>5. faults' \in 0 .. MaxFaults
      BY <1>1 DEF Ask, Mishap, TypeOK
    <2> QED BY <2>0, <2>2, <2>4, <2>5 DEF TypeOK, Asked
  <1>2. ASSUME NEW c \in Calls, Reserve(c) PROVE TypeOK'
    <2>0. Answered(c)
      BY <1>2, <1>a, ReserveEffect
    <2>1. Running' = Running
      BY <1>a, <1>c, <2>0 DEF Typed, Others, Answered
    <2>2. older \in [Names -> SUBSET Running'] /\ late \in [Names -> SUBSET Running']
      BY <2>1 DEF TypeOK
    <2>3. ASSUME NEW i \in Offsets, Reserved(c, i) PROVE TypeOK'
      <3>1. Candidate(c, i) \in Names /\ call[c].from + i \in Nonces
        BY <2>0, NamesOfKeys DEF Candidate, Answered
      <3>2. older' \in [Names -> SUBSET Running'] /\ late' \in [Names -> SUBSET Running']
        BY <2>0, <2>1, <2>2, <2>3 DEF Reserved, Answered
      <3>3. keys' \subseteq Names /\ skipped' \subseteq Nonces
        BY <2>3, <3>1 DEF Reserved, PassedOver, TypeOK
      <3>4. meant' \in [Names -> Nonces]
        BY <2>3, <3>1 DEF Reserved, TypeOK
      <3> QED BY <2>0, <2>3, <3>2, <3>3, <3>4 DEF TypeOK, Answered, Reserved
    <2>4. CASE unsafe' = TRUE /\ UNCHANGED <<keys, older, meant, skipped>>
      BY <2>0, <2>2, <2>4 DEF TypeOK, Answered
    <2> QED BY <2>0, <2>3, <2>4 DEF Answered
  <1>3. ASSUME NEW c \in Calls, Leaves(c) PROVE TypeOK'
    <2>0. Over(c) /\ Ended(c)
      BY <1>3, <1>a, LeavesEffect DEF Leaves, Submit, Log, Lose
    <2>1. Running' = Running \ {c}
      BY <1>a, <1>c, <2>0 DEF Typed, Others, Over
    <2>2. \A k \in Names : older'[k] \subseteq Running' /\ late'[k] \subseteq Running'
      BY <1>a, <2>0, <2>1 DEF Typed, Over
    <2>3. older' \in [Names -> SUBSET Running'] /\ late' \in [Names -> SUBSET Running']
      BY <2>0, <2>2 DEF Ended
    <2>4. accepted' \subseteq Nonces /\ skipped' \subseteq Nonces
      BY <1>3, <1>a DEF Leaves, Submit, Log, Lose, Typed, Drew
    <2>5. origin' \in [Nonces -> Nonces]
      BY <1>3, <1>a DEF Leaves, Submit, Log, Lose, Typed, TypeOK
    <2>6. faults' \in 0 .. MaxFaults
      BY <1>3 DEF Leaves, Submit, Log, Lose, Mishap, TypeOK
    <2> QED BY <2>0, <2>3, <2>4, <2>5, <2>6 DEF TypeOK, Over
  <1>4. ASSUME NEW k \in Names, Expire(k) PROVE TypeOK'
    <2>1. Running' = Running
      BY <1>4 DEF Expire, Running
    <2>2. older \in [Names -> SUBSET Running'] /\ late \in [Names -> SUBSET Running']
      BY <2>1 DEF TypeOK
    <2>3. older' \in [Names -> SUBSET Running'] /\ late' \in [Names -> SUBSET Running']
      BY <1>4, <2>2 DEF Expire
    <2>4. faults' \in 0 .. MaxFaults
      BY <1>4 DEF Expire, Mishap, TypeOK
    <2>5. meant' \in [Names -> Nonces]
      BY <1>4 DEF Expire, TypeOK
    <2>6. unsafe' \in BOOLEAN
      BY <1>4 DEF Expire, TypeOK
    <2> QED BY <1>4, <2>3, <2>4, <2>5, <2>6 DEF Expire, TypeOK
  <1>5. ASSUME NEW n \in Nonces, Drop(n) PROVE TypeOK'
    <2>1. Running' = Running
      BY <1>5 DEF Drop, Running
    <2>2. older' \in [Names -> SUBSET Running'] /\ late' \in [Names -> SUBSET Running']
      BY <1>5, <2>1 DEF Drop, TypeOK
    <2>3. faults' \in 0 .. MaxFaults /\ origin' \in [Nonces -> Nonces]
      BY <1>5 DEF Drop, Mishap, TypeOK
    <2> QED BY <1>5, <2>2, <2>3 DEF Drop, TypeOK
  <1> QED BY <1>1, <1>2, <1>3, <1>4, <1>5, NextCases

(* The index a call was told has been passed, or something was lost. *)
LEMMA FromShapeStep ==
  ASSUME TypeOK, Shape, \A d \in Calls : FromShape(d), Next
  PROVE  \A x \in Calls : FromShape(x)'
  <1> SUFFICES ASSUME NEW x \in Calls PROVE FromShape(x)'
    OBVIOUS
  <1>a. Typed
    BY TypedNow
  <1>b. FromShape(x)
    OBVIOUS
  <1> USE DEF FromShape, Others
  <1>1. ASSUME NEW c \in Calls, Ask(c) PROVE FromShape(x)'
    <2>0. Asked(c)
      BY <1>1, AskEffect
    <2>1. CASE x = c
      <3>1. \A m \in Nat : m < NextIndex => m \in accepted
        BY IndexIsFirst
      <3> QED BY <2>0, <2>1, <3>1 DEF Asked
    <2>2. CASE x # c
      BY <1>b, <2>0, <2>2 DEF Asked
    <2> QED BY <2>1, <2>2
  <1>2. ASSUME NEW c \in Calls, Reserve(c) PROVE FromShape(x)'
    <2>0. Answered(c)
      BY <1>2, ReserveEffect
    <2>1. accepted' = accepted /\ skipped \subseteq skipped'
      BY <2>0 DEF Answered, Reserved
    <2>2. call'[x].from = call[x].from /\ (call'[x].pc # "idle" => call[x].pc # "idle")
      BY <2>0 DEF Answered
    <2> QED BY <1>b, <2>1, <2>2
  <1>3. ASSUME NEW c \in Calls, Leaves(c) PROVE FromShape(x)'
    <2>0. Over(c)
      BY <1>3, LeavesEffect
    <2> QED BY <1>b, <2>0 DEF Over
  <1>4. ASSUME NEW k \in Names, Expire(k) PROVE FromShape(x)'
    BY <1>4, <1>b DEF Expire
  <1>5. ASSUME NEW n \in Nonces, Drop(n) PROVE FromShape(x)'
    BY <1>5, <1>b DEF Drop
  <1> QED BY <1>1, <1>2, <1>3, <1>4, <1>5, NextCases

(* The names under which a call has drawn are names. *)
LEMMA HeldNames ==
  ASSUME TypeOK, NEW index, NEW n, Holds(index, n)
  PROVE  KeyOf(index, n) \in Names
  BY DEF TypeOK, Holds

(* What was drawn keeps its key, and is not drawn again from the same index. *)
LEMMA DrawsStep ==
  ASSUME TypeOK, Shape, Draws, Next
  PROVE  \A x \in Calls : DrawnShape(x)'
  <1> SUFFICES ASSUME NEW x \in Calls, Drew(x)', ~unsafe'
               PROVE  DrawnShape(x)'
    BY DEF DrawnShape
  <1>a. Typed
    BY TypedNow
  <1>b. DrawnShape(x)
    BY DEF Draws
  <1>1. ASSUME NEW c \in Calls, Ask(c) PROVE DrawnShape(x)'
    <2>0. Asked(c)
      BY <1>1, AskEffect
    <2> QED BY <1>b, <2>0 DEF Asked, DrawnShape, Drew, Others, Holds
  <1>2. ASSUME NEW c \in Calls, Reserve(c) PROVE DrawnShape(x)'
    <2>0. Answered(c)
      BY <1>2, ReserveEffect
    <2>1. PICK i \in Offsets : Reserved(c, i)
      BY <2>0 DEF Answered
    <2> DEFINE k == Candidate(c, i)
               n == call[c].from + i
    <2>2. KeySet(c, k, n)
      BY <2>0, <2>1, ReservedEffect DEF Answered
    <2> HIDE DEF k, n
    <2>3. c \in Running /\ call'[c].from = call[c].from /\ call'[c].nonce = n
      BY <1>a, <2>0, <2>2 DEF Typed, Answered, KeySet
    <2>4. ASSUME NEW d \in Calls, d # c, Drew(d)'
          PROVE  /\ call'[d] = call[d] /\ Drew(d) /\ Holds(call[d].from, call[d].nonce)
                 /\ d \in older[KeyOf(call[d].from, call[d].nonce)]
                 /\ KeyOf(call[d].from, call[d].nonce) # k
      <3>1. call'[d] = call[d] /\ Drew(d) /\ ~unsafe
        BY <2>0, <2>2, <2>4 DEF Answered, KeySet, Others, Drew
      <3>2. DrawnShape(d)
        BY DEF Draws
      <3> QED BY <2>2, <3>1, <3>2 DEF DrawnShape, KeySet, Holds
    <2>5. ASSUME NEW d \in Calls, Drew(d)', d # c
          PROVE  ~(call'[d].from = call[c].from /\ call'[d].nonce = n)
      BY <2>2, <2>4, <2>5 DEF KeySet
    <2>6. CASE x = c
      <3>1. PICK f \in Indices, m \in Nonces : f = call[c].from /\ m = n
        BY <2>0, <2>2 DEF Answered, KeySet
      <3>2. Holds(f, m)'
        BY <2>0, <2>2, <3>1 DEF KeySet, Holds
      <3>3. c \in older'[KeyOf(f, m)]
        BY <2>2, <2>3, <3>1 DEF KeySet
      <3>4. call'[x].from = f /\ call'[x].nonce = m
        BY <2>3, <2>6, <3>1
      <3>5. Holds(call[x].from, call[x].nonce)'
        BY <3>2, <3>4 DEF Holds
      <3> QED BY <2>5, <2>6, <3>1, <3>3, <3>4, <3>5 DEF DrawnShape
    <2>7. CASE x # c
      <3>1. /\ call'[x] = call[x] /\ Drew(x) /\ Holds(call[x].from, call[x].nonce)
            /\ x \in older[KeyOf(call[x].from, call[x].nonce)]
            /\ KeyOf(call[x].from, call[x].nonce) # k
        BY <2>4, <2>7
      <3>2. KeyOf(call[x].from, call[x].nonce) \in Names
        BY <3>1, HeldNames
      <3>3. Holds(call[x].from, call[x].nonce)'
            /\ x \in older'[KeyOf(call[x].from, call[x].nonce)]
        BY <2>2, <3>1, <3>2 DEF KeySet, Holds
      <3>4. ASSUME NEW d \in Calls, Drew(d)', call'[d].from = call'[x].from,
                   call'[d].nonce = call'[x].nonce
            PROVE  d = x
        <4>1. d # c
          BY <2>3, <2>5, <2>7, <3>1, <3>4
        <4>2. call'[d] = call[d] /\ Drew(d) /\ ~unsafe
          BY <2>2, <2>4, <3>4, <4>1 DEF KeySet
        <4> QED BY <1>b, <3>1, <3>4, <4>2 DEF DrawnShape
      <3> QED BY <3>1, <3>3, <3>4 DEF DrawnShape
    <2> QED BY <2>6, <2>7
  <1>3. ASSUME NEW c \in Calls, Leaves(c) PROVE DrawnShape(x)'
    <2>0. Over(c)
      BY <1>3, LeavesEffect
    <2>1. \A d \in Calls : Drew(d)' => d # c /\ call'[d] = call[d] /\ Drew(d)
      BY <2>0 DEF Over, Others, Drew
    <2>2. ~unsafe /\ UNCHANGED <<keys, meant>> /\ Drew(x) /\ x # c /\ call'[x] = call[x]
      BY <2>0, <2>1 DEF Over
    <2>3. KeyOf(call[x].from, call[x].nonce) \in Names
      BY <1>b, <2>2, HeldNames DEF DrawnShape
    <2>4. x \in older'[KeyOf(call[x].from, call[x].nonce)]
      BY <1>b, <2>0, <2>2, <2>3 DEF DrawnShape, Over
    <2> QED BY <1>b, <2>1, <2>2, <2>4 DEF DrawnShape, Holds
  <1>4. ASSUME NEW k \in Names, Expire(k) PROVE DrawnShape(x)'
    <2>1. /\ UNCHANGED call /\ ~unsafe /\ older[k] = {} /\ keys' = keys \ {k}
          /\ \A l \in Names : l # k => older'[l] = older[l] /\ meant'[l] = meant[l]
      BY <1>4 DEF Expire, Outlasted, TypeOK
    <2>2. Drew(x) /\ KeyOf(call[x].from, call[x].nonce) # k
      BY <1>b, <2>1 DEF DrawnShape, Drew
    <2>3. KeyOf(call[x].from, call[x].nonce) \in Names
      BY <1>b, <2>1, <2>2, HeldNames DEF DrawnShape
    <2> QED BY <1>b, <2>1, <2>2, <2>3 DEF DrawnShape, Holds, Drew
  <1>5. ASSUME NEW n \in Nonces, Drop(n) PROVE DrawnShape(x)'
    BY <1>5, <1>b DEF Drop, DrawnShape, Drew, Holds
  <1> QED BY <1>1, <1>2, <1>3, <1>4, <1>5, NextCases

(* What is drawn with no gap below is not taken from the same index. *)
LEMMA ClashStep ==
  ASSUME IInv, Next
  PROVE  \A x \in Calls : ClashFree(x)'
  <1> SUFFICES ASSUME NEW x \in Calls, Drew(x)', Gapless(call[x].nonce)',
                      call'[x].nonce \in accepted'
               PROVE  origin'[call'[x].nonce] # call'[x].from
    BY DEF ClashFree
  <1>a. TypeOK /\ Shape /\ Typed
    BY TypedNow DEF IInv
  <1>b. ClashFree(x)
    BY DEF IInv, Clash
  <1> DEFINE Goal == origin'[call'[x].nonce] # call'[x].from
  <1>1. ASSUME NEW c \in Calls, Ask(c) PROVE Goal
    <2>0. Asked(c)
      BY <1>1, <1>a, AskEffect
    <2> QED BY <1>b, <2>0 DEF Asked, ClashFree, Drew, Gapless, Others
  <1>2. ASSUME NEW c \in Calls, Reserve(c) PROVE Goal
    <2>0. Answered(c)
      BY <1>2, <1>a, ReserveEffect
    <2>1. PICK i \in Offsets : Reserved(c, i)
      BY <2>0 DEF Answered, Gapless
    <2> DEFINE k == Candidate(c, i)
               n == call[c].from + i
    <2>2. KeySet(c, k, n)
      BY <1>a, <2>0, <2>1, ReservedEffect DEF Answered
    <2> HIDE DEF k, n
    <2>3. UNCHANGED <<accepted, origin>> /\ Gapless(call'[x].nonce)
      BY <2>0, <2>2 DEF Answered, KeySet, Gapless
    <2>4. CASE x = c
      <3>1. n \in accepted /\ Gapless(n) /\ n \in Nonces /\ k \notin keys
            /\ call'[c].nonce = n /\ call'[c].from = call[c].from
            /\ k = KeyOf(call[c].from, n) /\ call[c].from <= n
        BY <2>0, <2>2, <2>3, <2>4 DEF Answered, KeySet
      <3>2. SettledShape(n) /\ c \in Running /\ call[c].from \in Nat
        BY <1>a, <2>0, <3>1 DEF IInv, Typed, Answered
      <3>3. ~Passed(n)
        BY <3>1, <3>2 DEF Passed
      <3> QED BY <2>3, <2>4, <3>1, <3>2, <3>3 DEF SettledShape, Holds
    <2>5. CASE x # c
      <3>1. call'[x] = call[x] /\ Drew(x)
        BY <2>0, <2>5 DEF Answered, Others, Drew
      <3> QED BY <1>b, <2>3, <3>1 DEF ClashFree
    <2> QED BY <2>4, <2>5
  <1>3. ASSUME NEW c \in Calls, Leaves(c) PROVE Goal
    <2>0. Over(c)
      BY <1>3, <1>a, LeavesEffect
    <2>1. x # c /\ call'[x] = call[x] /\ Drew(x) /\ Gapless(call[x].nonce)
      BY <2>0 DEF Over, Others, Drew, Gapless
    <2>2. CASE call[x].nonce \in accepted
      BY <1>b, <2>0, <2>1, <2>2 DEF ClashFree, Over
    <2>3. CASE call[x].nonce \notin accepted
      <3>1. Drew(c) /\ call[x].nonce = call[c].nonce /\ origin'[call[x].nonce] = call[c].from
        BY <2>0, <2>1, <2>3 DEF Over
      <3>2. DrawnShape(x)
        BY DEF IInv, Draws
      <3> QED BY <2>1, <3>1, <3>2 DEF DrawnShape, Gapless
    <2> QED BY <2>2, <2>3
  <1>4. ASSUME NEW k \in Names, Expire(k) PROVE Goal
    <2>1. UNCHANGED <<call, accepted, skipped, origin>> /\ (unsafe => unsafe')
      BY <1>4 DEF Expire
    <2> QED BY <1>b, <2>1 DEF ClashFree, Drew, Gapless
  <1>5. ASSUME NEW n \in Nonces, Drop(n) PROVE Goal
    <2>1. /\ UNCHANGED <<call, unsafe>> /\ skipped \subseteq skipped'
          /\ accepted' = accepted \ {n} /\ origin' = [origin EXCEPT ![n] = 0]
      BY <1>5 DEF Drop
    <2>2. call[x].nonce \in accepted /\ call[x].nonce # n /\ Drew(x) /\ Gapless(call[x].nonce)
      BY <2>1 DEF Drew, Gapless
    <2>3. origin'[call[x].nonce] = origin[call[x].nonce]
      BY <1>a, <2>1, <2>2 DEF TypeOK, Typed
    <2> QED BY <1>b, <2>1, <2>2, <2>3 DEF ClashFree
  <1> QED BY <1>1, <1>2, <1>3, <1>4, <1>5, NextCases

(* A key still waits for the calls that may try its number. *)
LEMMA KeyShapeStep ==
  ASSUME IInv, Shape', Next
  PROVE  \A x \in Names : KeyShape(x)'
  <1> SUFFICES ASSUME NEW x \in Names, x \in keys', Gapless(meant[x])'
               PROVE  Below(x)' /\ Awaits(x)'
    BY DEF KeyShape
  <1>a. TypeOK /\ Shape /\ Typed
    BY TypedNow DEF IInv
  <1>b. KeyShape(x) /\ meant[x] \in Nonces
    BY <1>a DEF IInv, Typed
  <1>c. Running' = {c \in Calls : call'[c].pc # "idle"}
    BY RunningNext
  <1> DEFINE Goal == Below(x)' /\ Awaits(x)'
  <1>1. ASSUME NEW c \in Calls, Ask(c) PROVE Goal
    <2>0. Asked(c)
      BY <1>1, <1>a, AskEffect
    <2>1. Below(x) /\ Awaits(x) /\ meant'[x] = meant[x] /\ older'[x] = older[x]
      BY <1>b, <2>0 DEF KeyShape, Gapless, Asked
    <2>2. Below(x)'
      <3>1. older[x] \subseteq Calls /\ \A d \in Calls : Drew(d) => call'[d] = call[d]
        BY <1>a, <2>0 DEF Drew, Others, Typed, Asked
      <3> QED BY <2>0, <2>1, <3>1 DEF Below, Drew, Asked
    <2>3. NextIndex <= meant[x] => older[x] # {}
      <3>1. NextIndex \in Nat /\ NextIndex \notin accepted
        BY <1>a, IndexIsFirst
      <3> QED BY <2>1, <3>1 DEF Below
    <2>4. ASSUME NEW d \in Running', call'[d].from <= meant[x]
          PROVE  d \in older[x] \cup late'[x]
      <3>1. CASE d = c
        BY <2>0, <2>3, <2>4, <3>1 DEF Asked
      <3>2. CASE d # c
        <4>1. d \in Running /\ call'[d] = call[d]
          BY <1>a, <1>c, <2>0, <2>4, <3>2 DEF Typed, Others, Asked
        <4> QED BY <2>0, <2>1, <2>4, <4>1 DEF Awaits, Asked
      <3> QED BY <3>1, <3>2
    <2> QED BY <2>1, <2>2, <2>4 DEF Awaits
  <1>2. ASSUME NEW c \in Calls, Reserve(c) PROVE Goal
    <2>0. Answered(c)
      BY <1>2, <1>a, ReserveEffect
    <2>1. PICK i \in Offsets : Reserved(c, i)
      BY <2>0 DEF Answered, Gapless
    <2> DEFINE k == Candidate(c, i)
               n == call[c].from + i
    <2>2. KeySet(c, k, n)
      BY <1>a, <2>0, <2>1, ReservedEffect DEF Answered
    <2> HIDE DEF k, n
    <2>3. /\ ~unsafe /\ skipped \subseteq skipped' /\ \A m \in skipped' : meant'[x] < m
          /\ accepted' = accepted /\ late' = late
      BY <2>0, <2>2 DEF Gapless, KeySet, Answered
    <2>4. Running' = Running /\ \A d \in Running : d \in Calls /\ call'[d].from = call[d].from
      BY <1>a, <1>c, <2>0 DEF Typed, Others, Answered
    <2>5. \A d \in Calls : Drew(d) => d # c /\ Drew(d)' /\ call'[d] = call[d]
      BY <2>0 DEF Drew, Others, Answered
    <2>6. CASE x = k
      <3>0. n \in Nonces /\ meant'[x] = n /\ older'[x] = Running
        BY <2>2, <2>6 DEF KeySet
      <3>1. ASSUME NEW m \in 0 .. n
            PROVE  m \in accepted \/ \E d \in Running : Drew(d)' /\ call'[d].nonce = m
        <4>1. /\ m \in Nonces /\ m \notin skipped'
              /\ m < call[c].from \/ (call[c].from <= m /\ m < n) \/ m = n
          BY <1>a, <2>3, <3>0, <3>1 DEF Typed
        <4>2. CASE m < call[c].from
          <5>1. FromShape(c) /\ m \notin skipped
            BY <2>3, <4>1 DEF IInv
          <5> QED BY <2>0, <4>1, <4>2, <5>1 DEF FromShape, Answered
        <4>3. CASE call[c].from <= m /\ m < n
          <5>1. PICK y \in keys : meant[y] = m
            BY <2>2, <4>1, <4>3 DEF KeySet
          <5>2. y \in Names
            BY <1>a DEF Typed
          <5>3. Gapless(m)
            <6>1. Gapless(n)
              BY <2>3, <3>0 DEF Gapless
            <6> QED BY <1>a, <3>0, <4>1, <4>3, <6>1, GaplessBelow
          <5>4. Below(y)
            BY <5>1, <5>2, <5>3 DEF IInv, KeyShape
          <5>5. m \in 0 .. meant[y] /\ older[y] \subseteq Running
            BY <1>a, <4>1, <5>1, <5>2 DEF Typed
          <5>6. m \in accepted \/ \E d \in older[y] : Drew(d) /\ call[d].nonce = m
            BY <5>4, <5>5 DEF Below
          <5> QED BY <2>4, <2>5, <5>5, <5>6
        <4>4. CASE m = n
          BY <1>a, <2>0, <2>2, <4>4 DEF KeySet, Drew, Typed, Answered
        <4> QED BY <4>1, <4>2, <4>3, <4>4
      <3> QED BY <2>3, <2>4, <3>0, <3>1 DEF Below, Awaits
    <2>7. CASE x # k
      <3>0. meant'[x] = meant[x] /\ older'[x] = older[x] /\ x \in keys
        BY <2>2, <2>7 DEF KeySet
      <3>1. Gapless(meant[x])
        BY <2>3, <3>0 DEF Gapless
      <3>2. Below(x) /\ Awaits(x) /\ older[x] \subseteq Calls
        BY <1>a, <1>b, <3>0, <3>1 DEF KeyShape, Typed
      <3>3. Below(x)'
        BY <2>3, <2>5, <3>0, <3>2 DEF Below
      <3> QED BY <2>3, <2>4, <3>0, <3>2, <3>3 DEF Awaits
    <2> QED BY <2>6, <2>7
  <1>3. ASSUME NEW c \in Calls, Leaves(c) PROVE Goal
    <2>0. Over(c)
      BY <1>3, <1>a, LeavesEffect
    <2>1. /\ x \in keys /\ meant'[x] = meant[x] /\ Gapless(meant[x])
          /\ \A m \in 0 .. meant[x] : m \notin skipped'
      BY <1>b, <2>0 DEF Over, Gapless
    <2>2. Below(x) /\ Awaits(x) /\ older[x] \subseteq Calls
      BY <1>a, <1>b, <2>1 DEF KeyShape, Typed
    <2>3. Below(x)'
      <3> SUFFICES ASSUME NEW m \in 0 .. meant[x], m \notin accepted'
                   PROVE  \E d \in older'[x] : Drew(d)' /\ call'[d].nonce = m
        BY <2>1 DEF Below
      <3>1. PICK d \in older[x] : Drew(d) /\ call[d].nonce = m
        BY <2>0, <2>2 DEF Below, Over
      <3>2. d # c
        BY <2>0, <2>1, <3>1 DEF Over
      <3> QED BY <2>0, <2>2, <3>1, <3>2 DEF Drew, Others, Over
    <2>4. ASSUME NEW d \in Running' PROVE d \in Running \ {c} /\ call'[d] = call[d]
      BY <1>a, <1>c, <2>0, <2>4 DEF Typed, Others, Over
    <2> QED BY <2>0, <2>1, <2>2, <2>3, <2>4 DEF Awaits, Over
  <1>4. ASSUME NEW k \in Names, Expire(k) PROVE Goal
    <2>1. /\ x \in keys /\ x # k /\ UNCHANGED <<call, accepted, skipped>> /\ (unsafe => unsafe')
          /\ Running' = Running
      BY <1>4 DEF Expire, Running
    <2>2. older'[x] = older[x] /\ late'[x] = late[x] /\ meant'[x] = meant[x]
      BY <1>4, <1>a, <2>1 DEF Expire, TypeOK
    <2> QED BY <1>b, <2>1, <2>2 DEF KeyShape, Below, Awaits, Drew, Gapless
  <1>5. ASSUME NEW n \in Nonces, Drop(n) PROVE Goal
    <2>1. /\ UNCHANGED <<keys, older, late, call, meant, unsafe>> /\ Running' = Running
          /\ accepted' = accepted \ {n} /\ skipped' = skipped \cup {n}
      BY <1>5 DEF Drop, Running
    <2>2. x \in keys /\ Gapless(meant[x]) /\ n \notin 0 .. meant[x]
      BY <1>b, <2>1 DEF Gapless
    <2> QED BY <1>b, <2>1, <2>2 DEF KeyShape, Below, Awaits, Drew
  <1> QED BY <1>1, <1>2, <1>3, <1>4, <1>5, NextCases

(* A number whose key has expired is left behind. *)
LEMMA SettledShapeStep ==
  ASSUME IInv, Shape', Next
  PROVE  \A x \in Nonces : SettledShape(x)'
  <1> SUFFICES ASSUME NEW x \in Nonces, x \in accepted', Gapless(x)'
               PROVE  Passed(x)' \/ Holds(origin[x], x)'
    BY DEF SettledShape
  <1>a. TypeOK /\ Shape /\ Typed
    BY TypedNow DEF IInv
  <1>b. SettledShape(x)
    BY DEF IInv
  <1>c. Running' = {c \in Calls : call'[c].pc # "idle"}
    BY RunningNext
  <1> DEFINE Goal == Passed(x)' \/ Holds(origin[x], x)'
  <1>1. ASSUME NEW c \in Calls, Ask(c) PROVE Goal
    <2>0. Asked(c)
      BY <1>1, <1>a, AskEffect
    <2>1. Passed(x) \/ Holds(origin[x], x)
      BY <1>b, <2>0 DEF SettledShape, Gapless, Asked
    <2>2. CASE Holds(origin[x], x)
      BY <2>0, <2>2 DEF Holds, Asked
    <2>3. CASE Passed(x)
      <3>1. x < NextIndex
        BY <1>a, <2>3, IndexIsFirst DEF Passed
      <3>2. \A d \in Running' : d = c \/ (d \in Running /\ call'[d] = call[d])
        BY <1>a, <1>c, <2>0 DEF Typed, Others, Asked
      <3> QED BY <2>0, <2>3, <3>1, <3>2 DEF Passed, Asked
    <2> QED BY <2>1, <2>2, <2>3
  <1>2. ASSUME NEW c \in Calls, Reserve(c) PROVE Goal
    <2>0. Answered(c)
      BY <1>2, <1>a, ReserveEffect
    <2>1. PICK i \in Offsets : Reserved(c, i)
      BY <2>0 DEF Answered, Gapless
    <2>2. KeySet(c, Candidate(c, i), call[c].from + i)
      BY <1>a, <2>0, <2>1, ReservedEffect DEF Answered
    <2>3. UNCHANGED <<accepted, origin>> /\ Gapless(x)
      BY <2>0, <2>2 DEF Answered, KeySet, Gapless
    <2>4. Passed(x) \/ Holds(origin[x], x)
      BY <1>b, <2>3 DEF SettledShape
    <2>5. CASE Holds(origin[x], x)
      <3>1. KeyOf(origin[x], x) \in Names
        BY <1>a, <2>5, HeldNames
      <3> QED BY <2>2, <2>3, <2>5, <3>1 DEF Holds, KeySet
    <2>6. CASE Passed(x)
      <3>1. Running' = Running /\ \A d \in Running : call'[d].from = call[d].from
        BY <1>a, <1>c, <2>0 DEF Typed, Others, Answered
      <3> QED BY <2>3, <2>6, <3>1 DEF Passed
    <2> QED BY <2>4, <2>5, <2>6
  <1>3. ASSUME NEW c \in Calls, Leaves(c) PROVE Goal
    <2>0. Over(c)
      BY <1>3, <1>a, LeavesEffect
    <2>1. Gapless(x) /\ UNCHANGED <<keys, meant>>
      BY <2>0 DEF Over, Gapless
    <2>2. CASE x \in accepted
      <3>1. Passed(x) \/ Holds(origin[x], x)
        BY <1>b, <2>1, <2>2 DEF SettledShape
      <3>2. \A d \in Running' : d \in Running /\ call'[d] = call[d]
        BY <1>a, <1>c, <2>0 DEF Typed, Others, Over
      <3>3. accepted \subseteq accepted' /\ origin'[x] = origin[x]
        BY <2>0, <2>2 DEF Over
      <3>4. Passed(x) => Passed(x)'
        BY <3>2, <3>3 DEF Passed
      <3> QED BY <2>1, <3>1, <3>3, <3>4 DEF Holds
    <2>3. CASE x \notin accepted
      <3>1. Drew(c) /\ x = call[c].nonce /\ origin'[x] = call[c].from
        BY <2>0, <2>3 DEF Over
      <3>2. DrawnShape(c) /\ ~unsafe
        BY <2>1 DEF IInv, Draws, Gapless
      <3> QED BY <2>1, <3>1, <3>2 DEF DrawnShape, Holds
    <2> QED BY <2>2, <2>3
  <1>4. ASSUME NEW k \in Names, Expire(k) PROVE Goal
    <2>1. /\ UNCHANGED <<call, accepted, skipped, origin>> /\ Running' = Running
          /\ k \in keys /\ keys' = keys \ {k} /\ ~unsafe /\ ~Outlasted(k)
          /\ \A l \in Names : l # k => meant'[l] = meant[l]
      BY <1>4, <1>a DEF Expire, Running, Gapless, TypeOK
    <2>2. Gapless(x) /\ (Passed(x) \/ Holds(origin[x], x))
      BY <1>b, <2>1 DEF Gapless, SettledShape
    <2>3. CASE Passed(x)
      BY <2>1, <2>3 DEF Passed
    <2>4. CASE Holds(origin[x], x) /\ KeyOf(origin[x], x) # k
      <3>1. KeyOf(origin[x], x) \in Names
        BY <1>a, <2>4, HeldNames
      <3> QED BY <2>1, <2>4, <3>1 DEF Holds
    <2>5. CASE Holds(origin[x], x) /\ KeyOf(origin[x], x) = k
      <3>1. older[k] = {} /\ late[k] = {} /\ meant[k] = x
        BY <2>1, <2>5 DEF Outlasted, Holds
      <3>2. Below(k) /\ Awaits(k)
        BY <2>1, <2>2, <3>1 DEF IInv, KeyShape
      <3>3. \A d \in Running : call[d].from \in Nat /\ ~(call[d].from <= x)
        BY <1>a, <3>1, <3>2 DEF Awaits, Typed
      <3>4. \A d \in Running : x < call[d].from
        BY <3>3
      <3> QED BY <2>1, <3>1, <3>2, <3>4 DEF Below, Passed
    <2> QED BY <2>2, <2>3, <2>4, <2>5
  <1>5. ASSUME NEW n \in Nonces, Drop(n) PROVE Goal
    <2>1. /\ UNCHANGED <<keys, call, meant, unsafe>> /\ Running' = Running
          /\ accepted' = accepted \ {n} /\ skipped' = skipped \cup {n}
      BY <1>5 DEF Drop, Running
    <2>2. x \in accepted /\ Gapless(x) /\ n \notin 0 .. x
      BY <2>1 DEF Gapless
    <2>3. origin'[x] = origin[x]
      BY <1>5, <1>a, <2>1, <2>2 DEF Drop, TypeOK
    <2> QED BY <1>b, <2>1, <2>2, <2>3 DEF SettledShape, Passed, Holds
  <1> QED BY <1>1, <1>2, <1>3, <1>4, <1>5, NextCases

-----------------------------------------------------------------------------
(* The theorems. *)

(* The invariant holds at the start. *)
LEMMA InitInv == Init => IInv
  <1> SUFFICES ASSUME Init PROVE IInv
    OBVIOUS
  <1>1. TypeOK
    <2>1. call \in [Calls -> CallRec]
      BY IdleType DEF Init
    <2>2. older \in [Names -> SUBSET Running] /\ late = older
      BY DEF Init
    <2>3. accepted = {} /\ keys = {} /\ skipped = {} /\ faults = 0 /\ unsafe = FALSE
      BY DEF Init
    <2>4. 0 \in 0 .. MaxFaults /\ 0 \in Nonces
      OBVIOUS
    <2>5. meant \in [Names -> Nonces] /\ origin \in [Nonces -> Nonces]
      BY <2>4 DEF Init
    <2> QED BY <2>1, <2>2, <2>3, <2>4, <2>5 DEF TypeOK
  <1>2. \A c \in Calls : call[c] = Idle /\ ~Drew(c)
    BY IdleType DEF Init, Drew
  <1>3. Shape /\ Draws /\ Clash /\ \A c \in Calls : FromShape(c)
    BY <1>2, IdleType DEF Shape, CallShape, Draws, DrawnShape, Clash, ClashFree, FromShape
  <1>4. (\A k \in Names : KeyShape(k)) /\ \A n \in Nonces : SettledShape(n)
    BY DEF Init, KeyShape, SettledShape
  <1> QED BY <1>1, <1>3, <1>4 DEF IInv

(* Every step keeps the invariant. *)
LEMMA StepInv == IInv /\ [Next]_vars => IInv'
  <1> SUFFICES ASSUME IInv, [Next]_vars PROVE IInv'
    OBVIOUS
  <1>0. TypeOK /\ Shape /\ Draws /\ \A c \in Calls : FromShape(c)
    BY DEF IInv
  <1>1. CASE Next
    <2>1. Shape'
      BY <1>0, <1>1, CallShapeStep
    <2>2. TypeOK'
      BY <1>0, <1>1, <2>1, TypeStep
    <2>3. Draws' /\ Clash' /\ \A c \in Calls : FromShape(c)'
      BY <1>0, <1>1, DrawsStep, ClashStep, FromShapeStep DEF Draws, Clash
    <2>4. (\A k \in Names : KeyShape(k)') /\ \A n \in Nonces : SettledShape(n)'
      BY <1>1, <2>1, KeyShapeStep, SettledShapeStep
    <2> QED BY <2>1, <2>2, <2>3, <2>4 DEF IInv
  <1>2. CASE UNCHANGED vars
    <2>1. TypeOK' /\ Shape'
      BY <1>0, <1>2 DEF vars, TypeOK, Running, Shape, CallShape, Drew
    <2>2. Draws' /\ Clash' /\ \A c \in Calls : FromShape(c)'
      BY <1>2 DEF vars, IInv, Draws, DrawnShape, Holds, Clash, ClashFree, FromShape, Drew,
             Gapless
    <2>3. (\A k \in Names : KeyShape(k)') /\ \A n \in Nonces : SettledShape(n)'
      BY <1>2 DEF vars, IInv, KeyShape, Below, Awaits, SettledShape, Holds, Passed, Gapless,
             Drew, Running
    <2> QED BY <2>1, <2>2, <2>3 DEF IInv
  <1> QED BY <1>1, <1>2

(* The inductive invariant holds, for any constants that meet NonceAssumption. *)
THEOREM Inductive == Spec => []IInv
  BY InitInv, StepInv, PTL DEF Spec

(* Every variable keeps its type, and the calls a key waits for are running ones. *)
THEOREM TypeCorrect == Spec => []TypeOK
  <1>1. IInv => TypeOK
    BY DEF IInv
  <1> QED BY <1>1, Inductive, PTL

(* As long as the keys hold, no two of any number of publishers that were told the same      *)
(* index draw the same number, however many keys there are to check and whatever their names. *)
THEOREM DrawnOnceSafety == Spec => []DrawnOnce
  <1>1. IInv => DrawnOnce
    BY DEF IInv, Draws, DrawnShape, Drew, DrawnOnce, Running
  <1> QED BY <1>1, Inductive, PTL

(* A drawn number is one the node has a transaction for only above a gap, when a call        *)
(* outlasted a key or found all of them taken, or when that one was drawn from another index. *)
THEOREM ClashNeedsGapSafety == Spec => []ClashNeedsGap
  <1>1. IInv => ClashNeedsGap
    <2> SUFFICES ASSUME IInv, NEW c \in Running, Drew(c), call[c].nonce \in accepted, ~unsafe,
                        origin[call[c].nonce] = call[c].from
                 PROVE  \E m \in skipped : m <= call[c].nonce
      BY DEF ClashNeedsGap, IInv, TypeOK, Drew
    <2>1. Typed /\ c \in Calls
      BY TypedNow DEF IInv, Running
    <2>2. ClashFree(c)
      BY <2>1 DEF IInv, Clash
    <2>3. PICK m \in skipped : ~(call[c].nonce < m)
      BY <2>2 DEF ClashFree, Gapless
    <2>4. m \in Nat /\ call[c].nonce \in Nat
      BY <2>1 DEF Typed
    <2> QED BY <2>3, <2>4
  <1> QED BY <1>1, Inductive, PTL
=============================================================================
