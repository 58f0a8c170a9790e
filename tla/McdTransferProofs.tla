------------------------- MODULE McdTransferProofs -------------------------
(***************************************************************************)
(* Theorems about every instance of McdTransfer, in three layers.           *)
(*                                                                          *)
(* LockInv: the two locks.  They obey the same rule, so the rule is first   *)
(* taken apart from the state (Rule), each way in which a step may touch it *)
(* gets one lemma, and each action is then two uses of those.               *)
(*                                                                          *)
(* DataInv: the requests, the shared pages and the files, whatever fails.   *)
(*                                                                          *)
(* WholeInv: when nothing fails, how much of each entry is in its file.     *)
(*                                                                          *)
(* The first two hold while the daemon is not stopped (NoStop): stopping it *)
(* empties the ring under the CPUs that wait for their answers.             *)
(***************************************************************************)
EXTENDS McdTransfer, TLAPS

\* The prover of a leaf that names none.
USE Zenon

\* Discipline of a lock for any queue q; ret says that a message of the
\* type is being answered, sent by CPU who; p is the place of each CPU.
Rule(type, send, wait, lock, q, ret, who, p) ==
    /\ lock # NoOne => p[lock] \in {send, wait}
    /\ \A v \in Vcpus : p[v] = send => lock = v
    /\ \A i, j \in DOMAIN q : q[i].type = type /\ q[j].type = type => i = j
    /\ ret => \A i \in DOMAIN q : q[i].type # type
    /\ \A i \in DOMAIN q : q[i].type = type =>
         lock # NoOne /\ p[lock] = wait /\ q[i].from = lock
    /\ ret => lock # NoOne /\ p[lock] = wait /\ who = lock
    /\ lock # NoOne /\ p[lock] = wait =>
         ret \/ \E i \in DOMAIN q : q[i].type = type

PutRule == Rule("PUT", "out_send", "out_wait", putLock, queue,
                Returning("PUT"), rsp.from, pc)

GetRule == Rule("GET", "in_send", "in_wait", getLock, queue,
                Returning("GET"), rsp.from, pc)

\* LockDiscipline is the rule of each of its two locks.
LEMMA DisciplineIsRule == LockDiscipline <=> PutRule /\ GetRule
  BY DEF LockDiscipline, PutRule, GetRule, Rule, Discipline, Flying

\* Nobody answers a message of this type, so who sent it does not matter.
LEMMA NotReturning ==
  ASSUME NEW type, NEW send, NEW wait, NEW lock, NEW q, NEW who, NEW who2, NEW p,
         Rule(type, send, wait, lock, q, FALSE, who, p)
  PROVE  Rule(type, send, wait, lock, q, FALSE, who2, p)
  BY DEF Rule

\* What appending does to the messages on the ring.
LEMMA AppendFacts ==
  ASSUME NEW q \in Seq(Message), NEW m \in Message
  PROVE  /\ Append(q, m) \in Seq(Message)
         /\ DOMAIN Append(q, m) = DOMAIN q \cup {Len(q) + 1}
         /\ Len(q) + 1 \notin DOMAIN q
         /\ \A i \in DOMAIN q : Append(q, m)[i] = q[i]
         /\ Append(q, m)[Len(q) + 1] = m
  BY SMT

\* What taking the first message does to the others.
LEMMA TailFacts ==
  ASSUME NEW q \in Seq(Message), q # <<>>
  PROVE  /\ Tail(q) \in Seq(Message) /\ Head(q) = q[1] /\ 1 \in DOMAIN q
         /\ Head(q) \in Message
         /\ \A i \in DOMAIN Tail(q) : /\ i + 1 \in DOMAIN q /\ Tail(q)[i] = q[i + 1]
                                      /\ i \in Nat /\ i + 1 # 1
         /\ \A i \in DOMAIN q : i # 1 => /\ i - 1 \in DOMAIN Tail(q)
                                         /\ Tail(q)[i - 1] = q[i]
  BY SMT

\* A message of another type is sent.
LEMMA OtherSent ==
  ASSUME NEW type, NEW send, NEW wait, NEW lock,
         NEW q \in Seq(Message), NEW m \in Message, NEW ret, NEW who, NEW p,
         Rule(type, send, wait, lock, q, ret, who, p), m.type # type
  PROVE  Rule(type, send, wait, lock, Append(q, m), ret, who, p)
  BY AppendFacts, SMT DEF Rule

\* The answer is followed by the request for the next part.
LEMMA Continued ==
  ASSUME NEW type, NEW send, NEW wait, NEW lock, NEW q \in Seq(Message),
         NEW m \in Message, NEW who, NEW who2, NEW p,
         Rule(type, send, wait, lock, q, TRUE, who, p), m.type = type, m.from = who
  PROVE  Rule(type, send, wait, lock, Append(q, m), FALSE, who2, p)
  BY AppendFacts, SMT DEF Rule

\* The daemon takes a message of this type and answers it.
LEMMA Answered ==
  ASSUME NEW type, NEW send, NEW wait, NEW lock, NEW q \in Seq(Message), q # <<>>,
         NEW who, NEW p,
         Rule(type, send, wait, lock, q, FALSE, who, p), Head(q).type = type
  PROVE  Rule(type, send, wait, lock, Tail(q), TRUE, Head(q).from, p)
  BY TailFacts, SMT DEF Rule

\* The daemon takes a message of another type.
LEMMA OtherTaken ==
  ASSUME NEW type, NEW send, NEW wait, NEW lock, NEW q \in Seq(Message), q # <<>>,
         NEW who, NEW who2, NEW p,
         Rule(type, send, wait, lock, q, FALSE, who, p), Head(q).type # type
  PROVE  Rule(type, send, wait, lock, Tail(q), FALSE, who2, p)
  <1>1. /\ Head(q) = q[1] /\ 1 \in DOMAIN q
        /\ \A i \in DOMAIN Tail(q) : /\ i + 1 \in DOMAIN q /\ Tail(q)[i] = q[i + 1]
                                     /\ i \in Nat
        /\ \A i \in DOMAIN q : i # 1 => /\ i - 1 \in DOMAIN Tail(q)
                                        /\ Tail(q)[i - 1] = q[i]
    BY TailFacts
  <1>2. \A i, j \in DOMAIN Tail(q) :
           Tail(q)[i].type = type /\ Tail(q)[j].type = type => i = j
    BY <1>1, SMT DEF Rule
  <1>3. \A i \in DOMAIN Tail(q) : Tail(q)[i].type = type =>
           lock # NoOne /\ p[lock] = wait /\ Tail(q)[i].from = lock
    BY <1>1, SMT DEF Rule
  <1>4. ASSUME lock # NoOne, p[lock] = wait
        PROVE  \E i \in DOMAIN Tail(q) : Tail(q)[i].type = type
    <2>1. PICK i \in DOMAIN q : q[i].type = type
      BY <1>4 DEF Rule
    <2>2. i # 1
      BY <2>1, <1>1
    <2>3. QED
      BY <2>1, <2>2, <1>1
  <1>5. QED
    BY <1>2, <1>3, <1>4 DEF Rule

\* Messages are built from the fields of the request structure.
LEMMA MsgType ==
  ASSUME NEW v \in Vcpus \cup {NoOne}, NEW k \in Keys, NEW fl \in SUBSET {"NEW"},
         NEW t \in {"PUT", "GET", "DEL", "DOM_FLUSH", "ADD_SHARED_PAGE", "NONE"}
  PROVE  /\ Msg(t, v, k, fl) \in Message
         /\ Msg(t, v, k, fl).type = t /\ Msg(t, v, k, fl).from = v
         /\ Msg(t, v, k, fl).flags = fl
  BY SMT DEF Msg, Message

\* A part of a page-out is a PUT request of its sender that is not an END.
LEMMA OutPartType ==
  ASSUME NEW v \in Vcpus \cup {NoOne}, NEW k \in Keys, NEW acc \in Int,
         NEW new \in SUBSET {"NEW"}, npages \in Nat
  PROVE  LET m == OutPart(v, k, acc, new) IN
         m \in Message /\ m.type = "PUT" /\ m.from = v /\ "END" \notin m.flags
  <1> DEFINE left == SizeOf[k] - acc
             cur == Smaller(left, Capacity)
  <1>1. left \in Int /\ Capacity \in Int /\ cur \in Int
    BY TransferConstants, SMT DEF Capacity, Smaller
  <1> DEFINE fl == new \cup (IF left > PageSize THEN {"CONT"} ELSE {})
                       \cup (IF left <= Capacity THEN {"FINAL"} ELSE {})
  <1>2. fl \in SUBSET {"NEW", "CONT", "FINAL", "END", "ERROR"} /\ "END" \notin fl
    OBVIOUS
  <1>3. OutPart(v, k, acc, new) =
          [type |-> "PUT", key |-> k, from |-> v, flags |-> fl,
           acc |-> acc + cur, cur |-> cur]
    BY DEF OutPart, Msg
  <1> HIDE DEF left, cur, fl
  <1>4. QED
    BY <1>1, <1>2, <1>3, SMT DEF Message

---------------------------------------------------------------------------
\* The rules in the next state.
LEMMA DisciplineIsRuleNext == LockDiscipline' <=> PutRule' /\ GetRule'
  BY DEF LockDiscipline, PutRule, GetRule, Rule, Discipline, Flying

\* The facts of LockInv other than the rules.
Shape ==
    /\ enabled /\ daemon \in {"poll", "resume"}
    /\ queue \in Seq(Message) /\ rsp \in Message /\ npages \in Nat
    /\ putLock \in Vcpus \cup {NoOne} /\ getLock \in Vcpus \cup {NoOne}
    /\ pc \in [Vcpus -> Places] /\ job \in [Vcpus -> Keys]
    /\ \A i \in DOMAIN queue : "END" \notin queue[i].flags
    /\ rsp.type \in {"PUT", "GET"} => "END" \notin rsp.flags

\* LockInv is the shape and the two rules.
LEMMA InvParts == LockInv <=> Shape /\ PutRule /\ GetRule
  BY DisciplineIsRule DEF LockInv, Shape

\* The same in the next state.
LEMMA InvPartsNext == LockInv' <=> Shape' /\ PutRule' /\ GetRule'
  BY DisciplineIsRuleNext DEF LockInv, Shape

\* A CPU whose place is neither sending nor waiting holds no lock.
LEMMA NotHolder ==
  ASSUME LockInv, NEW v \in Vcpus
  PROVE  /\ pc[v] \notin {"out_send", "out_wait"} => putLock # v
         /\ pc[v] \notin {"in_send", "in_wait"} => getLock # v
  BY InvParts, TransferConstants DEF PutRule, GetRule, Rule

\* Of the CPUs only v moves.
Moved(v) == pc' \in [Vcpus -> Places] /\ \A w \in Vcpus \ {v} : pc'[w] = pc[w]

\* A CPU that holds no lock moves, and nothing else of the protocol does.
LEMMA PcMove ==
  ASSUME LockInv, NEW v \in Vcpus, putLock # v, getLock # v, Moved(v),
         pc'[v] \notin {"out_send", "in_send"}, job' \in [Vcpus -> Keys],
         UNCHANGED <<enabled, locks, queue, daemon, rsp, npages>>
  PROVE  LockInv'
  <1>1. Shape /\ PutRule /\ GetRule
    BY InvParts
  <1>2. Shape'
    BY <1>1 DEF Shape, Moved, locks
  <1>3. /\ Returning("PUT")' = Returning("PUT") /\ Returning("GET")' = Returning("GET")
        /\ Returning("PUT") \in BOOLEAN /\ Returning("GET") \in BOOLEAN
    BY DEF Returning
  <1>4. PutRule'
    BY <1>1, <1>3, TransferConstants DEF PutRule, Rule, Moved, Shape, locks
  <1>5. GetRule'
    BY <1>1, <1>3, TransferConstants DEF GetRule, Rule, Moved, Shape, locks
  <1>6. QED
    BY <1>2, <1>4, <1>5, InvPartsNext

\* The same, and a message that is part of no transfer is sent.
LEMMA PcMoveAndSend ==
  ASSUME LockInv, NEW v \in Vcpus, NEW m \in Message, putLock # v, getLock # v,
         Moved(v), pc'[v] \notin {"out_send", "in_send"}, queue' = Append(queue, m),
         m.type \notin {"PUT", "GET"}, "END" \notin m.flags,
         UNCHANGED <<enabled, locks, daemon, rsp, npages, job>>
  PROVE  LockInv'
  <1>1. Shape /\ PutRule /\ GetRule
    BY InvParts
  <1>2. Shape'
    BY <1>1, AppendFacts, SMT DEF Shape, Moved, locks
  <1>3. /\ Returning("PUT")' = Returning("PUT") /\ Returning("GET")' = Returning("GET")
        /\ Returning("PUT") \in BOOLEAN /\ Returning("GET") \in BOOLEAN
    BY DEF Returning
  <1>4. PutRule'
    <2>1. Rule("PUT", "out_send", "out_wait", putLock, queue, Returning("PUT"),
               rsp.from, pc')
      BY <1>1, <1>3, TransferConstants DEF PutRule, Rule, Moved, Shape
    <2>2. QED
      BY <2>1, <1>1, <1>3, OtherSent DEF PutRule, Moved, Shape, locks
  <1>5. GetRule'
    <2>1. Rule("GET", "in_send", "in_wait", getLock, queue, Returning("GET"),
               rsp.from, pc')
      BY <1>1, <1>3, TransferConstants DEF GetRule, Rule, Moved, Shape
    <2>2. QED
      BY <2>1, <1>1, <1>3, OtherSent DEF GetRule, Moved, Shape, locks
  <1>6. QED
    BY <1>2, <1>4, <1>5, InvPartsNext

---------------------------------------------------------------------------
(* The steps of the CPUs.                                                   *)

\* Starting a page-out.
LEMMA OutStartInv ==
  ASSUME LockInv, NEW v \in Vcpus, NEW k \in Keys, OutStart(v, k)
  PROVE  LockInv'
  <1>1. putLock # v /\ getLock # v
    BY NotHolder DEF OutStart
  <1>2. job' \in [Vcpus -> Keys]
    BY DEF OutStart, LockInv
  <1>3. Moved(v) /\ pc'[v] = "out_lock"
    BY DEF OutStart, Goto, Moved, LockInv, Places, Sending
  <1>4. QED
    BY <1>1, <1>2, <1>3, PcMove DEF OutStart, locks

\* Starting a page-in.
LEMMA InStartInv ==
  ASSUME LockInv, NEW v \in Vcpus, NEW k \in Keys, InStart(v, k)
  PROVE  LockInv'
  <1>1. putLock # v /\ getLock # v
    BY NotHolder DEF InStart
  <1>2. job' \in [Vcpus -> Keys]
    BY DEF InStart, LockInv
  <1>3. Moved(v) /\ pc'[v] = "in_lock"
    BY DEF InStart, Goto, Moved, LockInv, Places, Sending
  <1>4. QED
    BY <1>1, <1>2, <1>3, PcMove DEF InStart, locks

\* The end of a page-out: the lock has been released by the daemon.
LEMMA OutWaitInv ==
  ASSUME LockInv, NEW v \in Vcpus, OutWait(v)
  PROVE  LockInv'
  <1>1. putLock # v /\ getLock # v
    BY NotHolder, TransferConstants DEF OutWait
  <1>2. enabled /\ job' \in [Vcpus -> Keys]
    BY DEF OutWait, LockInv
  <1>3. Moved(v) /\ pc'[v] = "idle"
    BY <1>2 DEF OutWait, Goto, Moved, LockInv, Places, Sending
  <1>4. QED
    BY <1>1, <1>2, <1>3, PcMove DEF OutWait, locks

\* The end of a page-in: the lock has been released by the daemon.
LEMMA InWaitInv ==
  ASSUME LockInv, NEW v \in Vcpus, InWait(v)
  PROVE  LockInv'
  <1>1. putLock # v /\ getLock # v
    BY NotHolder, TransferConstants DEF InWait
  <1>2. job' \in [Vcpus -> Keys]
    BY DEF InWait, LockInv
  <1>3. Moved(v) /\ pc'[v] = "got"
    BY DEF InWait, Goto, Moved, LockInv, Places, Sending
  <1>4. QED
    BY <1>1, <1>2, <1>3, PcMove DEF InWait, locks

\* The value paged in is returned.
LEMMA InReturnInv ==
  ASSUME LockInv, NEW v \in Vcpus, InReturn(v)
  PROVE  LockInv'
  <1>1. putLock # v /\ getLock # v
    BY NotHolder DEF InReturn
  <1>2. job' \in [Vcpus -> Keys]
    BY DEF InReturn, LockInv
  <1>3. Moved(v) /\ pc'[v] = "idle"
    BY DEF InReturn, Goto, Moved, LockInv, Places, Sending
  <1>4. QED
    BY <1>1, <1>2, <1>3, PcMove DEF InReturn, locks

\* The list is emptied by a flush.
LEMMA FlushListInv ==
  ASSUME LockInv, NEW v \in Vcpus, FlushList(v)
  PROVE  LockInv'
  <1>1. putLock # v /\ getLock # v
    BY NotHolder DEF FlushList
  <1>2. job' \in [Vcpus -> Keys]
    BY DEF FlushList, LockInv
  <1>3. Moved(v) /\ pc'[v] = "flush"
    BY DEF FlushList, Goto, Moved, LockInv, Places, Sending
  <1>4. QED
    BY <1>1, <1>2, <1>3, PcMove DEF FlushList, locks

\* A message of no transfer is sent, or the ring is full.
LEMMA SendInv ==
  ASSUME LockInv, NEW v \in Vcpus, pc[v] \in {"idle", "flush"},
         NEW t \in {"DEL", "DOM_FLUSH", "ADD_SHARED_PAGE"}, NEW k \in Keys,
         pc' = [pc EXCEPT ![v] = "idle"],
         \/ queue' = queue
         \/ queue' = Append(queue, Msg(t, v, k, {})),
         UNCHANGED <<enabled, locks, daemon, rsp, npages, job>>
  PROVE  LockInv'
  <1>1. putLock # v /\ getLock # v
    BY NotHolder
  <1>2. job' \in [Vcpus -> Keys]
    BY DEF LockInv
  <1> Moved(v) /\ pc'[v] = "idle"
    BY DEF Moved, LockInv, Places, Sending
  <1>3. CASE queue' = queue
    BY <1>1, <1>2, <1>3, PcMove
  <1>4. CASE queue' = Append(queue, Msg(t, v, k, {}))
    <2>1. /\ Msg(t, v, k, {}) \in Message /\ Msg(t, v, k, {}).type \notin {"PUT", "GET"}
          /\ "END" \notin Msg(t, v, k, {}).flags
      <3>1. {} \in SUBSET {"NEW"}
        OBVIOUS
      <3>2. QED
        BY <3>1, MsgType, SMT
    <2>2. QED
      BY <1>1, <1>4, <2>1, PcMoveAndSend
  <1>5. QED
    BY <1>3, <1>4

\* A put or a remove tells the daemon to delete the file.
LEMMA DelInv ==
  ASSUME LockInv, NEW v \in Vcpus, NEW k \in Keys, Del(v, k)
  PROVE  LockInv'
  <1>1. pc' = [pc EXCEPT ![v] = "idle"] /\ pc[v] = "idle"
    BY DEF Del, cpu, LockInv
  <1>2. queue' = queue \/ queue' = Append(queue, Msg("DEL", v, k, {}))
    BY DEF Del
  <1>3. UNCHANGED <<enabled, locks, daemon, rsp, npages, job>>
    BY DEF Del, cpu
  <1>4. QED
    BY <1>1, <1>2, <1>3, SendInv

\* A flush tells the daemon.
LEMMA FlushSendInv ==
  ASSUME LockInv, NEW v \in Vcpus, FlushSend(v)
  PROVE  LockInv'
  <1>1. pc' = [pc EXCEPT ![v] = "idle"] /\ pc[v] = "flush"
    BY DEF FlushSend, Goto
  <1>2. /\ queue' = queue \/ queue' = Append(queue, Msg("DOM_FLUSH", v, job[v], {}))
        /\ job[v] \in Keys
    BY DEF FlushSend, LockInv
  <1>3. UNCHANGED <<enabled, locks, daemon, rsp, npages, job>>
    BY DEF FlushSend
  <1>4. QED
    BY <1>1, <1>2, <1>3, SendInv

\* The daemon is asked for another shared page.
LEMMA AddSharedPageInv ==
  ASSUME LockInv, NEW v \in Vcpus, AddSharedPage(v)
  PROVE  LockInv'
  <1>1. pc' = [pc EXCEPT ![v] = "idle"] /\ pc[v] = "idle"
    BY DEF AddSharedPage, cpu, LockInv
  <1>2. /\ queue' = queue \/ queue' = Append(queue, Msg("ADD_SHARED_PAGE", v, job[v], {}))
        /\ job[v] \in Keys
    BY DEF AddSharedPage, LockInv
  <1>3. UNCHANGED <<enabled, locks, daemon, rsp, npages, job>>
    BY DEF AddSharedPage, cpu
  <1>4. QED
    BY <1>1, <1>2, <1>3, SendInv

\* The put lock is taken.
LEMMA OutLockInv ==
  ASSUME LockInv, NEW v \in Vcpus, OutLock(v)
  PROVE  LockInv'
  <1>1. Shape /\ PutRule /\ GetRule /\ getLock # v
    BY InvParts, NotHolder DEF OutLock
  <1>2. Moved(v) /\ pc'[v] = "out_send" /\ putLock' = v /\ putLock = NoOne
    BY DEF OutLock, Goto, Moved, LockInv, Places, Sending
  <1>3. UNCHANGED <<enabled, getLock, queue, daemon, rsp, npages, job>>
    BY DEF OutLock
  <1>4. Shape'
    BY <1>1, <1>2, <1>3 DEF Shape, Moved
  <1>5. Returning("PUT")' = Returning("PUT") /\ Returning("GET")' = Returning("GET")
    BY <1>3 DEF Returning
  <1>6. PutRule'
    BY <1>1, <1>2, <1>3, <1>5, TransferConstants DEF PutRule, Rule, Moved, Shape
  <1>7. GetRule'
    BY <1>1, <1>2, <1>3, <1>5, TransferConstants DEF GetRule, Rule, Moved, Shape
  <1>8. QED
    BY <1>4, <1>6, <1>7, InvPartsNext

\* The get lock is taken.
LEMMA InLockInv ==
  ASSUME LockInv, NEW v \in Vcpus, InLock(v)
  PROVE  LockInv'
  <1>1. Shape /\ PutRule /\ GetRule /\ putLock # v
    BY InvParts, NotHolder DEF InLock
  <1>2. Moved(v) /\ pc'[v] = "in_send" /\ getLock' = v /\ getLock = NoOne
    BY DEF InLock, Goto, Moved, LockInv, Places, Sending
  <1>3. UNCHANGED <<enabled, putLock, queue, daemon, rsp, npages, job>>
    BY DEF InLock
  <1>4. Shape'
    BY <1>1, <1>2, <1>3 DEF Shape, Moved
  <1>5. Returning("PUT")' = Returning("PUT") /\ Returning("GET")' = Returning("GET")
    BY <1>3 DEF Returning
  <1>6. PutRule'
    BY <1>1, <1>2, <1>3, <1>5, TransferConstants, SMT DEF PutRule, Rule, Moved, Shape
  <1>7. GetRule'
    BY <1>1, <1>2, <1>3, <1>5, TransferConstants DEF GetRule, Rule, Moved, Shape
  <1>8. QED
    BY <1>4, <1>6, <1>7, InvPartsNext

\* The first part of a page-out is sent, or the lock is given back.
LEMMA OutSendInv ==
  ASSUME LockInv, NEW v \in Vcpus, OutSend(v)
  PROVE  LockInv'
  <1>1. Shape /\ PutRule /\ GetRule /\ getLock # v /\ pc[v] = "out_send" /\ putLock = v
    <2>1. pc[v] = "out_send"
      BY DEF OutSend
    <2>2. QED
      BY <2>1, InvParts, NotHolder DEF PutRule, Rule
  <1>2. UNCHANGED <<enabled, getLock, daemon, rsp, npages, job>>
    BY DEF OutSend
  <1>3. Returning("PUT")' = Returning("PUT") /\ Returning("GET")' = Returning("GET")
    BY <1>2 DEF Returning
  <1>4. CASE putLock' = NoOne /\ Goto(v, "idle") /\ queue' = queue
    <2>1. Moved(v) /\ pc'[v] = "idle"
      BY <1>4 DEF Goto, Moved, LockInv, Places, Sending
    <2>2. Shape'
      BY <1>1, <1>2, <1>4, <2>1 DEF Shape, Moved
    <2>3. PutRule'
      BY <1>1, <1>2, <1>3, <1>4, <2>1, TransferConstants DEF PutRule, Rule, Moved, Shape
    <2>4. GetRule'
      BY <1>1, <1>2, <1>3, <1>4, <2>1, TransferConstants, SMT DEF GetRule, Rule, Moved, Shape
    <2>5. QED
      BY <2>2, <2>3, <2>4, InvPartsNext
  <1>5. CASE /\ queue' = Append(queue, OutPart(v, job[v], 0, {"NEW"}))
             /\ Goto(v, "out_wait") /\ putLock' = putLock
    <2> DEFINE m == OutPart(v, job[v], 0, {"NEW"})
    <2>1. m \in Message /\ m.type = "PUT" /\ m.from = v /\ "END" \notin m.flags
      <3>1. job[v] \in Keys /\ npages \in Nat /\ {"NEW"} \in SUBSET {"NEW"} /\ 0 \in Int
        BY <1>1, SMT DEF Shape
      <3>2. QED
        BY <3>1, OutPartType
    <2> HIDE DEF m
    <2>2. Moved(v) /\ pc'[v] = "out_wait"
      BY <1>5 DEF Goto, Moved, LockInv, Places, Sending
    <2>3. queue' = Append(queue, m) /\ queue \in Seq(Message) /\ UNCHANGED locks
      BY <1>1, <1>2, <1>5 DEF m, Shape, locks
    <2>4. Shape'
      BY <1>1, <1>2, <2>1, <2>2, <2>3, AppendFacts, SMT DEF Shape, Moved, locks
    <2>5. PutRule'
      BY <1>1, <1>2, <1>3, <2>1, <2>2, <2>3, AppendFacts, TransferConstants
     , SMT DEF PutRule, Rule, Moved, Shape, locks
    <2>6. GetRule'
      BY <1>1, <1>2, <1>3, <2>1, <2>2, <2>3, AppendFacts, TransferConstants
     , SMT DEF GetRule, Rule, Moved, Shape, locks
    <2>7. QED
      BY <2>4, <2>5, <2>6, InvPartsNext
  <1>6. QED
    BY <1>4, <1>5 DEF OutSend

\* The request for a page-in is sent, or the lock is given back.
LEMMA InSendInv ==
  ASSUME LockInv, NEW v \in Vcpus, InSend(v)
  PROVE  LockInv'
  <1>1. Shape /\ PutRule /\ GetRule /\ putLock # v /\ pc[v] = "in_send" /\ getLock = v
    <2>1. pc[v] = "in_send"
      BY DEF InSend
    <2>2. QED
      BY <2>1, InvParts, NotHolder DEF GetRule, Rule
  <1>2. UNCHANGED <<enabled, putLock, daemon, rsp, npages, job>>
    BY DEF InSend
  <1>3. Returning("PUT")' = Returning("PUT") /\ Returning("GET")' = Returning("GET")
    BY <1>2 DEF Returning
  <1>4. CASE getLock' = NoOne /\ Goto(v, "got") /\ queue' = queue
    <2>1. Moved(v) /\ pc'[v] = "got"
      BY <1>4 DEF Goto, Moved, LockInv, Places, Sending
    <2>2. Shape'
      BY <1>1, <1>2, <1>4, <2>1 DEF Shape, Moved
    <2>3. PutRule'
      BY <1>1, <1>2, <1>3, <1>4, <2>1, TransferConstants, SMT DEF PutRule, Rule, Moved, Shape
    <2>4. GetRule'
      BY <1>1, <1>2, <1>3, <1>4, <2>1, TransferConstants DEF GetRule, Rule, Moved, Shape
    <2>5. QED
      BY <2>2, <2>3, <2>4, InvPartsNext
  <1>5. CASE /\ queue' = Append(queue, Msg("GET", v, job[v], {"NEW"}))
             /\ Goto(v, "in_wait") /\ getLock' = getLock
    <2> DEFINE m == Msg("GET", v, job[v], {"NEW"})
    <2>1. m \in Message /\ m.type = "GET" /\ m.from = v /\ "END" \notin m.flags
      <3>1. job[v] \in Keys /\ {"NEW"} \in SUBSET {"NEW"}
        BY <1>1 DEF Shape
      <3>2. QED
        BY <3>1, MsgType, SMT
    <2> HIDE DEF m
    <2>2. Moved(v) /\ pc'[v] = "in_wait"
      BY <1>5 DEF Goto, Moved, LockInv, Places, Sending
    <2>3. queue' = Append(queue, m) /\ queue \in Seq(Message) /\ UNCHANGED locks
      BY <1>1, <1>2, <1>5 DEF m, Shape, locks
    <2>4. Shape'
      BY <1>1, <1>2, <2>1, <2>2, <2>3, AppendFacts, SMT DEF Shape, Moved, locks
    <2>5. PutRule'
      BY <1>1, <1>2, <1>3, <2>1, <2>2, <2>3, AppendFacts, TransferConstants
     , SMT DEF PutRule, Rule, Moved, Shape, locks
    <2>6. GetRule'
      BY <1>1, <1>2, <1>3, <2>1, <2>2, <2>3, AppendFacts, TransferConstants
     , SMT DEF GetRule, Rule, Moved, Shape, locks
    <2>7. QED
      BY <2>4, <2>5, <2>6, InvPartsNext
  <1>6. QED
    BY <1>4, <1>5 DEF InSend

---------------------------------------------------------------------------
(* The steps of the daemon.                                                 *)

\* The daemon takes a request and prepares the answer r to it.
LEMMA ServeInv ==
  ASSUME LockInv, daemon = "poll", queue # <<>>, queue' = Tail(queue),
         daemon' = "resume", rsp' \in Message,
         rsp'.type = Head(queue).type, rsp'.from = Head(queue).from,
         rsp'.type \in {"PUT", "GET"} => "END" \notin rsp'.flags,
         UNCHANGED <<enabled, locks, npages, pc, job>>
  PROVE  LockInv'
  <1>1. Shape /\ PutRule /\ GetRule
    BY InvParts
  <1>2. queue \in Seq(Message)
    BY <1>1 DEF Shape
  <1>3. Shape'
    BY <1>1, <1>2, TailFacts, SMT DEF Shape, locks
  <1>4. /\ Returning("PUT") = FALSE /\ Returning("GET") = FALSE
        /\ Returning("PUT")' = (rsp'.type = "PUT")
        /\ Returning("GET")' = (rsp'.type = "GET")
    BY DEF Returning
  <1>5. PutRule'
    <2>1. Rule("PUT", "out_send", "out_wait", putLock, queue, FALSE, rsp.from, pc)
      BY <1>1, <1>4 DEF PutRule
    <2>2. CASE Head(queue).type = "PUT"
      <3>1. Rule("PUT", "out_send", "out_wait", putLock, Tail(queue), TRUE,
                 Head(queue).from, pc)
        BY <1>2, <2>1, <2>2, Answered
      <3>2. QED
        BY <3>1, <2>2, <1>4 DEF PutRule, locks
    <2>3. CASE Head(queue).type # "PUT"
      <3>1. Rule("PUT", "out_send", "out_wait", putLock, Tail(queue), FALSE,
                 rsp'.from, pc)
        BY <1>2, <2>1, <2>3, OtherTaken
      <3>2. QED
        BY <3>1, <2>3, <1>4 DEF PutRule, locks
    <2>4. QED
      BY <2>2, <2>3
  <1>6. GetRule'
    <2>1. Rule("GET", "in_send", "in_wait", getLock, queue, FALSE, rsp.from, pc)
      BY <1>1, <1>4 DEF GetRule
    <2>2. CASE Head(queue).type = "GET"
      <3>1. Rule("GET", "in_send", "in_wait", getLock, Tail(queue), TRUE,
                 Head(queue).from, pc)
        BY <1>2, <2>1, <2>2, Answered
      <3>2. QED
        BY <3>1, <2>2, <1>4 DEF GetRule, locks
    <2>3. CASE Head(queue).type # "GET"
      <3>1. Rule("GET", "in_send", "in_wait", getLock, Tail(queue), FALSE,
                 rsp'.from, pc)
        BY <1>2, <2>1, <2>3, OtherTaken
      <3>2. QED
        BY <3>1, <2>3, <1>4 DEF GetRule, locks
    <2>4. QED
      BY <2>2, <2>3
  <1>7. QED
    BY <1>3, <1>5, <1>6, InvPartsNext

Flags == {"NEW", "CONT", "FINAL", "END", "ERROR"}

\* The answer to m has the type and the sender of m, and not NEW.
LEMMA RespondType ==
  ASSUME NEW m \in Message, NEW fl \in SUBSET Flags, NEW c \in Int, Respond(m, fl, c)
  PROVE  /\ daemon' = "resume" /\ rsp' \in Message
         /\ rsp'.type = m.type /\ rsp'.from = m.from /\ rsp'.flags = fl \ {"NEW"}
  BY DEF Respond, Message, Flags

\* What the daemon finds at the head of the ring.
LEMMA HeadType ==
  ASSUME LockInv, queue # <<>>
  PROVE  /\ Head(queue) \in Message /\ Head(queue).flags \in SUBSET Flags
         /\ "END" \notin Head(queue).flags
  <1>1. queue \in Seq(Message) /\ \A i \in DOMAIN queue : "END" \notin queue[i].flags
    BY DEF LockInv
  <1>2. Head(queue) \in Message /\ Head(queue) = queue[1] /\ 1 \in DOMAIN queue
    BY <1>1, TailFacts
  <1>3. QED
    BY <1>1, <1>2 DEF Message, Flags

\* Writing a part to the file, or failing to open it.
LEMMA ServePutInv == LockInv /\ ServePut => LockInv'
  <1> SUFFICES ASSUME LockInv, ServePut PROVE LockInv'
    OBVIOUS
  <1> DEFINE h == Head(queue)
  <1>1. /\ daemon = "poll" /\ queue # <<>> /\ queue' = Tail(queue)
        /\ UNCHANGED <<enabled, locks, npages, pc, job>>
    BY DEF ServePut, Request, cpu
  <1>2. h \in Message /\ h.flags \in SUBSET Flags /\ "END" \notin h.flags
    BY <1>1, HeadType
  <1>3. \/ Respond(h, h.flags, 0)
        \/ Respond(h, h.flags \cup {"ERROR"}, h.cur)
    BY DEF ServePut
  <1> HIDE DEF h
  <1>4. /\ daemon' = "resume" /\ rsp' \in Message /\ rsp'.type = h.type
        /\ rsp'.from = h.from /\ "END" \notin rsp'.flags
    <2>1. CASE Respond(h, h.flags, 0)
      BY <1>2, <2>1, RespondType, SMT
    <2>2. CASE Respond(h, h.flags \cup {"ERROR"}, h.cur)
      <3>1. /\ h.flags \cup {"ERROR"} \in SUBSET Flags /\ h.cur \in Int
            /\ "END" \notin h.flags \cup {"ERROR"}
        BY <1>2 DEF Flags, Message
      <3>2. QED
        BY <1>2, <2>2, <3>1, RespondType
    <2>3. QED
      BY <1>3, <2>1, <2>2
  <1>5. QED
    BY <1>1, <1>4, ServeInv DEF h

\* Deleting a file.
LEMMA ServeDelInv == LockInv /\ ServeDel => LockInv'
  <1> SUFFICES ASSUME LockInv, ServeDel PROVE LockInv'
    OBVIOUS
  <1> DEFINE h == Head(queue)
  <1>1. /\ daemon = "poll" /\ queue # <<>> /\ queue' = Tail(queue) /\ h.type = "DEL"
        /\ UNCHANGED <<enabled, locks, npages, pc, job>>
        /\ Respond(h, {"END"}, 0)
    BY DEF ServeDel, Request, cpu
  <1>2. h \in Message /\ {"END"} \in SUBSET Flags
    BY <1>1, HeadType DEF Flags
  <1> HIDE DEF h
  <1>3. daemon' = "resume" /\ rsp' \in Message /\ rsp'.type = h.type /\ rsp'.from = h.from
    BY <1>1, <1>2, RespondType, SMT
  <1>4. QED
    BY <1>1, <1>3, ServeInv DEF h

\* Deleting all files of the domain.
LEMMA ServeDomFlushInv == LockInv /\ ServeDomFlush => LockInv'
  <1> SUFFICES ASSUME LockInv, ServeDomFlush PROVE LockInv'
    OBVIOUS
  <1> DEFINE h == Head(queue)
  <1>1. /\ daemon = "poll" /\ queue # <<>> /\ queue' = Tail(queue) /\ h.type = "DOM_FLUSH"
        /\ UNCHANGED <<enabled, locks, npages, pc, job>>
        /\ Respond(h, {"END"}, 0)
    BY DEF ServeDomFlush, Request, cpu
  <1>2. h \in Message /\ {"END"} \in SUBSET Flags
    BY <1>1, HeadType DEF Flags
  <1> HIDE DEF h
  <1>3. daemon' = "resume" /\ rsp' \in Message /\ rsp'.type = h.type /\ rsp'.from = h.from
    BY <1>1, <1>2, RespondType, SMT
  <1>4. QED
    BY <1>1, <1>3, ServeInv DEF h

\* Reading a part of the file, or failing to open it.
LEMMA ServeGetInv == LockInv /\ ServeGet => LockInv'
  <1> SUFFICES ASSUME LockInv, ServeGet PROVE LockInv'
    OBVIOUS
  <1> DEFINE h == Head(queue)
             left == SizeOf[h.key] - h.acc
             cur == Smaller(left, Capacity)
             fl == h.flags \cup (IF left >= PageSize THEN {"CONT"} ELSE {})
                           \cup (IF left <= Capacity THEN {"FINAL"} ELSE {})
  <1>1. /\ daemon = "poll" /\ queue # <<>> /\ queue' = Tail(queue)
        /\ UNCHANGED <<enabled, locks, npages, pc, job>>
    BY DEF ServeGet, Request, cpu
  <1>2. h \in Message /\ h.flags \in SUBSET Flags /\ "END" \notin h.flags
    BY <1>1, HeadType
  <1>3. Respond(h, fl, cur) \/ Respond(h, h.flags \cup {"ERROR"}, h.cur)
    BY DEF ServeGet
  <1>4. fl \in SUBSET Flags /\ "END" \notin fl
    BY <1>2 DEF Flags
  <1>5. cur \in Int
    <2>1. h.key \in Keys /\ h.acc \in Int /\ npages \in Nat
      BY <1>2 DEF Message, LockInv
    <2>2. left \in Int /\ Capacity \in Int
      BY <2>1, TransferConstants, SMT DEF Capacity
    <2>3. QED
      BY <2>2 DEF Smaller
  <1> HIDE DEF h, left, cur, fl
  <1>6. /\ daemon' = "resume" /\ rsp' \in Message /\ rsp'.type = h.type
        /\ rsp'.from = h.from /\ "END" \notin rsp'.flags
    <2>1. CASE Respond(h, fl, cur)
      BY <1>2, <1>4, <1>5, <2>1, RespondType
    <2>2. CASE Respond(h, h.flags \cup {"ERROR"}, h.cur)
      <3>1. /\ h.flags \cup {"ERROR"} \in SUBSET Flags /\ h.cur \in Int
            /\ "END" \notin h.flags \cup {"ERROR"}
        BY <1>2 DEF Flags, Message
      <3>2. QED
        BY <1>2, <2>2, <3>1, RespondType
    <2>3. QED
      BY <1>3, <2>1, <2>2
  <1>7. QED
    BY <1>1, <1>6, ServeInv DEF h

\* A shared page is added, without an answer.
LEMMA ServeAddSharedPageInv == LockInv /\ ServeAddSharedPage => LockInv'
  <1> SUFFICES ASSUME LockInv, ServeAddSharedPage PROVE LockInv'
    OBVIOUS
  <1>1. /\ daemon = "poll" /\ queue # <<>> /\ queue' = Tail(queue)
        /\ Head(queue).type = "ADD_SHARED_PAGE"
        /\ UNCHANGED <<enabled, locks, daemon, rsp, pc, job>>
        /\ npages' = Smaller(npages + 1, MaxPages)
    BY DEF ServeAddSharedPage, Request, cpu
  <1>2. Shape /\ PutRule /\ GetRule /\ queue \in Seq(Message)
    BY InvParts DEF Shape
  <1>3. npages' \in Nat
    BY <1>1, <1>2, TransferConstants, SMT DEF Shape, Smaller
  <1>4. Shape'
    BY <1>1, <1>2, <1>3, TailFacts, SMT DEF Shape, locks
  <1>5. /\ ~Returning("PUT") /\ ~Returning("GET")
        /\ Returning("PUT")' = FALSE /\ Returning("GET")' = FALSE
        /\ Returning("PUT") = FALSE /\ Returning("GET") = FALSE
    BY <1>1 DEF Returning
  <1>6. PutRule'
    <2>1. Rule("PUT", "out_send", "out_wait", putLock, queue, FALSE, rsp.from, pc)
      BY <1>2, <1>5 DEF PutRule
    <2>2. Rule("PUT", "out_send", "out_wait", putLock, Tail(queue), FALSE, rsp.from, pc)
      BY <1>1, <1>2, <2>1, OtherTaken
    <2>3. QED
      BY <1>1, <1>5, <2>2 DEF PutRule, locks
  <1>7. GetRule'
    <2>1. Rule("GET", "in_send", "in_wait", getLock, queue, FALSE, rsp.from, pc)
      BY <1>2, <1>5 DEF GetRule
    <2>2. Rule("GET", "in_send", "in_wait", getLock, Tail(queue), FALSE, rsp.from, pc)
      BY <1>1, <1>2, <2>1, OtherTaken
    <2>3. QED
      BY <1>1, <1>5, <2>2 DEF GetRule, locks
  <1>8. QED
    BY <1>4, <1>6, <1>7, InvPartsNext

---------------------------------------------------------------------------
(* The RESUME hypercall.                                                    *)

\* The cleared response is a message that belongs to no transfer.
LEMMA NoMsgType == NoMsg \in Message /\ NoMsg.type = "NONE"
  <1>1. (CHOOSE k \in Keys : TRUE) \in Keys
    BY TransferConstants
  <1>2. {} \in SUBSET {"NEW"}
    OBVIOUS
  <1>3. QED
    BY <1>1, <1>2, MsgType, SMT DEF NoMsg

\* What every branch of mcd_event_resume leaves: no answer is under way.
LEMMA ResumeShape ==
  ASSUME LockInv, Resuming
  PROVE  /\ Shape /\ PutRule /\ GetRule /\ rsp' \in Message /\ rsp'.type = "NONE"
         /\ daemon' = "poll"
         /\ Returning("PUT")' = FALSE /\ Returning("GET")' = FALSE
         /\ Returning("PUT") = (rsp.type = "PUT")
         /\ Returning("GET") = (rsp.type = "GET")
  BY InvParts, NoMsgType DEF Resuming, Returning

\* A lock that the response does not concern obeys its rule as before.
LEMMA UnconcernedPut ==
  ASSUME LockInv, Resuming, rsp.type # "PUT", UNCHANGED <<putLock, queue, pc>>
  PROVE  PutRule'
  <1>1. /\ PutRule /\ Returning("PUT") = FALSE /\ Returning("PUT")' = FALSE
    BY ResumeShape
  <1>2. QED
    BY <1>1 DEF PutRule, Rule

\* The same for the other lock.
LEMMA UnconcernedGet ==
  ASSUME LockInv, Resuming, rsp.type # "GET", UNCHANGED <<getLock, queue, pc>>
  PROVE  GetRule'
  <1>1. /\ GetRule /\ Returning("GET") = FALSE /\ Returning("GET")' = FALSE
    BY ResumeShape
  <1>2. QED
    BY <1>1 DEF GetRule, Rule

\* The transfer that the response concerns, if any, ends.
LEMMA EndInv ==
  ASSUME LockInv, Resuming, UNCHANGED <<enabled, queue, npages, pc, job>>,
         Unlock(rsp.type)
  PROVE  LockInv'
  <1>1. /\ Shape /\ PutRule /\ GetRule /\ rsp' \in Message /\ rsp'.type = "NONE"
        /\ daemon' = "poll" /\ Returning("PUT")' = FALSE /\ Returning("GET")' = FALSE
        /\ Returning("PUT") = (rsp.type = "PUT") /\ Returning("GET") = (rsp.type = "GET")
    BY ResumeShape
  <1>2. Shape'
    BY <1>1 DEF Shape, Unlock
  <1>3. PutRule'
    <2>1. CASE rsp.type = "PUT"
      BY <1>1, <2>1, TransferConstants DEF PutRule, Rule, Unlock, Shape
    <2>2. CASE rsp.type # "PUT"
      BY <2>2, UnconcernedPut DEF Unlock
    <2>3. QED
      BY <2>1, <2>2
  <1>4. GetRule'
    <2>1. CASE rsp.type = "GET"
      BY <1>1, <2>1, TransferConstants DEF GetRule, Rule, Unlock, Shape
    <2>2. CASE rsp.type # "GET"
      BY <2>2, UnconcernedGet DEF Unlock
    <2>3. QED
      BY <2>1, <2>2
  <1>5. QED
    BY <1>2, <1>3, <1>4, InvPartsNext

\* An answer marked ERROR.
LEMMA ResumeErrorInv == LockInv /\ ResumeError => LockInv'
  BY EndInv DEF ResumeError, cpu

\* An answer marked END belongs to no transfer.
LEMMA ResumeEndInv == LockInv /\ ResumeEnd => LockInv'
  <1> SUFFICES ASSUME LockInv, ResumeEnd PROVE LockInv'
    OBVIOUS
  <1>1. Resuming /\ UNCHANGED <<enabled, queue, npages, pc, job, locks>>
    BY DEF ResumeEnd, cpu
  <1>2. rsp.type \notin {"PUT", "GET"}
    BY DEF ResumeEnd, LockInv
  <1>3. Unlock(rsp.type)
    BY <1>1, <1>2 DEF Unlock, locks
  <1>4. QED
    BY <1>1, <1>3, EndInv

\* The answer to a page-in: the entry is complete, the ring is full, or the
\* next part is asked for.
LEMMA ResumeGetInv == LockInv /\ ResumeGet => LockInv'
  <1> SUFFICES ASSUME LockInv, ResumeGet PROVE LockInv'
    OBVIOUS
  <1>1. Resuming /\ rsp.type = "GET" /\ UNCHANGED <<enabled, npages, pc, job>>
    BY DEF ResumeGet
  <1>2. CASE Unlock("GET") /\ queue' = queue
    BY <1>1, <1>2, EndInv
  <1>3. CASE queue' = Append(queue, InPart(rsp)) /\ UNCHANGED locks
    <2> DEFINE m == InPart(rsp)
    <2>1. /\ Shape /\ PutRule /\ GetRule /\ rsp' \in Message /\ rsp'.type = "NONE"
          /\ daemon' = "poll" /\ Returning("PUT")' = FALSE /\ Returning("GET")' = FALSE
          /\ Returning("PUT") = (rsp.type = "PUT") /\ Returning("GET") = (rsp.type = "GET")
      BY <1>1, ResumeShape
    <2>2. m \in Message /\ m.type = "GET" /\ m.from = rsp.from /\ "END" \notin m.flags
      BY <2>1, SMT DEF InPart, Message, Shape
    <2> HIDE DEF m
    <2>3. queue' = Append(queue, m) /\ queue \in Seq(Message)
      BY <1>3, <2>1 DEF m, Shape
    <2>4. Shape'
      BY <1>1, <1>3, <2>1, <2>2, <2>3, AppendFacts, SMT DEF Shape, locks
    <2>5. PutRule'
      <3>1. Rule("PUT", "out_send", "out_wait", putLock, queue, FALSE, rsp'.from, pc)
        BY <1>1, <2>1, NotReturning DEF PutRule
      <3>2. Rule("PUT", "out_send", "out_wait", putLock, Append(queue, m), FALSE,
                 rsp'.from, pc)
        BY <2>2, <2>3, <3>1, OtherSent
      <3>3. QED
        BY <1>1, <1>3, <2>1, <2>3, <3>2 DEF PutRule, locks
    <2>6. GetRule'
      <3>1. Rule("GET", "in_send", "in_wait", getLock, queue, TRUE, rsp.from, pc)
        BY <1>1, <2>1 DEF GetRule
      <3>2. Rule("GET", "in_send", "in_wait", getLock, Append(queue, m), FALSE,
                 rsp'.from, pc)
        BY <2>2, <2>3, <3>1, Continued
      <3>3. QED
        BY <1>1, <1>3, <2>1, <2>3, <3>2 DEF GetRule, locks
    <2>7. QED
      BY <2>4, <2>5, <2>6, InvPartsNext
  <1>4. QED
    BY <1>2, <1>3 DEF ResumeGet

\* The answer to a page-out, in the same three cases.
LEMMA ResumePutInv == LockInv /\ ResumePut => LockInv'
  <1> SUFFICES ASSUME LockInv, ResumePut PROVE LockInv'
    OBVIOUS
  <1>1. Resuming /\ rsp.type = "PUT" /\ UNCHANGED <<enabled, npages, pc, job>>
    BY DEF ResumePut, cpu
  <1>2. CASE Unlock("PUT") /\ queue' = queue
    BY <1>1, <1>2, EndInv
  <1> DEFINE m == OutPart(rsp.from, rsp.key, rsp.acc, {})
  <1>3. CASE queue' = Append(queue, m) /\ UNCHANGED locks
    <2>1. /\ Shape /\ PutRule /\ GetRule /\ rsp' \in Message /\ rsp'.type = "NONE"
          /\ daemon' = "poll" /\ Returning("PUT")' = FALSE /\ Returning("GET")' = FALSE
          /\ Returning("PUT") = (rsp.type = "PUT") /\ Returning("GET") = (rsp.type = "GET")
      BY <1>1, ResumeShape
    <2>2. m \in Message /\ m.type = "PUT" /\ m.from = rsp.from /\ "END" \notin m.flags
      <3>1. /\ rsp.from \in Vcpus \cup {NoOne} /\ rsp.key \in Keys /\ rsp.acc \in Int
            /\ npages \in Nat /\ {} \in SUBSET {"NEW"}
        BY <2>1 DEF Message, Shape
      <3>2. QED
        BY <3>1, OutPartType, SMT
    <2> HIDE DEF m
    <2>3. queue' = Append(queue, m) /\ queue \in Seq(Message)
      BY <1>3, <2>1 DEF Shape
    <2>4. Shape'
      BY <1>1, <1>3, <2>1, <2>2, <2>3, AppendFacts, SMT DEF Shape, locks
    <2>5. GetRule'
      <3>1. Rule("GET", "in_send", "in_wait", getLock, queue, FALSE, rsp'.from, pc)
        BY <1>1, <2>1, NotReturning DEF GetRule
      <3>2. Rule("GET", "in_send", "in_wait", getLock, Append(queue, m), FALSE,
                 rsp'.from, pc)
        BY <2>2, <2>3, <3>1, OtherSent
      <3>3. QED
        BY <1>1, <1>3, <2>1, <2>3, <3>2 DEF GetRule, locks
    <2>6. PutRule'
      <3>1. Rule("PUT", "out_send", "out_wait", putLock, queue, TRUE, rsp.from, pc)
        BY <1>1, <2>1 DEF PutRule
      <3>2. Rule("PUT", "out_send", "out_wait", putLock, Append(queue, m), FALSE,
                 rsp'.from, pc)
        BY <2>2, <2>3, <3>1, Continued
      <3>3. QED
        BY <1>1, <1>3, <2>1, <2>3, <3>2 DEF PutRule, locks
    <2>7. QED
      BY <2>4, <2>5, <2>6, InvPartsNext
  <1>4. QED
    BY <1>2, <1>3 DEF ResumePut

---------------------------------------------------------------------------
\* At the start nobody holds a lock and nothing is on the ring.
LEMMA InitInv == Init => LockInv
  <1> SUFFICES ASSUME Init PROVE LockInv
    OBVIOUS
  <1>1. (CHOOSE k \in Keys : TRUE) \in Keys
    BY TransferConstants
  <1>2. Shape
    BY <1>1, NoMsgType, SMT DEF Init, Shape, Places
  <1>3. PutRule /\ GetRule
    <2>1. Returning("PUT") = FALSE /\ Returning("GET") = FALSE
      BY DEF Init, Returning
    <2>2. DOMAIN queue = {}
      BY SMT DEF Init
    <2>3. QED
      BY <2>1, <2>2 DEF Init, PutRule, GetRule, Rule
  <1>4. QED
    BY <1>2, <1>3, InvParts

\* A step that changes nothing.
LEMMA Stutter == LockInv /\ UNCHANGED vars => LockInv'
  BY SMT DEF LockInv, LockDiscipline, Discipline, Flying, Returning, vars, locks, cpu

\* No step changes the plan.
LEMMA PlanKept == ASSUME [Next]_vars PROVE UNCHANGED plan
  <1>1. ASSUME DaemonStep PROVE UNCHANGED plan
    BY <1>1 DEF DaemonStep, ServePut, ServeGet, ServeDel, ServeDomFlush,
       ServeAddSharedPage, ResumeError, ResumeEnd, ResumeGet, ResumePut, Disable, env
  <1>2. ASSUME NEW v \in Vcpus, CpuStep(v) PROVE UNCHANGED plan
    BY <1>2 DEF CpuStep, OutLock, OutSend, OutWait, InLock, InSend, InWait,
       InReturn, FlushSend, env
  <1>3. ASSUME NEW v \in Vcpus, Environment(v) PROVE UNCHANGED plan
    BY <1>3 DEF Environment, OutStart, InStart, Del, FlushList, AddSharedPage,
       Begin, env
  <1>4. ASSUME Interrupted \/ Enable PROVE UNCHANGED plan
    BY <1>4 DEF Interrupted, Enable, Begin, env
  <1>5. QED
    BY <1>1, <1>2, <1>3, <1>4 DEF Next, vars, env

NoStop == "stop" \notin plan.ops

LEMMA NoStopKept == ASSUME [Next]_vars PROVE NoStop' <=> NoStop
  BY PlanKept DEF NoStop

\* Every step preserves the invariant, as long as nobody stops the daemon.
LEMMA NextInv ==
  ASSUME NoStop, LockInv, [Next]_vars
  PROVE  LockInv'
  <1>1. ASSUME DaemonStep PROVE LockInv'
    <2>1. ~Disable
      BY DEF Disable, LockInv
    <2>2. QED
      BY <1>1, <2>1, ServePutInv, ServeGetInv, ServeDelInv, ServeDomFlushInv,
         ServeAddSharedPageInv, ResumeErrorInv, ResumeEndInv, ResumeGetInv,
         ResumePutInv DEF DaemonStep
  <1>2. ~Interrupted /\ ~Enable
    BY DEF Interrupted, Begin, Enable, LockInv, NoStop
  <1>3. ASSUME NEW v \in Vcpus, CpuStep(v) PROVE LockInv'
    BY <1>3, OutLockInv, OutSendInv, OutWaitInv, InLockInv, InSendInv, InWaitInv,
       InReturnInv, FlushSendInv DEF CpuStep
  <1>4. ASSUME NEW v \in Vcpus, Environment(v) PROVE LockInv'
    BY <1>4, OutStartInv, InStartInv, DelInv, FlushListInv, AddSharedPageInv
    DEF Environment
  <1>5. QED
    BY <1>1, <1>2, <1>3, <1>4, Stutter DEF Next

\* LockInv is an invariant whatever the CPUs, keys, sizes and pages are, as
\* long as the daemon is not stopped.
THEOREM LockInvariant == Spec => [](NoStop => LockInv)
  <1>1. (NoStop => LockInv) /\ [Next]_vars => (NoStop => LockInv)'
    BY NextInv, NoStopKept
  <1>2. QED
    BY <1>1, InitInv, PTL DEF Spec

\* The locks that the RESUME hypercall releases on behalf of another CPU are
\* held exactly during one transfer of their holder, for every instance.
THEOREM LocksDisciplined == Spec => [](NoStop => LockDiscipline)
  <1>1. LockInv => LockDiscipline
    BY DEF LockInv
  <1>2. QED
    BY <1>1, LockInvariant, PTL

---------------------------------------------------------------------------
(***************************************************************************)
(* The data: TypeOK and PartIntact.                                         *)
(*                                                                          *)
(* A page-in and a page-out use the shared pages under different locks.     *)
(* That no part is lost rests on page-ins finding nothing to read: the      *)
(* first part truncates the file, and if a page-out of the same key begins  *)
(* meanwhile (after a flush) it never gets ahead of the page-in, because    *)
(* both have one message on the ring and the ring is first in, first out.   *)
(* This is what Requests and Answer say of GET.                             *)
(***************************************************************************)

\* A byte: nobody's, or of a value of a key.
Cell == {Junk} \cup (Keys \X {0, 1} \X Nat)

DataTypes ==
    /\ npages \in 1..MaxPages /\ shared \in [1..(MaxPages * PageSize) -> Cell]
    /\ files \in [Keys -> Seq(Cell)] /\ \A k \in Keys : Len(files[k]) <= SizeOf[k]
    /\ orphan \in BOOLEAN /\ stored \in SUBSET Keys /\ ver \in [Keys -> {0, 1}]

\* The bounded counters of the model.
Counters == leaked \in Nat /\ plan \in Plans /\ ops \in 0..plan.max

\* The keys that are being paged out: each by one CPU, and none is listed.
OneSender ==
    /\ \A v, w \in Vcpus : pc[v] \in Sending /\ pc[w] \in Sending /\ job[v] = job[w] => v = w
    /\ \A v \in Vcpus : pc[v] \in Sending => job[v] \notin stored

Paging == {"in_lock", "in_send", "in_wait", "got"}

Buffers ==
    /\ DOMAIN buf = Vcpus
    /\ \A v \in Vcpus : /\ pc[v] \in Paging => buf[v] \in [1..SizeOf[job[v]] -> Cell]
                        /\ pc[v] \notin Paging => buf[v] = <<>>

Fields(m) == m.acc \in 0..SizeOf[m.key] /\ m.cur \in 0..(MaxPages * PageSize)

\* The part that the PUT request m describes is in the shared pages sh, and
\* the file has no more than the parts before it; cap cells are shared.
PutPart(m, jb, f, sh, vr, cap) ==
    /\ m.key = jb[m.from] /\ m.cur <= cap /\ m.cur <= m.acc
    /\ "NEW" \in m.flags => m.acc = m.cur
    /\ "NEW" \notin m.flags => Len(f[m.key]) <= m.acc - m.cur
    /\ \A i \in 1..m.cur : sh[i] = <<m.key, vr[m.key], m.acc - m.cur + i>>

\* The length of the file once m is written.
Grown(f, m) == IF "NEW" \in m.flags THEN m.cur ELSE Len(f[m.key]) + m.cur

\* A page-in that has come to acc will find nothing in the file, which has no
\* more than that now, nor when page-outs of the same key in M are written.
Behind(f, k, acc, M) ==
    /\ Len(f[k]) <= acc
    /\ \A m \in M : m.type = "PUT" /\ m.key = k => Grown(f, m) <= acc

\* The messages of q up to i.
UpTo(q, i) == {q[j] : j \in 1..i}

RequestOk(q, i, jb, f, sh, vr, cap) ==
    /\ Fields(q[i])
    /\ q[i].type = "PUT" => PutPart(q[i], jb, f, sh, vr, cap)
    /\ q[i].type = "GET" /\ "NEW" \notin q[i].flags =>
         Behind(f, q[i].key, q[i].acc, UpTo(q, i - 1))

AllOk(q, jb, f, sh, vr, cap) == \A i \in DOMAIN q : RequestOk(q, i, jb, f, sh, vr, cap)

Requests == AllOk(queue, job, files, shared, ver, Capacity)

Answer ==
    /\ Fields(rsp)
    /\ Returning("PUT") => rsp.key = job[rsp.from]
    /\ Returning("PUT") /\ "ERROR" \notin rsp.flags => Len(files[rsp.key]) <= rsp.acc
    /\ Returning("GET") /\ "ERROR" \notin rsp.flags =>
         /\ rsp.acc + rsp.cur <= SizeOf[rsp.key]
         /\ "FINAL" \notin rsp.flags =>
              /\ Capacity <= rsp.cur
              /\ Behind(files, rsp.key, rsp.acc + rsp.cur, UpTo(queue, Len(queue)))

DataInv == DataTypes /\ Counters /\ OneSender /\ Buffers /\ Requests /\ Answer

---------------------------------------------------------------------------
(* Sequences: the files, the requests and the parts of a buffer.            *)

\* A sequence over S is a function on 1 .. its length.
LEMMA SeqTyped ==
  ASSUME NEW S, NEW s \in Seq(S)
  PROVE  /\ Len(s) \in Nat /\ DOMAIN s = 1 .. Len(s)
         /\ s \in [1 .. Len(s) -> S]
  BY SMT

\* An element of a sequence over S is in S.
LEMMA SeqElement ==
  ASSUME NEW S, NEW s \in Seq(S), NEW i \in 1 .. Len(s)
  PROVE  s[i] \in S
  BY SMT

\* Sequences of one length that agree everywhere are one sequence.
LEMMA SeqExtensional ==
  ASSUME NEW S, NEW s \in Seq(S), NEW t \in Seq(S), Len(s) = Len(t),
         \A i \in 1 .. Len(s) : s[i] = t[i]
  PROVE  s = t
  BY SMT

\* The empty sequence is a sequence over every set.
LEMMA EmptyIsSeq ==
  ASSUME NEW S
  PROVE  <<>> \in Seq(S) /\ Len(<<>>) = 0
  BY SMT

\* What Append does: one more element, the others where they were.
LEMMA Appended ==
  ASSUME NEW S, NEW s \in Seq(S), NEW e \in S
  PROVE  /\ Append(s, e) \in Seq(S) /\ Len(Append(s, e)) = Len(s) + 1
         /\ \A i \in 1 .. Len(s) : Append(s, e)[i] = s[i]
         /\ Append(s, e)[Len(s) + 1] = e
  BY SMT

\* What is left of a sequence without its first element.
LEMMA HeadTail ==
  ASSUME NEW S, NEW s \in Seq(S), s # <<>>
  PROVE  /\ Head(s) \in S /\ Tail(s) \in Seq(S) /\ Len(Tail(s)) = Len(s) - 1
         /\ \A i \in 1 .. Len(Tail(s)) : Tail(s)[i] = s[i + 1]
  BY SMT

\* The elements of two sequences joined: a file and what is written to it.
LEMMA Joined ==
  ASSUME NEW S, NEW s \in Seq(S), NEW t \in Seq(S)
  PROVE  /\ s \o t \in Seq(S) /\ Len(s \o t) = Len(s) + Len(t)
         /\ \A i \in 1 .. Len(s) + Len(t) :
              (s \o t)[i] = IF i <= Len(s) THEN s[i] ELSE t[i - Len(s)]
  BY SMT

\* The elements of a part of a sequence: the bytes one request carries.
LEMMA Slice ==
  ASSUME NEW S, NEW s, NEW m \in Int, NEW n \in Int, \A i \in m .. n : s[i] \in S
  PROVE  /\ SubSeq(s, m, n) \in Seq(S)
         /\ Len(SubSeq(s, m, n)) = IF m <= n THEN n - m + 1 ELSE 0
         /\ \A i \in 1 .. n - m + 1 : SubSeq(s, m, n)[i] = s[m + i - 1]
  BY SMT

---------------------------------------------------------------------------
(* The operators of these definitions.                                      *)

LEMMA SizeFacts ==
  /\ MaxPages * PageSize \in Nat
  /\ \A k \in Keys : SizeOf[k] \in Nat \ {0}
  /\ \A n \in 1..MaxPages : /\ n * PageSize \in Nat \ {0} /\ n \in Nat
                            /\ n * PageSize <= MaxPages * PageSize
  <1>1. MaxPages \in Nat \ {0} /\ PageSize \in Nat \ {0} /\ SizeOf \in [Keys -> Nat \ {0}]
    BY TransferConstants
  <1>2. \A a, b, c \in Nat : a <= b => a * c <= b * c
    BY SMT
  <1>3. \A a, b \in Nat \ {0} : a * b \in Nat \ {0}
    BY SMT
  <1>4. QED
    BY <1>1, <1>2, <1>3, SMT

LEMMA MessageTypes ==
  ASSUME NEW m \in Message
  PROVE  m.acc \in Int /\ m.cur \in Int /\ m.key \in Keys /\ m.from \in Vcpus \cup {NoOne}
  BY DEF Message

LEMMA LeqTransitive ==
  \A a, b, c \in Int : a <= b /\ b <= c => a <= c
  BY SMT

LEMMA FileTypes ==
  ASSUME NEW f \in [Keys -> Seq(Cell)], NEW k \in Keys
  PROVE  f[k] \in Seq(Cell) /\ Len(f[k]) \in Nat
  <1>1. f[k] \in Seq(Cell)
    OBVIOUS
  <1>2. QED
    BY <1>1, SeqTyped

\* No file of g is longer than that of f.
Shorter(f, g) == \A k \in Keys : Len(g[k]) <= Len(f[k])

\* What is said of a page-in that is being continued.
LEMMA OkBehind ==
  ASSUME NEW q, NEW i, NEW jb, NEW f, NEW sh, NEW vr, NEW cap, RequestOk(q, i, jb, f, sh, vr, cap),
         q[i].type = "GET", "NEW" \notin q[i].flags
  PROVE  Behind(f, q[i].key, q[i].acc, UpTo(q, i - 1))
  BY DEF RequestOk

LEMMA BehindKept ==
  ASSUME NEW f \in [Keys -> Seq(Cell)], NEW g \in [Keys -> Seq(Cell)], Shorter(f, g),
         NEW M \in SUBSET Message, NEW N \in SUBSET M, NEW k \in Keys, NEW acc \in Int,
         Behind(f, k, acc, M)
  PROVE  Behind(g, k, acc, N)
  <1>1. Len(g[k]) <= acc
    <2>1. Len(g[k]) \in Nat /\ Len(f[k]) \in Nat
      BY FileTypes
    <2>2. QED
      BY <2>1, SMT DEF Behind, Shorter
  <1>2. ASSUME NEW m \in N, m.type = "PUT", m.key = k PROVE Grown(g, m) <= acc
    <2>1. m \in Message /\ m \in M
      OBVIOUS
    <2>2. m.cur \in Int /\ Len(g[m.key]) \in Nat /\ Len(f[m.key]) \in Nat
      BY <2>1, MessageTypes, FileTypes
    <2>3. Grown(f, m) <= acc /\ Len(g[m.key]) <= Len(f[m.key])
      BY <1>2, <2>1, MessageTypes DEF Behind, Shorter
    <2>4. CASE "NEW" \in m.flags
      BY <2>3, <2>4 DEF Grown
    <2>5. CASE "NEW" \notin m.flags
      <3>1. Len(f[m.key]) + m.cur <= acc
        BY <2>3, <2>5 DEF Grown
      <3>2. Len(g[m.key]) + m.cur <= acc
        BY <2>2, <2>3, <3>1, SMT
      <3>3. QED
        BY <2>5, <3>2 DEF Grown
    <2>6. QED
      BY <2>4, <2>5
  <1>3. QED
    BY <1>1, <1>2 DEF Behind

LEMMA PutPartKept ==
  ASSUME NEW m \in Message, NEW jb, NEW jb2, NEW sh, NEW vr, NEW vr2,
         NEW cap \in Int, NEW cap2 \in Int, cap <= cap2,
         NEW f \in [Keys -> Seq(Cell)], NEW g \in [Keys -> Seq(Cell)], Shorter(f, g),
         jb2[m.from] = jb[m.from], vr2[m.key] = vr[m.key],
         PutPart(m, jb, f, sh, vr, cap)
  PROVE  PutPart(m, jb2, g, sh, vr2, cap2)
  <1>1. m.acc \in Int /\ m.cur \in Int /\ m.key \in Keys
    BY MessageTypes
  <1>2. Len(g[m.key]) \in Nat /\ Len(f[m.key]) \in Nat /\ Len(g[m.key]) <= Len(f[m.key])
    BY <1>1, FileTypes DEF Shorter
  <1>3. m.cur <= cap /\ ("NEW" \notin m.flags => Len(f[m.key]) <= m.acc - m.cur)
    BY DEF PutPart
  <1>4. m.cur <= cap2 /\ ("NEW" \notin m.flags => Len(g[m.key]) <= m.acc - m.cur)
    BY <1>1, <1>2, <1>3, SMT
  <1>5. QED
    BY <1>4 DEF PutPart

LEMMA UpToMessages ==
  ASSUME NEW q \in Seq(Message), NEW i \in Int, i <= Len(q)
  PROVE  UpTo(q, i) \in SUBSET Message
  <1>1. \A j \in 1..i : j \in 1..Len(q)
    BY SeqTyped, SMT
  <1>2. \A j \in 1..Len(q) : q[j] \in Message
    BY SeqElement
  <1>3. QED
    BY <1>1, <1>2 DEF UpTo

\* A page-out on the ring keeps its CPU, the pages and the version of its key.
PutsKeep(q, jb, jb2, sh, sh2, vr, vr2) ==
    \A i \in DOMAIN q : q[i].type = "PUT" =>
      sh2 = sh /\ jb2[q[i].from] = jb[q[i].from] /\ vr2[q[i].key] = vr[q[i].key]

\* The requests q are as they were.
LEMMA RequestsKept ==
  ASSUME NEW q \in Seq(Message), NEW jb, NEW jb2, NEW sh, NEW sh2, NEW vr, NEW vr2,
         NEW cap \in Int, NEW cap2 \in Int, cap <= cap2,
         NEW f \in [Keys -> Seq(Cell)], NEW g \in [Keys -> Seq(Cell)], Shorter(f, g),
         PutsKeep(q, jb, jb2, sh, sh2, vr, vr2), AllOk(q, jb, f, sh, vr, cap)
  PROVE  AllOk(q, jb2, g, sh2, vr2, cap2)
  <1> SUFFICES ASSUME NEW i \in DOMAIN q PROVE RequestOk(q, i, jb2, g, sh2, vr2, cap2)
    BY DEF AllOk
  <1>1. i \in 1..Len(q) /\ q[i] \in Message /\ i - 1 \in Int /\ i - 1 <= Len(q)
    <2>1. DOMAIN q = 1..Len(q) /\ Len(q) \in Nat
      BY SeqTyped
    <2>2. q[i] \in Message
      BY <2>1, SeqElement
    <2>3. QED
      BY <2>1, <2>2, SMT
  <1>2. RequestOk(q, i, jb, f, sh, vr, cap)
    BY DEF AllOk
  <1>3. ASSUME q[i].type = "PUT" PROVE PutPart(q[i], jb2, g, sh2, vr2, cap2)
    <2>1. /\ PutPart(q[i], jb, f, sh, vr, cap) /\ sh2 = sh
          /\ jb2[q[i].from] = jb[q[i].from] /\ vr2[q[i].key] = vr[q[i].key]
      BY <1>2, <1>3 DEF RequestOk, PutsKeep
    <2>2. PutPart(q[i], jb2, g, sh, vr2, cap2)
      BY <1>1, <2>1, PutPartKept
    <2>3. QED
      BY <2>1, <2>2
  <1>4. UpTo(q, i - 1) \in SUBSET Message
    BY <1>1, UpToMessages
  <1>5. q[i].key \in Keys /\ q[i].acc \in Int
    BY <1>1, MessageTypes
  <1>6. ASSUME q[i].type = "GET", "NEW" \notin q[i].flags
        PROVE  Behind(g, q[i].key, q[i].acc, UpTo(q, i - 1))
    <2> DEFINE M == UpTo(q, i - 1)
               k == q[i].key
               acc == q[i].acc
    <2>1. Behind(f, k, acc, M)
      BY <1>2, <1>6 DEF RequestOk
    <2>2. M \in SUBSET Message /\ M \in SUBSET M /\ k \in Keys /\ acc \in Int
      BY <1>4, <1>5
    <2> HIDE DEF M, k, acc
    <2>3. Behind(g, k, acc, M)
      BY <2>1, <2>2, BehindKept
    <2>4. QED
      BY <2>3 DEF M, k, acc
  <1>7. QED
    BY <1>2, <1>3, <1>6 DEF RequestOk

\* A request is put on the ring.
LEMMA RequestsSent ==
  ASSUME NEW q \in Seq(Message), NEW jb, NEW sh, NEW vr, NEW cap, NEW f,
         AllOk(q, jb, f, sh, vr, cap),
         NEW m \in Message, Fields(m),
         m.type = "PUT" => PutPart(m, jb, f, sh, vr, cap),
         m.type = "GET" /\ "NEW" \notin m.flags => Behind(f, m.key, m.acc, UpTo(q, Len(q)))
  PROVE  AllOk(Append(q, m), jb, f, sh, vr, cap)
  <1> DEFINE r == Append(q, m)
  <1>1. /\ DOMAIN r = DOMAIN q \cup {Len(q) + 1} /\ r[Len(q) + 1] = m
        /\ \A i \in DOMAIN q : r[i] = q[i]
    BY AppendFacts
  <1>2. DOMAIN q = 1..Len(q) /\ Len(q) \in Nat
    BY SeqTyped
  <1> HIDE DEF r
  <1>3. \A i \in Int : i <= Len(q) => UpTo(r, i) = UpTo(q, i)
    <2> TAKE i \in Int
    <2>1. i <= Len(q) => \A j \in 1..i : j \in DOMAIN q
      BY <1>2, SMT
    <2>2. i <= Len(q) => \A j \in 1..i : r[j] = q[j]
      BY <1>1, <2>1
    <2>3. QED
      BY <2>2 DEF UpTo
  <1>4. ASSUME NEW i \in DOMAIN q PROVE RequestOk(r, i, jb, f, sh, vr, cap)
    <2>1. i - 1 \in Int /\ i - 1 <= Len(q)
      BY <1>2, SMT
    <2>2. UpTo(r, i - 1) = UpTo(q, i - 1) /\ r[i] = q[i]
      BY <1>1, <1>3, <2>1
    <2>3. QED
      BY <2>2 DEF RequestOk, AllOk
  <1>5. RequestOk(r, Len(q) + 1, jb, f, sh, vr, cap)
    <2>1. Len(q) + 1 - 1 = Len(q) /\ Len(q) \in Int /\ Len(q) <= Len(q)
      BY <1>2, SMT
    <2>2. UpTo(r, Len(q) + 1 - 1) = UpTo(q, Len(q))
      BY <1>3, <2>1
    <2>3. QED
      BY <1>1, <2>2, SMT DEF RequestOk
  <1>6. QED
    BY <1>1, <1>4, <1>5 DEF r, AllOk

\* A request is taken off the ring.
LEMMA RequestsTaken ==
  ASSUME NEW q \in Seq(Message), q # <<>>, NEW jb, NEW sh, NEW vr, NEW cap,
         NEW f \in [Keys -> Seq(Cell)],
         AllOk(q, jb, f, sh, vr, cap)
  PROVE  \A i \in DOMAIN Tail(q) :
           /\ RequestOk(Tail(q), i, jb, f, sh, vr, cap)
           /\ Head(q) \in UpTo(q, i) /\ UpTo(Tail(q), i - 1) \subseteq UpTo(q, i)
           /\ UpTo(q, i) \in SUBSET Message /\ Tail(q)[i] = q[i + 1] /\ i + 1 \in DOMAIN q
           /\ RequestOk(q, i + 1, jb, f, sh, vr, cap) /\ (i + 1) - 1 = i
  <1> DEFINE r == Tail(q)
  <1> TAKE i \in DOMAIN Tail(q)
  <1>1. /\ r \in Seq(Message) /\ Head(q) = q[1]
        /\ \A j \in DOMAIN r : j + 1 \in DOMAIN q /\ r[j] = q[j + 1] /\ j \in Nat
    BY TailFacts
  <1>2. DOMAIN q = 1..Len(q) /\ DOMAIN r = 1..Len(r) /\ Len(q) \in Nat /\ Len(r) \in Nat
    BY <1>1, SeqTyped
  <1>3. i \in DOMAIN r
    OBVIOUS
  <1> HIDE DEF r
  <1>4. i \in Int /\ 1 <= i /\ i <= Len(q) /\ (i + 1) - 1 = i /\ 1 \in 1..i
    BY <1>1, <1>2, <1>3, SMT
  <1>5. UpTo(q, i) \in SUBSET Message /\ Head(q) \in UpTo(q, i)
    <2>1. q[1] \in UpTo(q, i)
      BY <1>4 DEF UpTo
    <2>2. QED
      BY <1>1, <1>4, <2>1, UpToMessages
  <1>6. UpTo(r, i - 1) \subseteq UpTo(q, i)
    <2>1. \A j \in 1..(i - 1) : j \in DOMAIN r /\ j + 1 \in 1..i
      BY <1>2, <1>3, <1>4, SMT
    <2>2. \A j \in 1..(i - 1) : r[j] \in UpTo(q, i)
      BY <1>1, <2>1 DEF UpTo
    <2>3. QED
      BY <2>2 DEF UpTo
  <1>7. RequestOk(q, i + 1, jb, f, sh, vr, cap) /\ r[i] = q[i + 1] /\ i + 1 \in DOMAIN q
    BY <1>1, <1>3 DEF AllOk
  <1>8. q[i + 1] \in Message
    BY <1>2, <1>7, SeqElement
  <1>9. RequestOk(r, i, jb, f, sh, vr, cap)
    <2>1. q[i + 1].key \in Keys /\ q[i + 1].acc \in Int /\ Shorter(f, f)
      <3>1. \A k \in Keys : Len(f[k]) \in Nat
        BY FileTypes
      <3>2. \A n \in Nat : n <= n
        BY SMT
      <3>3. QED
        BY <1>8, <3>1, <3>2, MessageTypes DEF Shorter
    <2>2. q[i + 1].type = "GET" /\ "NEW" \notin q[i + 1].flags =>
            Behind(f, q[i + 1].key, q[i + 1].acc, UpTo(q, i))
      BY <1>4, <1>7 DEF RequestOk
    <2>3. ASSUME q[i + 1].type = "GET", "NEW" \notin q[i + 1].flags
          PROVE  Behind(f, q[i + 1].key, q[i + 1].acc, UpTo(r, i - 1))
      <3> DEFINE M == UpTo(q, i)
                 N == UpTo(r, i - 1)
                 k == q[i + 1].key
                 acc == q[i + 1].acc
      <3>1. Behind(f, k, acc, M)
        BY <2>2, <2>3
      <3>2. M \in SUBSET Message /\ N \in SUBSET M /\ k \in Keys /\ acc \in Int
        BY <1>5, <1>6, <2>1
      <3> HIDE DEF M, N, k, acc
      <3>3. Behind(f, k, acc, N)
        BY <2>1, <3>1, <3>2, BehindKept
      <3>4. QED
        BY <3>3 DEF N, k, acc
    <2>4. QED
      BY <1>7, <2>3 DEF RequestOk
  <1>10. QED
    BY <1>4, <1>5, <1>6, <1>7, <1>9 DEF r

---------------------------------------------------------------------------
(* Facts about the state.                                                   *)

LEMMA CapFacts ==
  ASSUME DataTypes
  PROVE  Capacity \in Nat \ {0} /\ Capacity <= MaxPages * PageSize
  BY SizeFacts DEF DataTypes, Capacity

\* A PUT request belongs to the holder of the lock, whose key is not listed.
LEMMA FlyingPut ==
  ASSUME LockInv, DataInv, NEW i \in DOMAIN queue, queue[i].type = "PUT"
  PROVE  /\ queue[i].from \in Vcpus /\ queue[i].from = putLock /\ pc[queue[i].from] = "out_wait"
         /\ queue[i].key = job[queue[i].from] /\ queue[i].key \in Keys \ stored
         /\ ~Returning("PUT") /\ \A j \in DOMAIN queue : queue[j].type = "PUT" => j = i
  <1>1. /\ putLock # NoOne /\ pc[putLock] = "out_wait" /\ queue[i].from = putLock
        /\ ~Returning("PUT") /\ \A j \in DOMAIN queue : queue[j].type = "PUT" => j = i
    BY InvParts DEF PutRule, Rule
  <1>2. queue[i].from \in Vcpus
    BY <1>1 DEF LockInv
  <1>3. queue[i].key = job[queue[i].from]
    BY DEF DataInv, Requests, AllOk, RequestOk, PutPart
  <1>4. job[queue[i].from] \in Keys \ stored
    <2>1. "out_wait" \in Sending
      BY DEF Sending
    <2>2. job[queue[i].from] \in Keys
      BY <1>2 DEF LockInv
    <2>3. QED
      BY <1>1, <1>2, <2>1, <2>2 DEF DataInv, OneSender
  <1>5. QED
    BY <1>1, <1>2, <1>3, <1>4

\* The same of the answer to one.
LEMMA AnsweredPut ==
  ASSUME LockInv, DataInv, Returning("PUT")
  PROVE  /\ rsp.from \in Vcpus /\ rsp.from = putLock /\ pc[rsp.from] = "out_wait"
         /\ rsp.key = job[rsp.from] /\ rsp.key \in Keys \ stored
         /\ \A j \in DOMAIN queue : queue[j].type # "PUT"
  <1>1. /\ putLock # NoOne /\ pc[putLock] = "out_wait" /\ rsp.from = putLock
        /\ \A j \in DOMAIN queue : queue[j].type # "PUT"
    BY InvParts DEF PutRule, Rule
  <1>2. rsp.from \in Vcpus
    BY <1>1 DEF LockInv
  <1>3. rsp.key = job[rsp.from]
    BY DEF DataInv, Answer
  <1>4. job[rsp.from] \in Keys \ stored
    <2>1. "out_wait" \in Sending
      BY DEF Sending
    <2>2. job[rsp.from] \in Keys
      BY <1>2 DEF LockInv
    <2>3. QED
      BY <1>1, <1>2, <2>1, <2>2 DEF DataInv, OneSender
  <1>5. QED
    BY <1>1, <1>2, <1>3, <1>4

LEMMA ShorterSelf == ASSUME NEW f \in [Keys -> Seq(Cell)] PROVE Shorter(f, f)
  <1>1. \A k \in Keys : Len(f[k]) \in Nat
    BY FileTypes
  <1>2. \A n \in Nat : n <= n
    BY SMT
  <1>3. QED
    BY <1>1, <1>2 DEF Shorter

\* A page-out under way keeps its key and its value.
Steady == \A v \in Vcpus : pc[v] = "out_wait" => job'[v] = job[v] /\ ver'[job[v]] = ver[job[v]]

\* The ring and the files stay as they are.
LEMMA RequestsStay ==
  ASSUME LockInv, DataInv, Steady, UNCHANGED <<queue, files, shared, npages>>
  PROVE  Requests'
  <1>1. /\ queue \in Seq(Message) /\ files \in [Keys -> Seq(Cell)] /\ Capacity \in Int
        /\ Capacity' = Capacity /\ Capacity <= Capacity /\ Shorter(files, files)
    <2>1. queue \in Seq(Message) /\ files \in [Keys -> Seq(Cell)] /\ DataTypes
      BY DEF LockInv, DataInv, DataTypes
    <2>2. QED
      BY <2>1, CapFacts, ShorterSelf, SMT DEF Capacity
  <1>2. PutsKeep(queue, job, job', shared, shared, ver, ver')
    BY FlyingPut DEF Steady, PutsKeep
  <1>3. AllOk(queue, job, files, shared, ver, Capacity)
    BY DEF DataInv, Requests
  <1>4. AllOk(queue, job', files, shared, ver', Capacity)
    BY <1>1, <1>2, <1>3, RequestsKept
  <1>5. QED
    BY <1>1, <1>4 DEF Requests

\* A request is put on the ring, with its part in the shared pages.
LEMMA RequestsGrow ==
  ASSUME LockInv, DataInv, Steady, NEW m \in Message, queue' = Append(queue, m),
         UNCHANGED <<files, npages>>,
         shared' = shared \/ \A i \in DOMAIN queue : queue[i].type # "PUT",
         Fields(m), m.type = "PUT" => PutPart(m, job', files, shared', ver', Capacity),
         m.type = "GET" /\ "NEW" \notin m.flags =>
           Behind(files, m.key, m.acc, UpTo(queue, Len(queue)))
  PROVE  Requests'
  <1>1. /\ queue \in Seq(Message) /\ files \in [Keys -> Seq(Cell)] /\ Capacity \in Int
        /\ Capacity' = Capacity /\ Capacity <= Capacity /\ Shorter(files, files)
    <2>1. queue \in Seq(Message) /\ files \in [Keys -> Seq(Cell)] /\ DataTypes
      BY DEF LockInv, DataInv, DataTypes
    <2>2. QED
      BY <2>1, CapFacts, ShorterSelf, SMT DEF Capacity
  <1>2. PutsKeep(queue, job, job', shared, shared', ver, ver')
    BY FlyingPut DEF Steady, PutsKeep
  <1>3. AllOk(queue, job, files, shared, ver, Capacity)
    BY DEF DataInv, Requests
  <1>4. AllOk(queue, job', files, shared', ver', Capacity)
    BY <1>1, <1>2, <1>3, RequestsKept
  <1>5. AllOk(Append(queue, m), job', files, shared', ver', Capacity)
    BY <1>1, <1>4, RequestsSent
  <1>6. QED
    BY <1>1, <1>5 DEF Requests

\* Neither the ring nor the files are touched.
LEMMA RingKept ==
  ASSUME LockInv, DataInv, Steady, UNCHANGED <<queue, rsp, daemon, files, shared, npages>>
  PROVE  Requests' /\ Answer'
  <1>1. Capacity' = Capacity
    BY DEF Capacity
  <1>2. Requests'
    BY RequestsStay
  <1>3. Answer'
    <2>1. \A t : Returning(t)' <=> Returning(t)
      BY DEF Returning
    <2>2. Returning("PUT") => rsp.key = job'[rsp.from]
      BY AnsweredPut DEF Steady
    <2>3. Fields(rsp)' <=> Fields(rsp)
      BY DEF Fields
    <2>4. QED
      BY <1>1, <2>1, <2>2, <2>3 DEF DataInv, Answer
  <1>4. QED
    BY <1>2, <1>3

\* A CPU puts a request on the ring.
LEMMA RingSent ==
  ASSUME LockInv, DataInv, Steady, NEW m \in Message, queue' = Append(queue, m),
         UNCHANGED <<rsp, daemon, files, npages>>,
         shared' = shared \/ \A i \in DOMAIN queue : queue[i].type # "PUT",
         Fields(m), m.type = "PUT" \/ m.type = "GET" => "NEW" \in m.flags,
         m.type = "PUT" => PutPart(m, job', files, shared', ver', Capacity)
  PROVE  Requests' /\ Answer'
  <1>1. queue \in Seq(Message) /\ Capacity \in Int /\ Capacity' = Capacity
    <2>1. queue \in Seq(Message) /\ DataTypes
      BY DEF LockInv, DataInv
    <2>2. QED
      BY <2>1, CapFacts, SMT DEF Capacity
  <1>2. Requests'
    BY RequestsGrow
  <1>3. Answer'
    <2>1. \A t : Returning(t)' <=> Returning(t)
      BY DEF Returning
    <2>2. Returning("PUT") => rsp.key = job'[rsp.from]
      BY AnsweredPut DEF Steady
    <2>3. Fields(rsp)' <=> Fields(rsp)
      BY DEF Fields
    <2>4. ASSUME Returning("GET"), "ERROR" \notin rsp.flags, "FINAL" \notin rsp.flags
          PROVE  Behind(files, rsp.key, rsp.acc + rsp.cur, UpTo(queue', Len(queue')))
      <3>1. /\ Behind(files, rsp.key, rsp.acc + rsp.cur, UpTo(queue, Len(queue)))
            /\ Capacity <= rsp.cur /\ Fields(rsp)
        BY <2>4 DEF DataInv, Answer
      <3>2. UpTo(queue', Len(queue')) \subseteq UpTo(queue, Len(queue)) \cup {m}
        <4>1. /\ DOMAIN queue' = DOMAIN queue \cup {Len(queue) + 1} /\ queue' \in Seq(Message)
              /\ queue'[Len(queue) + 1] = m /\ \A i \in DOMAIN queue : queue'[i] = queue[i]
          BY <1>1, AppendFacts, SMT
        <4>2. 1..Len(queue') = DOMAIN queue' /\ 1..Len(queue) = DOMAIN queue
          BY <1>1, <4>1, SeqTyped
        <4>3. QED
          BY <4>1, <4>2 DEF UpTo
      <3>3. ASSUME m.type = "PUT" PROVE Grown(files, m) <= rsp.acc + rsp.cur
        <4>1. Grown(files, m) = m.cur /\ m.cur <= Capacity
          BY <3>3 DEF Grown, PutPart
        <4>2. m.cur \in Int /\ rsp.acc \in Int /\ rsp.cur \in Int
          BY MessageTypes DEF LockInv
        <4>3. 0 <= rsp.acc
          <5>1. rsp.key \in Keys
            BY MessageTypes DEF LockInv
          <5>2. QED
            BY <3>1, <5>1, SizeFacts, SMT DEF Fields
        <4>4. QED
          BY <1>1, <3>1, <4>1, <4>2, <4>3, SMT
      <3>4. QED
        BY <3>1, <3>2, <3>3 DEF Behind
    <2>5. QED
      BY <1>1, <2>1, <2>2, <2>3, <2>4 DEF DataInv, Answer
  <1>4. QED
    BY <1>2, <1>3

---------------------------------------------------------------------------
(* Parts of a page-out.                                                     *)

OutPartIs(m, v, k, acc, new) ==
    /\ m.type = "PUT" /\ m.key = k /\ m.from = v /\ m.acc = acc + m.cur
    /\ m.cur \in Nat /\ m.cur <= Capacity /\ m.acc <= SizeOf[k] /\ Fields(m)
    /\ "NEW" \in m.flags <=> "NEW" \in new
    /\ "FINAL" \in m.flags => m.acc = SizeOf[k]
    /\ "ERROR" \notin m.flags

LEMMA OutPartFacts ==
  ASSUME DataTypes, NEW v, NEW k \in Keys, NEW acc \in Nat, acc <= SizeOf[k],
         NEW new \in SUBSET {"NEW"}
  PROVE  OutPartIs(OutPart(v, k, acc, new), v, k, acc, new)
  <1> DEFINE left == SizeOf[k] - acc
             cur == Smaller(left, Capacity)
             m == OutPart(v, k, acc, new)
  <1>1. Capacity \in Nat /\ Capacity <= MaxPages * PageSize /\ MaxPages * PageSize \in Nat
        /\ SizeOf[k] \in Nat
    BY CapFacts, SizeFacts
  <1>2. /\ m.type = "PUT" /\ m.key = k /\ m.from = v /\ m.acc = acc + cur /\ m.cur = cur
        /\ m.flags = new \cup (IF left > PageSize THEN {"CONT"} ELSE {})
                         \cup (IF left <= Capacity THEN {"FINAL"} ELSE {})
    BY DEF OutPart
  <1>3. left \in Nat
    BY <1>1, SMT
  <1>4. cur \in Nat /\ cur <= Capacity /\ cur <= left /\ (left <= Capacity => cur = left)
    BY <1>1, <1>3, SMT DEF Smaller
  <1>5. acc + cur <= SizeOf[k] /\ (left <= Capacity => acc + cur = SizeOf[k])
    BY <1>1, <1>4, SMT
  <1>6. /\ "NEW" \in m.flags <=> "NEW" \in new
        /\ "FINAL" \in m.flags => left <= Capacity
        /\ "ERROR" \notin m.flags
    BY <1>2
  <1>7. acc + cur \in 0..SizeOf[k] /\ cur \in 0..(MaxPages * PageSize)
    BY <1>1, <1>4, <1>5, SMT
  <1> HIDE DEF left, cur, m
  <1>8. Fields(m)
    BY <1>2, <1>7 DEF Fields
  <1>9. QED
    BY <1>2, <1>4, <1>5, <1>6, <1>8 DEF m, OutPartIs

\* The cells of a part.
LEMMA PartCells ==
  ASSUME DataTypes, NEW k \in Keys, NEW acc \in Nat, NEW n \in Nat, acc + n <= SizeOf[k]
  PROVE  LET c == OutPartCells(k, acc, n) IN
         /\ c \in Seq(Cell) /\ Len(c) = n
         /\ \A i \in 1..n : c[i] = <<k, ver[k], acc + i>> /\ c[i] \in Cell
  <1> DEFINE a == acc + 1
             b == acc + n
             w == Value(k)
             c == OutPartCells(k, acc, n)
  <1>1. SizeOf[k] \in Nat /\ ver[k] \in {0, 1}
    BY SizeFacts DEF DataTypes
  <1>2. \A i \in 1..SizeOf[k] : w[i] = <<k, ver[k], i>> /\ <<k, ver[k], i>> \in Cell
    <2>1. \A i \in 1..SizeOf[k] : i \in Nat
      BY <1>1, SMT
    <2>2. QED
      BY <1>1, <2>1 DEF Value, Cell
  <1>3. a \in Int /\ b \in Int /\ b - a + 1 = n /\ (IF a <= b THEN b - a + 1 ELSE 0) = n
        /\ \A i \in a..b : i \in 1..SizeOf[k]
    BY <1>1, SMT
  <1>4. \A i \in 1..n : a + i - 1 = acc + i /\ acc + i \in a..b
    BY SMT
  <1>5. c = SubSeq(w, a, b)
    BY DEF OutPartCells
  <1> HIDE DEF a, b, w, c
  <1>6. \A i \in a..b : w[i] \in Cell
    BY <1>2, <1>3
  <1>7. /\ SubSeq(w, a, b) \in Seq(Cell) /\ Len(SubSeq(w, a, b)) = IF a <= b THEN b - a + 1 ELSE 0
        /\ \A i \in 1..(b - a + 1) : SubSeq(w, a, b)[i] = w[a + i - 1]
    BY <1>3, <1>6, Slice, SMT
  <1>8. c \in Seq(Cell) /\ Len(c) = n /\ \A i \in 1..n : c[i] = w[a + i - 1]
    BY <1>3, <1>5, <1>7
  <1>9. \A i \in 1..n : c[i] = <<k, ver[k], acc + i>> /\ c[i] \in Cell
    <2> TAKE i \in 1..n
    <2>1. c[i] = w[acc + i] /\ acc + i \in 1..SizeOf[k]
      BY <1>3, <1>4, <1>8
    <2>2. QED
      BY <1>2, <2>1
  <1>10. QED
    BY <1>8, <1>9 DEF c

LEMMA PartWritten ==
  ASSUME DataTypes, NEW k \in Keys, NEW acc \in Nat, NEW n \in Nat,
         acc + n <= SizeOf[k], n <= MaxPages * PageSize
  PROVE  LET s == Overwrite(shared, OutPartCells(k, acc, n), n) IN
         /\ s \in [1..(MaxPages * PageSize) -> Cell]
         /\ \A i \in 1..n : s[i] = <<k, ver[k], acc + i>>
  <1> DEFINE c == OutPartCells(k, acc, n)
             s == Overwrite(shared, c, n)
             top == MaxPages * PageSize
  <1>1. top \in Nat /\ shared \in [1..top -> Cell]
    BY SizeFacts DEF DataTypes
  <1>2. \A i \in 1..n : c[i] = <<k, ver[k], acc + i>> /\ c[i] \in Cell
    BY PartCells
  <1>3. \A i \in 1..n : i \in 1..top /\ i <= n
    BY <1>1, SMT
  <1> HIDE DEF c, top
  <1>4. \A i \in 1..top : i <= n => i \in 1..n
    BY <1>1, SMT
  <1>5. s = [i \in 1..top |-> IF i <= n THEN c[i] ELSE shared[i]]
    BY <1>1 DEF Overwrite
  <1> HIDE DEF s
  <1>6. s \in [1..top -> Cell]
    BY <1>1, <1>2, <1>4, <1>5
  <1>7. \A i \in 1..n : s[i] = <<k, ver[k], acc + i>>
    BY <1>2, <1>3, <1>5
  <1>8. QED
    BY <1>6, <1>7 DEF c, s, top

---------------------------------------------------------------------------
(* The steps of the CPUs.                                                   *)

LEMMA Moved1 ==
  ASSUME LockInv, NEW v \in Vcpus, NEW place, Goto(v, place)
  PROVE  pc'[v] = place /\ \A w \in Vcpus : w # v => pc'[w] = pc[w]
  <1>1. pc \in [Vcpus -> Places]
    BY DEF LockInv
  <1>2. QED
    BY <1>1 DEF Goto

LEMMA TypesKept ==
  ASSUME DataTypes, UNCHANGED <<npages, shared, disk, ver>>, stored' \in SUBSET Keys
  PROVE  DataTypes'
  BY DEF DataTypes, disk

LEMMA CountersKept ==
  ASSUME Counters, UNCHANGED <<env, leaked>>
  PROVE  Counters'
  BY DEF Counters, env

LEMMA CountersBegun ==
  ASSUME Counters, NEW op, Begin(op), UNCHANGED leaked
  PROVE  Counters'
  <1>1. plan.max \in Nat /\ plan \in Plans /\ leaked \in Nat /\ ops \in 0..plan.max
    BY TransferConstants DEF Counters
  <1>2. ops < plan.max /\ ops' = ops + 1 /\ plan' = plan
    BY DEF Begin
  <1>3. ops + 1 \in 0..plan.max
    BY <1>1, <1>2, SMT
  <1>4. QED
    BY <1>1, <1>2, <1>3 DEF Counters

LEMMA SenderKept ==
  ASSUME OneSender, stored' \subseteq stored,
         \A v \in Vcpus : pc'[v] \in Sending => pc[v] \in Sending /\ job'[v] = job[v]
  PROVE  OneSender'
  <1>1. ASSUME NEW v \in Vcpus, NEW w \in Vcpus, pc'[v] \in Sending, pc'[w] \in Sending,
               job'[v] = job'[w]
        PROVE  v = w
    BY <1>1 DEF OneSender
  <1>2. ASSUME NEW v \in Vcpus, pc'[v] \in Sending PROVE job'[v] \notin stored'
    BY <1>2 DEF OneSender
  <1>3. QED
    BY <1>1, <1>2 DEF OneSender

LEMMA BuffersKept ==
  ASSUME Buffers, DOMAIN buf' = DOMAIN buf,
         \A v \in Vcpus : /\ pc'[v] \in Paging <=> pc[v] \in Paging
                          /\ pc[v] \in Paging => job'[v] = job[v]
                          /\ buf'[v] = buf[v]
  PROVE  Buffers'
  BY DEF Buffers

PlacesDiffer == /\ "idle" \notin Sending \cup Paging /\ "flush" \notin Sending \cup Paging
                /\ "out_lock" \in Sending /\ "out_send" \in Sending /\ "out_wait" \in Sending
                /\ "in_lock" \in Paging /\ "in_send" \in Paging /\ "in_wait" \in Paging
                /\ "got" \in Paging /\ Sending \cap Paging = {}

LEMMA PlacesDo == PlacesDiffer
  BY DEF PlacesDiffer, Sending, Paging

LEMMA DataOutStart ==
  ASSUME LockInv, DataInv, NEW v \in Vcpus, NEW k \in Keys, OutStart(v, k)
  PROVE  DataInv'
  <1>1. /\ pc'[v] = "out_lock" /\ pc[v] = "idle" /\ \A w \in Vcpus : w # v => pc'[w] = pc[w]
        /\ job'[v] = k /\ \A w \in Vcpus : w # v => job'[w] = job[w]
    <2>1. job \in [Vcpus -> Keys] /\ job' = [job EXCEPT ![v] = k]
      BY DEF LockInv, OutStart
    <2>2. job'[v] = k /\ \A w \in Vcpus : w # v => job'[w] = job[w]
      BY <2>1
    <2>3. QED
      BY <2>2, Moved1 DEF OutStart
  <1>2. UNCHANGED <<queue, rsp, daemon, files, shared, npages, leaked, disk, ver, stored, buf>>
    BY DEF OutStart, disk
  <1>3. Steady
    <2>1. \A w \in Vcpus : pc[w] = "out_wait" => w # v
      BY <1>1
    <2>2. QED
      BY <1>1, <1>2, <2>1 DEF Steady
  <1>4. Requests' /\ Answer'
    BY <1>2, <1>3, RingKept
  <1>5. DataTypes'
    BY <1>2, TypesKept DEF DataInv, DataTypes
  <1>6. Counters'
    BY <1>2, CountersBegun DEF DataInv, OutStart
  <1>7. OneSender'
    <2>1. k \notin stored /\ \A w \in Vcpus : pc[w] \in Sending => job[w] # k
      BY DEF OutStart
    <2>2. QED
      BY <1>1, <1>2, <2>1 DEF DataInv, OneSender
  <1>8. Buffers'
    <2>1. /\ DOMAIN buf' = DOMAIN buf
          /\ \A w \in Vcpus : /\ pc'[w] \in Paging <=> pc[w] \in Paging
                              /\ pc[w] \in Paging => job'[w] = job[w]
                              /\ buf'[w] = buf[w]
      BY <1>1, <1>2, PlacesDo DEF PlacesDiffer
    <2>2. QED
      BY <2>1, BuffersKept DEF DataInv
  <1>9. QED
    BY <1>4, <1>5, <1>6, <1>7, <1>8 DEF DataInv

\* Neither the ring nor any value is touched.
Quiet == UNCHANGED <<queue, rsp, daemon, files, shared, npages, leaked, disk, ver, job>>

\* A CPU goes from one place to another and neither the ring nor any value
\* is touched.
LEMMA DataMoved ==
  ASSUME LockInv, DataInv, NEW v \in Vcpus, NEW place, Goto(v, place),
         Quiet, Counters', stored' \subseteq stored,
         place \in Sending => pc[v] \in Sending,
         Buffers'
  PROVE  DataInv'
  <1>1. pc'[v] = place /\ \A w \in Vcpus : w # v => pc'[w] = pc[w]
    BY Moved1
  <1>2. Steady
    BY DEF Steady, Quiet
  <1>3. Requests' /\ Answer'
    BY <1>2, RingKept DEF Quiet
  <1>4. DataTypes'
    BY TypesKept DEF DataInv, DataTypes, Quiet
  <1>5. OneSender'
    <2>1. \A w \in Vcpus : pc'[w] \in Sending => pc[w] \in Sending /\ job'[w] = job[w]
      BY <1>1 DEF Quiet
    <2>2. QED
      BY <2>1, SenderKept DEF DataInv
  <1>6. QED
    BY <1>3, <1>4, <1>5 DEF DataInv

LEMMA BuffersMoved ==
  ASSUME LockInv, DataInv, NEW v \in Vcpus, NEW place, Goto(v, place),
         place \in Paging <=> pc[v] \in Paging, UNCHANGED job, UNCHANGED buf
  PROVE  Buffers'
  <1>1. pc'[v] = place /\ \A w \in Vcpus : w # v => pc'[w] = pc[w]
    BY Moved1
  <1>2. /\ DOMAIN buf' = DOMAIN buf
        /\ \A w \in Vcpus : /\ pc'[w] \in Paging <=> pc[w] \in Paging
                            /\ pc[w] \in Paging => job'[w] = job[w]
                            /\ buf'[w] = buf[w]
    BY <1>1
  <1>3. QED
    BY <1>2, BuffersKept DEF DataInv

LEMMA DataLocks ==
  ASSUME LockInv, DataInv, NEW v \in Vcpus, OutLock(v) \/ InLock(v)
  PROVE  DataInv'
  <1>1. PICK place \in {"out_send", "in_send"} :
          /\ Goto(v, place)
          /\ place \in Sending => pc[v] \in Sending
          /\ place \in Paging <=> pc[v] \in Paging
    <2>1. CASE OutLock(v)
      BY <2>1, PlacesDo DEF PlacesDiffer, OutLock
    <2>2. CASE InLock(v)
      BY <2>2, PlacesDo DEF PlacesDiffer, InLock
    <2>3. QED
      BY <2>1, <2>2
  <1>2. Quiet /\ job' = job /\ buf' = buf /\ stored' = stored /\ env' = env /\ leaked' = leaked
    BY DEF OutLock, InLock, disk, Quiet
  <1>3. Counters'
    BY <1>2, CountersKept DEF DataInv
  <1>4. Buffers'
    BY <1>1, <1>2, BuffersMoved
  <1>5. stored' \subseteq stored
    BY <1>2
  <1>6. QED
    BY <1>1, <1>2, <1>3, <1>4, <1>5, DataMoved

\* A CPU sends a message that is no part of a page-out.
LEMMA DataSent ==
  ASSUME LockInv, DataInv, NEW m \in Message, queue' = Append(queue, m), m.type # "PUT",
         m.acc = 0, m.cur = 0, m.type = "GET" => "NEW" \in m.flags,
         UNCHANGED <<rsp, daemon, files, npages, shared>>, Steady
  PROVE  Requests' /\ Answer'
  <1>1. Fields(m)
    <2>1. m.key \in Keys
      BY MessageTypes
    <2>2. QED
      BY <2>1, SizeFacts, SMT DEF Fields
  <1>2. QED
    BY <1>1, RingSent

LEMMA MsgFacts ==
  ASSUME NEW t, NEW v, NEW k, NEW fl
  PROVE  /\ Msg(t, v, k, fl).type = t /\ Msg(t, v, k, fl).key = k /\ Msg(t, v, k, fl).from = v
         /\ Msg(t, v, k, fl).flags = fl /\ Msg(t, v, k, fl).acc = 0 /\ Msg(t, v, k, fl).cur = 0
  BY DEF Msg

LEMMA DataOutSend ==
  ASSUME LockInv, DataInv, NEW v \in Vcpus, OutSend(v)
  PROVE  DataInv'
  <1> DEFINE k == job[v]
             m == OutPart(v, k, 0, {"NEW"})
  <1>1. /\ pc[v] = "out_send" /\ job' = job /\ buf' = buf /\ stored' = stored /\ ver' = ver
        /\ env' = env /\ leaked' = leaked /\ npages' = npages /\ daemon' = daemon /\ rsp' = rsp
        /\ files' = files /\ orphan' = orphan
    BY DEF OutSend, disk
  <1>2. Counters'
    BY <1>1, CountersKept DEF DataInv
  <1>3. CASE Goto(v, "idle") /\ UNCHANGED <<queue, shared>>
    <2>1. Quiet
      BY <1>1, <1>3 DEF Quiet, disk
    <2>2. "idle" \notin Sending /\ ("idle" \in Paging <=> pc[v] \in Paging)
      BY <1>1, PlacesDo DEF PlacesDiffer
    <2>3. Buffers'
      BY <1>1, <1>3, <2>2, BuffersMoved
    <2>4. stored' \subseteq stored
      BY <1>1
    <2>5. QED
      BY <1>2, <1>3, <2>1, <2>2, <2>3, <2>4, DataMoved
  <1>4. CASE /\ shared' = Overwrite(shared, OutPartCells(k, 0, m.cur), m.cur)
             /\ queue' = Append(queue, m) /\ Goto(v, "out_wait")
    <2>1. /\ k \in Keys /\ DataTypes /\ npages \in Nat /\ v \in Vcpus \cup {NoOne}
          /\ {"NEW"} \in SUBSET {"NEW"} /\ "NEW" \in {"NEW"}
      BY DEF LockInv, DataInv
    <2>2. 0 \in Nat /\ 0 \in Int /\ 0 <= SizeOf[k] /\ SizeOf[k] \in Nat
      BY <2>1, SizeFacts, SMT
    <2> HIDE DEF k
    <2>3. /\ m.type = "PUT" /\ m.key = k /\ m.from = v /\ m.acc = 0 + m.cur
          /\ m.cur \in Nat /\ m.cur <= Capacity /\ m.acc <= SizeOf[k] /\ Fields(m)
          /\ "NEW" \in m.flags
      <3> DEFINE new == {"NEW"}
      <3>1. new \in SUBSET {"NEW"} /\ "NEW" \in new
        BY <2>1
      <3> HIDE DEF new
      <3>2. OutPartIs(OutPart(v, k, 0, new), v, k, 0, new)
        BY <2>1, <2>2, <3>1, OutPartFacts
      <3>3. OutPart(v, k, 0, new) = m
        BY DEF new
      <3> HIDE DEF m
      <3>4. QED
        BY <3>1, <3>2, <3>3 DEF OutPartIs
    <2>4. m \in Message
      BY <2>1, <2>2, OutPartType
    <2> DEFINE n == m.cur
    <2> HIDE DEF m
    <2>5. n \in Nat /\ 0 + n <= SizeOf[k] /\ n <= MaxPages * PageSize /\ m.acc - m.cur = 0
      <3>1. Capacity \in Nat /\ Capacity <= MaxPages * PageSize /\ MaxPages * PageSize \in Nat
        BY <2>1, CapFacts, SizeFacts
      <3>2. QED
        BY <2>2, <2>3, <3>1, SMT
    <2> HIDE DEF n
    <2>6. LET s == Overwrite(shared, OutPartCells(k, 0, n), n) IN
          s \in [1..(MaxPages * PageSize) -> Cell] /\ \A i \in 1..n : s[i] = <<k, ver[k], 0 + i>>
      BY <2>1, <2>2, <2>5, PartWritten
    <2>7. /\ shared' \in [1..(MaxPages * PageSize) -> Cell]
          /\ \A i \in 1..m.cur : shared'[i] = <<m.key, ver'[m.key], m.acc - m.cur + i>>
      BY <1>1, <1>4, <2>3, <2>5, <2>6 DEF n
    <2>8. PutPart(m, job', files, shared', ver', Capacity)
      <3>1. m.cur <= m.acc /\ m.acc = m.cur
        BY <2>3, SMT
      <3>2. QED
        BY <1>1, <2>3, <2>7, <3>1 DEF PutPart, k
    <2>9. \A i \in DOMAIN queue : queue[i].type # "PUT"
      <3>1. putLock = v
        BY <1>1, InvParts DEF PutRule, Rule
      <3>2. pc[v] # "out_wait"
        BY <1>1
      <3>3. QED
        BY <3>1, <3>2, FlyingPut
    <2>10. Steady
      BY <1>1 DEF Steady
    <2>11. Requests' /\ Answer'
      <3>1. queue' = Append(queue, m)
        BY <1>4
      <3>2. UNCHANGED <<rsp, daemon, files, npages>>
        BY <1>1
      <3>3. QED
        BY <2>3, <2>4, <2>8, <2>9, <2>10, <3>1, <3>2, RingSent
    <2>12. DataTypes'
      BY <1>1, <2>1, <2>7 DEF DataTypes
    <2>13. pc'[v] = "out_wait" /\ \A w \in Vcpus : w # v => pc'[w] = pc[w]
      BY <1>4, Moved1
    <2>14. OneSender'
      <3>1. \A w \in Vcpus : pc'[w] \in Sending => pc[w] \in Sending /\ job'[w] = job[w]
        BY <1>1, <2>13, PlacesDo DEF PlacesDiffer
      <3>2. stored' \subseteq stored
        BY <1>1
      <3>3. QED
        BY <3>1, <3>2, SenderKept DEF DataInv
    <2>15. Buffers'
      <3>1. "out_wait" \in Paging <=> pc[v] \in Paging
        BY <1>1, PlacesDo DEF PlacesDiffer
      <3>2. QED
        BY <1>1, <1>4, <3>1, BuffersMoved
    <2>16. QED
      BY <1>2, <2>11, <2>12, <2>14, <2>15 DEF DataInv
  <1>5. QED
    BY <1>3, <1>4 DEF OutSend

LEMMA DataOutWait ==
  ASSUME LockInv, DataInv, NEW v \in Vcpus, OutWait(v)
  PROVE  DataInv'
  <1>1. /\ pc[v] = "out_wait" /\ stored' = stored \cup {job[v]} /\ Goto(v, "idle")
        /\ UNCHANGED <<queue, rsp, daemon, files, shared, npages, leaked, disk, ver, job, env, buf>>
    BY DEF OutWait, LockInv, disk
  <1>2. pc'[v] = "idle" /\ \A w \in Vcpus : w # v => pc'[w] = pc[w]
    BY <1>1, Moved1
  <1>3. Steady
    BY <1>1 DEF Steady
  <1>4. Requests' /\ Answer'
    BY <1>1, <1>3, RingKept
  <1>5. DataTypes'
    <2>1. stored' \in SUBSET Keys
      BY <1>1 DEF LockInv, DataInv, DataTypes
    <2>2. QED
      BY <1>1, <2>1, TypesKept DEF DataInv
  <1>6. Counters'
    BY <1>1, CountersKept DEF DataInv
  <1>7. OneSender'
    BY <1>1, <1>2, PlacesDo DEF DataInv, OneSender, PlacesDiffer
  <1>8. Buffers'
    <2>1. "idle" \in Paging <=> pc[v] \in Paging
      BY <1>1, PlacesDo DEF PlacesDiffer
    <2>2. QED
      BY <1>1, <2>1, BuffersMoved
  <1>9. QED
    BY <1>4, <1>5, <1>6, <1>7, <1>8 DEF DataInv

LEMMA DataInStart ==
  ASSUME LockInv, DataInv, NEW v \in Vcpus, NEW k \in Keys, InStart(v, k)
  PROVE  DataInv'
  <1>1. /\ pc'[v] = "in_lock" /\ pc[v] = "idle" /\ \A w \in Vcpus : w # v => pc'[w] = pc[w]
        /\ job'[v] = k /\ \A w \in Vcpus : w # v => job'[w] = job[w]
    <2>1. job \in [Vcpus -> Keys] /\ job' = [job EXCEPT ![v] = k]
      BY DEF LockInv, InStart
    <2>2. job'[v] = k /\ \A w \in Vcpus : w # v => job'[w] = job[w]
      BY <2>1
    <2>3. QED
      BY <2>2, Moved1 DEF InStart
  <1>2. /\ UNCHANGED <<queue, rsp, daemon, files, shared, npages, leaked, disk, ver>>
        /\ stored' = stored /\ leaked' = leaked
    BY DEF InStart, disk
  <1>3. Steady
    <2>1. \A w \in Vcpus : pc[w] = "out_wait" => w # v
      BY <1>1
    <2>2. QED
      BY <1>1, <1>2, <2>1 DEF Steady
  <1>4. Requests' /\ Answer'
    BY <1>2, <1>3, RingKept
  <1>5. DataTypes'
    BY <1>2, TypesKept DEF DataInv, DataTypes
  <1>6. Counters'
    BY <1>2, CountersBegun DEF DataInv, InStart
  <1>7. OneSender'
    <2>1. "in_lock" \notin Sending /\ stored' \subseteq stored
      BY <1>2, PlacesDo DEF PlacesDiffer
    <2>2. \A w \in Vcpus : pc'[w] \in Sending => pc[w] \in Sending /\ job'[w] = job[w]
      BY <1>1, <2>1
    <2>3. QED
      BY <2>1, <2>2, SenderKept DEF DataInv
  <1>8. Buffers'
    <2> DEFINE b == [i \in 1..SizeOf[k] |-> Junk]
    <2>1. DOMAIN buf' = Vcpus /\ \A w \in Vcpus : buf'[w] = (IF w = v THEN b ELSE buf[w])
      <3>1. DOMAIN buf = Vcpus /\ buf' = [buf EXCEPT ![v] = b]
        BY DEF DataInv, Buffers, InStart
      <3> HIDE DEF b
      <3>2. QED
        BY <3>1
    <2>2. b \in [1..SizeOf[k] -> Cell]
      BY DEF Cell
    <2> HIDE DEF b
    <2>3. ASSUME NEW w \in Vcpus
          PROVE  /\ pc'[w] \in Paging => buf'[w] \in [1..SizeOf[job'[w]] -> Cell]
                 /\ pc'[w] \notin Paging => buf'[w] = <<>>
      <3>1. CASE w = v
        BY <1>1, <2>1, <2>2, <3>1, PlacesDo DEF PlacesDiffer
      <3>2. CASE w # v
        BY <1>1, <2>1, <3>2 DEF DataInv, Buffers
      <3>3. QED
        BY <3>1, <3>2
    <2>4. QED
      BY <2>1, <2>3 DEF Buffers
  <1>9. QED
    BY <1>4, <1>5, <1>6, <1>7, <1>8 DEF DataInv

LEMMA DataInSend ==
  ASSUME LockInv, DataInv, NEW v \in Vcpus, InSend(v)
  PROVE  DataInv'
  <1>1. /\ pc[v] = "in_send" /\ job' = job /\ buf' = buf /\ ver' = ver
        /\ env' = env /\ leaked' = leaked /\ npages' = npages /\ daemon' = daemon /\ rsp' = rsp
        /\ files' = files /\ orphan' = orphan /\ shared' = shared /\ stored' \subseteq stored
    BY DEF InSend, disk, Freed
  <1>2. Counters'
    BY <1>1, CountersKept DEF DataInv
  <1>3. /\ "got" \notin Sending /\ ("got" \in Paging <=> pc[v] \in Paging)
        /\ "in_wait" \notin Sending /\ ("in_wait" \in Paging <=> pc[v] \in Paging)
    BY <1>1, PlacesDo DEF PlacesDiffer
  <1>4. CASE Goto(v, "got") /\ UNCHANGED queue
    <2>1. Quiet
      BY <1>1, <1>4 DEF Quiet, disk
    <2>2. Buffers'
      BY <1>1, <1>3, <1>4, BuffersMoved
    <2>3. QED
      BY <1>1, <1>2, <1>3, <1>4, <2>1, <2>2, DataMoved
  <1>5. CASE queue' = Append(queue, Msg("GET", v, job[v], {"NEW"})) /\ Goto(v, "in_wait")
    <2> DEFINE m == Msg("GET", v, job[v], {"NEW"})
    <2>1. /\ m \in Message /\ m.type = "GET" /\ m.type # "PUT" /\ "NEW" \in m.flags
          /\ m.acc = 0 /\ m.cur = 0
      <3>1. job[v] \in Keys /\ v \in Vcpus \cup {NoOne}
        BY DEF LockInv
      <3>2. QED
        BY <3>1, MsgType, MsgFacts, SMT
    <2> HIDE DEF m
    <2>2. Steady
      BY <1>1 DEF Steady
    <2>3. Requests' /\ Answer'
      <3>1. UNCHANGED <<rsp, daemon, files, npages, shared>>
        BY <1>1
      <3>2. queue' = Append(queue, m)
        BY <1>5 DEF m
      <3>3. QED
        BY <2>1, <2>2, <3>1, <3>2, DataSent
    <2>4. DataTypes'
      BY <1>1, TypesKept DEF DataInv, DataTypes, disk
    <2>5. pc'[v] = "in_wait" /\ \A w \in Vcpus : w # v => pc'[w] = pc[w]
      BY <1>5, Moved1
    <2>6. OneSender'
      <3>1. \A w \in Vcpus : pc'[w] \in Sending => pc[w] \in Sending /\ job'[w] = job[w]
        BY <1>1, <1>3, <2>5
      <3>2. QED
        BY <1>1, <3>1, SenderKept DEF DataInv
    <2>7. Buffers'
      BY <1>1, <1>3, <1>5, BuffersMoved
    <2>8. QED
      BY <1>2, <2>3, <2>4, <2>6, <2>7 DEF DataInv
  <1>6. QED
    BY <1>4, <1>5 DEF InSend

LEMMA DataInWait ==
  ASSUME LockInv, DataInv, NEW v \in Vcpus, InWait(v)
  PROVE  DataInv'
  <1>1. /\ pc[v] = "in_wait" /\ Goto(v, "got") /\ Quiet /\ stored' \subseteq stored
        /\ job' = job /\ buf' = buf /\ env' = env /\ leaked' = leaked
    BY DEF InWait, Quiet, disk, Freed
  <1>2. "got" \notin Sending /\ ("got" \in Paging <=> pc[v] \in Paging)
    BY <1>1, PlacesDo DEF PlacesDiffer
  <1>3. Counters'
    BY <1>1, CountersKept DEF DataInv
  <1>4. Buffers'
    BY <1>1, <1>2, BuffersMoved
  <1>5. QED
    BY <1>1, <1>2, <1>3, <1>4, DataMoved

LEMMA DataInReturn ==
  ASSUME LockInv, DataInv, NEW v \in Vcpus, InReturn(v)
  PROVE  DataInv'
  <1>1. /\ pc[v] = "got" /\ Goto(v, "idle") /\ Quiet /\ stored' = stored
        /\ job' = job /\ env' = env /\ leaked' = leaked
    BY DEF InReturn, Quiet, disk
  <1>2. "idle" \notin Sending /\ "idle" \notin Paging /\ stored' \subseteq stored
    BY <1>1, PlacesDo DEF PlacesDiffer
  <1>3. Counters'
    BY <1>1, CountersKept DEF DataInv
  <1>4. pc'[v] = "idle" /\ \A w \in Vcpus : w # v => pc'[w] = pc[w]
    BY <1>1, Moved1
  <1>5. Buffers'
    <2>1. DOMAIN buf' = Vcpus /\ \A w \in Vcpus : buf'[w] = (IF w = v THEN <<>> ELSE buf[w])
      <3>1. DOMAIN buf = Vcpus /\ buf' = [buf EXCEPT ![v] = <<>>]
        BY DEF DataInv, Buffers, InReturn
      <3>2. QED
        BY <3>1
    <2>2. ASSUME NEW w \in Vcpus
          PROVE  /\ pc'[w] \in Paging => buf'[w] \in [1..SizeOf[job'[w]] -> Cell]
                 /\ pc'[w] \notin Paging => buf'[w] = <<>>
      <3>1. CASE w = v
        BY <1>2, <1>4, <2>1, <3>1
      <3>2. CASE w # v
        BY <1>1, <1>4, <2>1, <3>2 DEF DataInv, Buffers
      <3>3. QED
        BY <3>1, <3>2
    <2>3. QED
      BY <2>1, <2>2 DEF Buffers
  <1>6. QED
    BY <1>1, <1>2, <1>3, <1>5, DataMoved

\* A CPU tells the daemon something, or finds the ring full.
LEMMA DataNote ==
  ASSUME LockInv, DataInv, Steady, NEW t \in {"DEL", "DOM_FLUSH", "ADD_SHARED_PAGE"},
         NEW v \in Vcpus, NEW k \in Keys,
         queue' = queue \/ queue' = Append(queue, Msg(t, v, k, {})),
         UNCHANGED <<rsp, daemon, files, npages, shared>>
  PROVE  Requests' /\ Answer'
  <1> DEFINE m == Msg(t, v, k, {})
  <1>1. m \in Message /\ m.type # "PUT" /\ m.type # "GET" /\ m.acc = 0 /\ m.cur = 0
    BY MsgType, MsgFacts, SMT
  <1> HIDE DEF m
  <1>2. CASE queue' = Append(queue, m)
    BY <1>1, <1>2, DataSent
  <1>3. CASE queue' = queue
    BY <1>3, RingKept
  <1>4. QED
    BY <1>2, <1>3 DEF m

LEMMA DataDel ==
  ASSUME LockInv, DataInv, NEW v \in Vcpus, NEW k \in Keys, Del(v, k)
  PROVE  DataInv'
  <1>1. /\ k \in stored /\ stored' \subseteq stored /\ ver' = [ver EXCEPT ![k] = 1 - @]
        /\ UNCHANGED <<rsp, daemon, files, npages, shared>> /\ leaked' = leaked
        /\ pc' = pc /\ job' = job /\ buf' = buf /\ orphan' = orphan
        /\ queue' = queue \/ queue' = Append(queue, Msg("DEL", v, k, {}))
    BY DEF Del, disk, cpu
  <1>2. ver \in [Keys -> {0, 1}] /\ stored \subseteq Keys /\ DataTypes
    BY DEF DataInv, DataTypes
  <1>3. ver' \in [Keys -> {0, 1}] /\ \A h \in Keys : h # k => ver'[h] = ver[h]
    BY <1>1, <1>2, SMT
  <1>4. Steady
    <2>1. \A w \in Vcpus : pc[w] = "out_wait" => job[w] \in Keys \ stored
      BY PlacesDo DEF PlacesDiffer, DataInv, OneSender, LockInv
    <2>2. \A w \in Vcpus : pc[w] = "out_wait" => job[w] \in Keys /\ job[w] # k
      BY <1>1, <2>1
    <2>3. QED
      BY <1>1, <1>3, <2>2 DEF Steady
  <1>5. Requests' /\ Answer'
    BY <1>1, <1>4, DataNote
  <1>6. DataTypes'
    BY <1>1, <1>2, <1>3 DEF DataTypes
  <1>7. Counters'
    BY <1>1, CountersBegun DEF DataInv, Del
  <1>8. OneSender'
    BY <1>1, SenderKept DEF DataInv
  <1>9. Buffers'
    BY <1>1 DEF DataInv, Buffers
  <1>10. QED
    BY <1>5, <1>6, <1>7, <1>8, <1>9 DEF DataInv

LEMMA DataFlushList ==
  ASSUME LockInv, DataInv, NEW v \in Vcpus, FlushList(v)
  PROVE  DataInv'
  <1>1. /\ pc[v] = "idle" /\ Goto(v, "flush") /\ Quiet /\ stored' \subseteq stored
        /\ job' = job /\ buf' = buf /\ leaked' = leaked
    BY DEF FlushList, Quiet, disk
  <1>2. "flush" \notin Sending /\ ("flush" \in Paging <=> pc[v] \in Paging)
    BY <1>1, PlacesDo DEF PlacesDiffer
  <1>3. Counters'
    BY <1>1, CountersBegun DEF DataInv, FlushList
  <1>4. Buffers'
    BY <1>1, <1>2, BuffersMoved
  <1>5. QED
    BY <1>1, <1>2, <1>3, <1>4, DataMoved

LEMMA DataFlushSend ==
  ASSUME LockInv, DataInv, NEW v \in Vcpus, FlushSend(v)
  PROVE  DataInv'
  <1>1. /\ pc[v] = "flush" /\ Goto(v, "idle") /\ stored' = stored /\ ver' = ver
        /\ UNCHANGED <<rsp, daemon, files, npages, shared>> /\ leaked' = leaked
        /\ job' = job /\ buf' = buf /\ orphan' = orphan /\ env' = env
        /\ queue' = queue \/ queue' = Append(queue, Msg("DOM_FLUSH", v, job[v], {}))
    BY DEF FlushSend, disk
  <1>2. "idle" \notin Sending /\ ("idle" \in Paging <=> pc[v] \in Paging)
    BY <1>1, PlacesDo DEF PlacesDiffer
  <1>3. Steady
    BY <1>1 DEF Steady
  <1>4. Requests' /\ Answer'
    <2>1. job[v] \in Keys
      BY DEF LockInv
    <2>2. QED
      BY <1>1, <1>3, <2>1, DataNote
  <1>5. DataTypes'
    BY <1>1, TypesKept DEF DataInv, DataTypes, disk
  <1>6. Counters'
    BY <1>1, CountersKept DEF DataInv
  <1>7. OneSender'
    <2>1. pc'[v] = "idle" /\ \A w \in Vcpus : w # v => pc'[w] = pc[w]
      BY <1>1, Moved1
    <2>2. \A w \in Vcpus : pc'[w] \in Sending => pc[w] \in Sending /\ job'[w] = job[w]
      BY <1>1, <1>2, <2>1
    <2>3. stored' \subseteq stored
      BY <1>1
    <2>4. QED
      BY <2>2, <2>3, SenderKept DEF DataInv
  <1>8. Buffers'
    BY <1>1, <1>2, BuffersMoved
  <1>9. QED
    BY <1>4, <1>5, <1>6, <1>7, <1>8 DEF DataInv

LEMMA DataAddSharedPage ==
  ASSUME LockInv, DataInv, NEW v \in Vcpus, AddSharedPage(v)
  PROVE  DataInv'
  <1>1. /\ stored' = stored /\ ver' = ver
        /\ UNCHANGED <<rsp, daemon, files, npages, shared>> /\ leaked' = leaked
        /\ pc' = pc /\ job' = job /\ buf' = buf /\ orphan' = orphan
        /\ queue' = queue \/ queue' = Append(queue, Msg("ADD_SHARED_PAGE", v, job[v], {}))
    BY DEF AddSharedPage, disk, cpu
  <1>2. Steady
    BY <1>1 DEF Steady
  <1>3. Requests' /\ Answer'
    <2>1. job[v] \in Keys
      BY DEF LockInv
    <2>2. QED
      BY <1>1, <1>2, <2>1, DataNote
  <1>4. DataTypes'
    BY <1>1, TypesKept DEF DataInv, DataTypes, disk
  <1>5. Counters'
    BY <1>1, CountersBegun DEF DataInv, AddSharedPage
  <1>6. OneSender' /\ Buffers'
    BY <1>1 DEF DataInv, OneSender, Buffers
  <1>7. QED
    BY <1>3, <1>4, <1>5, <1>6 DEF DataInv

---------------------------------------------------------------------------
(* The steps of the daemon.                                                 *)

LEMMA CpusKept ==
  ASSUME DataInv, UNCHANGED <<pc, job, buf, stored>>
  PROVE  OneSender' /\ Buffers'
  BY DEF DataInv, OneSender, Buffers

LEMMA RequestFacts ==
  ASSUME LockInv, DataInv, NEW t, Request(t)
  PROVE  LET m == Head(queue) IN
         /\ m \in Message /\ m.type = t /\ 1 \in DOMAIN queue /\ m = queue[1]
         /\ Fields(m) /\ (m.type = "PUT" => PutPart(m, job, files, shared, ver, Capacity))
         /\ m.type = "GET" /\ "NEW" \notin m.flags => Len(files[m.key]) <= m.acc
         /\ queue # <<>> /\ queue' = Tail(queue) /\ daemon = "poll"
         /\ m.key \in Keys /\ m.acc \in Nat /\ m.cur \in Nat /\ SizeOf[m.key] \in Nat
         /\ m.acc <= SizeOf[m.key] /\ m.cur <= MaxPages * PageSize
  <1> DEFINE m == Head(queue)
  <1>1. m.type = t /\ queue # <<>> /\ queue' = Tail(queue) /\ daemon = "poll"
    BY DEF Request
  <1>2. m \in Message /\ 1 \in DOMAIN queue /\ m = queue[1]
    BY <1>1, TailFacts DEF LockInv
  <1>3. RequestOk(queue, 1, job, files, shared, ver, Capacity)
    BY <1>2 DEF DataInv, Requests, AllOk
  <1> HIDE DEF m
  <1>4. /\ Fields(m) /\ (m.type = "PUT" => PutPart(m, job, files, shared, ver, Capacity))
        /\ m.type = "GET" /\ "NEW" \notin m.flags => Len(files[m.key]) <= m.acc
    BY <1>2, <1>3 DEF RequestOk, Behind
  <1>5. m.key \in Keys
    BY <1>2, MessageTypes
  <1>6. /\ m.acc \in Nat /\ m.cur \in Nat /\ SizeOf[m.key] \in Nat
        /\ m.acc <= SizeOf[m.key] /\ m.cur <= MaxPages * PageSize
    BY <1>4, <1>5, SizeFacts, SMT DEF Fields
  <1>7. QED
    BY <1>1, <1>2, <1>4, <1>5, <1>6 DEF m

LEMMA RespondFacts ==
  ASSUME NEW m, NEW fl, NEW n, Respond(m, fl, n)
  PROVE  /\ daemon' = "resume" /\ rsp'.type = m.type /\ rsp'.key = m.key /\ rsp'.from = m.from
         /\ rsp'.acc = m.acc /\ rsp'.cur = n /\ rsp'.flags = fl \ {"NEW"}
         /\ \A t : Returning(t)' <=> m.type = t
  <1>1. /\ daemon' = "resume" /\ rsp'.type = m.type /\ rsp'.key = m.key /\ rsp'.from = m.from
        /\ rsp'.acc = m.acc /\ rsp'.cur = n /\ rsp'.flags = fl \ {"NEW"}
    BY DEF Respond
  <1>2. QED
    BY <1>1 DEF Returning

\* A request is taken and no file gets longer.
LEMMA RequestsServed ==
  ASSUME LockInv, DataInv, NEW t, Request(t), files' \in [Keys -> Seq(Cell)],
         Shorter(files, files'), shared' = shared, job' = job, ver' = ver,
         Capacity' \in Int, Capacity <= Capacity'
  PROVE  Requests'
  <1>1. /\ queue \in Seq(Message) /\ files \in [Keys -> Seq(Cell)] /\ DataTypes
        /\ AllOk(queue, job, files, shared, ver, Capacity)
    BY DEF LockInv, DataInv, DataTypes, Requests
  <1>2. Capacity \in Int
    BY <1>1, CapFacts, SMT
  <1>3. queue # <<>> /\ queue' = Tail(queue) /\ Tail(queue) \in Seq(Message)
    BY <1>1, TailFacts DEF Request
  <1> DEFINE q == Tail(queue)
             cap == Capacity
             cap2 == Capacity'
             f == files
             g == files'
  <1>4. AllOk(q, job, files, shared, ver, cap)
    BY <1>1, <1>3, RequestsTaken DEF AllOk
  <1>5. PutsKeep(q, job, job, shared, shared, ver, ver)
    BY DEF PutsKeep
  <1>6. /\ q \in Seq(Message) /\ cap \in Int /\ cap2 \in Int /\ cap <= cap2
        /\ f \in [Keys -> Seq(Cell)] /\ g \in [Keys -> Seq(Cell)] /\ Shorter(f, g)
        /\ AllOk(q, job, f, shared, ver, cap)
    BY <1>1, <1>2, <1>3, <1>4
  <1> HIDE DEF q, cap, cap2, f, g
  <1>7. AllOk(q, job, g, shared, ver, cap2)
    BY <1>5, <1>6, RequestsKept
  <1>8. QED
    BY <1>3, <1>7 DEF Requests, q, cap2, g

\* A PUT request is taken and its part written.
LEMMA RequestsWritten ==
  ASSUME LockInv, DataInv, Request("PUT"),
         \A k \in Keys : \/ Len(files'[k]) <= Len(files[k])
                         \/ k = Head(queue).key /\ Len(files'[k]) <= Grown(files, Head(queue)),
         files' \in [Keys -> Seq(Cell)]
  PROVE  Requests'
  <1> DEFINE m == Head(queue)
             q == Tail(queue)
  <1>1. /\ queue \in Seq(Message) /\ files \in [Keys -> Seq(Cell)]
        /\ AllOk(queue, job, files, shared, ver, Capacity)
    BY DEF LockInv, DataInv, DataTypes, Requests
  <1>2. /\ m \in Message /\ m.type = "PUT" /\ 1 \in DOMAIN queue /\ m = queue[1]
        /\ queue # <<>> /\ queue' = q /\ m.key \in Keys
    BY RequestFacts
  <1>3. \A i \in DOMAIN q : i + 1 \in DOMAIN queue /\ q[i] = queue[i + 1] /\ i + 1 # 1
    BY <1>1, <1>2, TailFacts
  <1>4. q \in Seq(Message) /\ \A i \in DOMAIN q : q[i].type # "PUT"
    <2>1. \A j \in DOMAIN queue : queue[j].type = "PUT" => j = 1
      BY <1>2, FlyingPut
    <2>2. q \in Seq(Message)
      BY <1>1, <1>2, TailFacts
    <2>3. QED
      BY <1>3, <2>1, <2>2
  <1>5. ASSUME NEW i \in DOMAIN q
        PROVE  RequestOk(q, i, job', files', shared', ver', Capacity')
    <2>1. /\ RequestOk(q, i, job, files, shared, ver, Capacity)
          /\ m \in UpTo(queue, i) /\ UpTo(q, i - 1) \subseteq UpTo(queue, i)
          /\ q[i] = queue[i + 1] /\ i + 1 \in DOMAIN queue
          /\ RequestOk(queue, i + 1, job, files, shared, ver, Capacity) /\ (i + 1) - 1 = i
      BY <1>1, <1>2, RequestsTaken
    <2>2. Fields(q[i]) /\ q[i].type # "PUT"
      BY <1>4, <2>1 DEF RequestOk
    <2> HIDE DEF m, q
    <2>3. ASSUME q[i].type = "GET", "NEW" \notin q[i].flags
          PROVE  Behind(files', q[i].key, q[i].acc, UpTo(q, i - 1))
      <3>1. Behind(files, q[i].key, q[i].acc, UpTo(queue, i))
        <4>1. /\ RequestOk(queue, i + 1, job, files, shared, ver, Capacity)
              /\ q[i] = queue[i + 1] /\ (i + 1) - 1 = i
          BY <2>1
        <4>2. queue[i + 1].type = "GET" /\ "NEW" \notin queue[i + 1].flags
          BY <2>3, <4>1
        <4>3. RequestOk(queue, i + 1, job, files, shared, ver, Capacity)
          BY <4>1
        <4>4. Behind(files, queue[i + 1].key, queue[i + 1].acc, UpTo(queue, (i + 1) - 1))
          BY <4>2, <4>3, OkBehind
        <4>5. QED
          BY <4>1, <4>4
      <3>2. q[i] \in Message /\ q[i].key \in Keys /\ q[i].acc \in Int
        <4>1. q[i] \in Message
          BY <1>4, SeqElement, SeqTyped
        <4>2. QED
          BY <4>1, MessageTypes
      <3>3. Len(files[q[i].key]) <= q[i].acc
        BY <3>1 DEF Behind
      <3>4. q[i].key = m.key => Grown(files, m) <= q[i].acc
        BY <1>2, <2>1, <3>1 DEF Behind
      <3>5. Len(files'[q[i].key]) <= q[i].acc
        <4>1. Len(files[q[i].key]) \in Int /\ Len(files'[q[i].key]) \in Int /\ Grown(files, m) \in Int
          <5>1. m.cur \in Int /\ Len(files[m.key]) \in Nat
            BY <1>1, <1>2, MessageTypes, FileTypes
          <5>2. Grown(files, m) \in Int
            BY <5>1, SMT DEF Grown
          <5>3. Len(files[q[i].key]) \in Nat /\ Len(files'[q[i].key]) \in Nat
            BY <1>1, <3>2, FileTypes
          <5>4. QED
            BY <5>2, <5>3, SMT
        <4>2. \/ Len(files'[q[i].key]) <= Len(files[q[i].key])
              \/ q[i].key = m.key /\ Len(files'[q[i].key]) <= Grown(files, m)
          BY <3>2 DEF m
        <4>3. QED
          BY <3>2, <3>3, <3>4, <4>1, <4>2, LeqTransitive
      <3>6. \A p \in UpTo(q, i - 1) : p.type # "PUT"
        <4>1. \A j \in 1..(i - 1) : j \in DOMAIN q
          BY <1>4, SMT
        <4>2. QED
          BY <1>4, <4>1 DEF UpTo
      <3>7. QED
        BY <3>5, <3>6 DEF Behind
    <2>5. QED
      BY <2>2, <2>3 DEF RequestOk
  <1>6. QED
    BY <1>2, <1>5 DEF Requests, AllOk

\* What writing a part makes of the file.
LEMMA PartAppended ==
  ASSUME LockInv, DataInv, Request("PUT"), NEW old \in Seq(Cell)
  PROVE  LET m == Head(queue)
             s == old \o SubSeq(shared, 1, m.cur)
         IN  s \in Seq(Cell) /\ Len(s) = Len(old) + m.cur
  <1> DEFINE m == Head(queue)
             n == m.cur
             p == SubSeq(shared, 1, n)
  <1>1. n \in Nat /\ n <= MaxPages * PageSize
    BY RequestFacts
  <1>2. shared \in [1..(MaxPages * PageSize) -> Cell] /\ MaxPages * PageSize \in Nat
    BY SizeFacts DEF DataInv, DataTypes
  <1> HIDE DEF m, n
  <1>3. \A i \in 1..n : i \in 1..(MaxPages * PageSize)
    BY <1>1, <1>2, SMT
  <1>4. 1 \in Int /\ n \in Int /\ \A i \in 1..n : shared[i] \in Cell
    BY <1>1, <1>2, <1>3, SMT
  <1>5. p \in Seq(Cell) /\ Len(p) = (IF 1 <= n THEN n - 1 + 1 ELSE 0)
    BY <1>4, Slice, SMT
  <1> HIDE DEF p
  <1>6. Len(p) = n
    BY <1>1, <1>5, SMT
  <1>7. old \o p \in Seq(Cell) /\ Len(old \o p) = Len(old) + Len(p)
    BY <1>5, Joined
  <1>8. QED
    BY <1>6, <1>7 DEF p, n, m

LEMMA DataServePut ==
  ASSUME LockInv, DataInv, ServePut
  PROVE  DataInv'
  <1> DEFINE m == Head(queue)
             new == "NEW" \in m.flags
             old == IF new THEN <<>> ELSE files[m.key]
             s == old \o SubSeq(shared, 1, m.cur)
  <1>1. /\ Request("PUT") /\ leaked' = leaked /\ shared' = shared /\ npages' = npages
        /\ pc' = pc /\ job' = job /\ buf' = buf /\ stored' = stored /\ ver' = ver /\ env' = env
        /\ \/ /\ Respond(m, m.flags, 0)
              /\ (files' = files /\ ~new) \/ files' = [files EXCEPT ![m.key] = s]
              /\ orphan' = (orphan /\ ~new)
           \/ Respond(m, m.flags \cup {"ERROR"}, m.cur) /\ files' = files /\ orphan' = orphan
    BY DEF ServePut, disk, cpu
  <1>2. /\ m \in Message /\ m.type = "PUT" /\ m.key \in Keys /\ m.acc \in Nat /\ m.cur \in Nat
        /\ SizeOf[m.key] \in Nat /\ m.acc <= SizeOf[m.key] /\ Fields(m)
        /\ m.cur <= MaxPages * PageSize /\ PutPart(m, job, files, shared, ver, Capacity)
    BY <1>1, RequestFacts
  <1>3. files \in [Keys -> Seq(Cell)] /\ DataTypes
    BY DEF DataInv, DataTypes
  <1>4. files[m.key] \in Seq(Cell) /\ Len(files[m.key]) \in Nat
    BY <1>2, <1>3, FileTypes
  <1>5. old \in Seq(Cell) /\ Len(old) = (IF new THEN 0 ELSE Len(files[m.key]))
    BY <1>4, SMT
  <1>6. s \in Seq(Cell) /\ Len(s) = Len(old) + m.cur
    BY <1>1, <1>5, PartAppended
  <1> HIDE DEF s, old
  <1>7. m.cur <= m.acc /\ (~new => Len(files[m.key]) <= m.acc - m.cur)
    BY <1>2 DEF PutPart
  <1>8. /\ Len(s) = Grown(files, m) /\ Len(s) <= m.acc
        /\ ~new => Len(files[m.key]) <= m.acc
    <2>1. CASE new
      <3>1. Len(s) = m.cur
        BY <1>2, <1>5, <1>6, <2>1, SMT
      <3>2. QED
        BY <1>7, <2>1, <3>1 DEF Grown
    <2>2. CASE ~new
      <3>1. Len(s) = Len(files[m.key]) + m.cur
        BY <1>5, <1>6, <2>2
      <3>2. /\ m.acc \in Nat /\ m.cur \in Nat /\ Len(files[m.key]) \in Nat
            /\ m.cur <= m.acc /\ Len(files[m.key]) <= m.acc - m.cur
        BY <1>2, <1>4, <1>7, <2>2
      <3>3. Len(s) <= m.acc /\ Len(files[m.key]) <= m.acc
        BY <3>1, <3>2, SMT
      <3>4. QED
        BY <2>2, <3>1, <3>3 DEF Grown
    <2>3. QED
      BY <2>1, <2>2
  <1>9. /\ files' \in [Keys -> Seq(Cell)]
        /\ \A k \in Keys : \/ files'[k] = files[k]
                           \/ k = m.key /\ files'[k] = s
    BY <1>1, <1>2, <1>3, <1>6
  <1>10. Requests'
    <2>1. \A k \in Keys : \/ Len(files'[k]) <= Len(files[k])
                          \/ k = Head(queue).key /\ Len(files'[k]) <= Grown(files, Head(queue))
      <3>1. \A k \in Keys : Len(files[k]) \in Nat /\ Len(s) \in Nat
        BY <1>3, <1>6, FileTypes, SeqTyped
      <3>2. \A i \in Nat : i <= i
        BY SMT
      <3>3. QED
        BY <1>8, <1>9, <3>1, <3>2
    <2>2. QED
      BY <1>1, <1>9, <2>1, RequestsWritten
  <1>11. DataTypes'
    <2>1. \A k \in Keys : Len(files'[k]) <= SizeOf[k]
      <3>1. Len(s) <= SizeOf[m.key]
        BY <1>2, <1>6, <1>8, SeqTyped, SMT
      <3>2. QED
        BY <1>3, <1>9, <3>1 DEF DataTypes
    <2>2. orphan' \in BOOLEAN
      BY <1>1, <1>3 DEF DataTypes
    <2>3. QED
      BY <1>1, <1>3, <1>9, <2>1, <2>2 DEF DataTypes
  <1>12. Answer'
    <2>1. /\ daemon' = "resume" /\ rsp'.key = m.key /\ rsp'.from = m.from /\ rsp'.acc = m.acc
          /\ rsp'.cur \in {0, m.cur} /\ \A t : Returning(t)' <=> m.type = t
      <3>1. CASE Respond(m, m.flags, 0)
        BY <3>1, RespondFacts
      <3>2. CASE Respond(m, m.flags \cup {"ERROR"}, m.cur)
        BY <3>2, RespondFacts, SMT
      <3>3. QED
        BY <1>1, <3>1, <3>2
    <2>2. Fields(rsp)'
      <3>1. 0 \in 0..(MaxPages * PageSize) /\ m.cur \in 0..(MaxPages * PageSize)
        BY <1>2, SizeFacts, SMT
      <3>2. QED
        BY <1>2, <2>1, <3>1 DEF Fields
    <2>3. rsp'.key = job'[rsp'.from]
      BY <1>1, <1>2, <2>1 DEF PutPart
    <2>4. "ERROR" \notin rsp'.flags => Len(files'[rsp'.key]) <= rsp'.acc
      <3>1. CASE files' = [files EXCEPT ![m.key] = s]
        BY <1>2, <1>3, <1>8, <2>1, <3>1
      <3>2. CASE /\ files' = files
                 /\ new => Respond(m, m.flags \cup {"ERROR"}, m.cur)
        <4>1. CASE new
          BY <3>2, <4>1, RespondFacts, SMT
        <4>2. CASE ~new
          BY <1>8, <2>1, <3>2, <4>2
        <4>3. QED
          BY <4>1, <4>2
      <3>3. QED
        BY <1>1, <3>1, <3>2
    <2>5. ~Returning("GET")'
      BY <1>2, <2>1, SMT
    <2>6. QED
      BY <2>2, <2>3, <2>4, <2>5 DEF Answer
  <1>13. QED
    BY <1>1, <1>10, <1>11, <1>12, CpusKept, CountersKept DEF DataInv

\* A page-in finds nothing in the file beyond what it has already read.
LEMMA DataServeGet ==
  ASSUME LockInv, DataInv, ServeGet
  PROVE  DataInv'
  <1> DEFINE m == Head(queue)
             k == m.key
             new == "NEW" \in m.flags
             file == IF new THEN <<>> ELSE files[k]
             left == SizeOf[k] - m.acc
             cur == Smaller(left, Capacity)
             start == IF m.acc = 0 THEN 0 ELSE m.acc + 1
             final == left <= Capacity
             fl == m.flags \cup (IF left >= PageSize THEN {"CONT"} ELSE {})
                           \cup (IF final THEN {"FINAL"} ELSE {})
             Read == /\ shared' = [i \in DOMAIN shared |->
                                     IF i <= cur /\ start + i <= Len(file)
                                       THEN file[start + i] ELSE shared[i]]
                     /\ files' = [files EXCEPT ![k] = IF final THEN NoFile ELSE file]
                     /\ Respond(m, fl, cur) /\ orphan' = orphan
             Failed == /\ Respond(m, m.flags \cup {"ERROR"}, m.cur)
                       /\ shared' = shared /\ files' = files /\ orphan' = orphan
  <1>1. /\ Request("GET") /\ leaked' = leaked /\ npages' = npages
        /\ pc' = pc /\ job' = job /\ buf' = buf /\ stored' = stored /\ ver' = ver /\ env' = env
        /\ Read \/ Failed
    BY DEF ServeGet, disk, cpu
  <1>2. /\ m \in Message /\ m.type = "GET" /\ k \in Keys /\ m.acc \in Nat /\ m.cur \in Nat
        /\ SizeOf[k] \in Nat /\ m.acc <= SizeOf[k] /\ m.cur <= MaxPages * PageSize
        /\ (~new => Len(files[k]) <= m.acc)
    BY <1>1, RequestFacts
  <1>3. /\ files \in [Keys -> Seq(Cell)] /\ DataTypes /\ queue \in Seq(Message)
        /\ shared \in [1..(MaxPages * PageSize) -> Cell]
    BY DEF LockInv, DataInv, DataTypes
  <1>4. Capacity \in Nat /\ Capacity <= MaxPages * PageSize /\ MaxPages * PageSize \in Nat
        /\ Capacity' = Capacity
    BY <1>1, <1>3, CapFacts, SizeFacts DEF Capacity
  <1>5. file \in Seq(Cell) /\ Len(file) \in Nat /\ Len(file) <= m.acc
        /\ Len(file) <= Len(files[k]) /\ Len(files[k]) \in Nat
    <2>1. files[k] \in Seq(Cell) /\ Len(files[k]) \in Nat
      BY <1>2, <1>3, FileTypes
    <2>2. QED
      BY <1>2, <2>1, SMT
  <1>6. /\ left \in Nat /\ cur \in Nat /\ cur <= Capacity /\ cur <= left
        /\ ~final => cur = Capacity
    BY <1>2, <1>4, SMT DEF Smaller
  <1> HIDE DEF file
  <1>7. shared' = shared
    <2>1. CASE Failed
      BY <2>1
    <2>2. CASE Read
      <3>1. \A i \in DOMAIN shared : ~(start + i <= Len(file))
        <4>1. start \in Nat /\ start >= m.acc
          BY <1>2, SMT
        <4> HIDE DEF start
        <4>2. \A i \in 1..(MaxPages * PageSize) : ~(start + i <= Len(file))
          BY <1>2, <1>4, <1>5, <4>1, SMT
        <4>3. QED
          BY <1>3, <4>2
      <3>2. shared' = [i \in DOMAIN shared |-> IF i <= cur /\ start + i <= Len(file)
                                                 THEN file[start + i] ELSE shared[i]]
        BY <2>2
      <3> HIDE DEF start, cur, Read
      <3>3. shared' = [i \in DOMAIN shared |-> shared[i]]
        BY <3>1, <3>2
      <3>4. QED
        BY <1>3, <3>3
    <2>3. QED
      BY <1>1, <2>1, <2>2
  <1>8. files' \in [Keys -> Seq(Cell)] /\ Shorter(files, files')
    <2> DEFINE g == IF final THEN NoFile ELSE file
    <2>1. g \in Seq(Cell) /\ Len(g) <= Len(files[k])
      BY <1>5, SMT DEF NoFile
    <2> HIDE DEF g
    <2>2. \/ files' = files
          \/ files' = [files EXCEPT ![k] = g]
      BY <1>1 DEF g
    <2>3. files' \in [Keys -> Seq(Cell)] /\ \A h \in Keys : files'[h] = files[h] \/ (h = k /\ files'[h] = g)
      BY <1>2, <1>3, <2>1, <2>2
    <2>4. \A h \in Keys : Len(files[h]) <= Len(files[h])
      BY <1>3, ShorterSelf DEF Shorter
    <2>5. QED
      BY <2>1, <2>3, <2>4 DEF Shorter
  <1>9. Requests'
    BY <1>1, <1>4, <1>7, <1>8, RequestsServed, SMT
  <1>10. DataTypes'
    <2>1. \A h \in Keys : Len(files'[h]) <= SizeOf[h]
      <3>1. \A h \in Keys : Len(files'[h]) \in Nat /\ Len(files[h]) \in Nat /\ SizeOf[h] \in Nat
        BY <1>3, <1>8, FileTypes, SizeFacts
      <3>2. QED
        BY <1>3, <1>8, <3>1, SMT DEF DataTypes, Shorter
    <2>2. orphan' = orphan
      BY <1>1
    <2>3. QED
      BY <1>1, <1>3, <1>7, <1>8, <2>1, <2>2 DEF DataTypes
  <1>11. Answer'
    <2>1. CASE Failed
      <3>1. /\ rsp'.key = k /\ rsp'.acc = m.acc /\ rsp'.cur = m.cur /\ "ERROR" \in rsp'.flags
            /\ ~Returning("PUT")'
        BY <1>2, <2>1, RespondFacts, SMT
      <3>2. Fields(rsp)'
        BY <1>2, <1>4, <3>1, SMT DEF Fields
      <3>3. QED
        BY <3>1, <3>2 DEF Answer
    <2>2. CASE Read
      <3>1. /\ rsp'.key = k /\ rsp'.acc = m.acc /\ rsp'.cur = cur /\ rsp'.flags = fl \ {"NEW"}
            /\ ~Returning("PUT")'
        <4> HIDE DEF fl, cur
        <4>1. Respond(m, fl, cur)
          BY <2>2
        <4>2. QED
          BY <1>2, <4>1, RespondFacts, SMT
      <3>2. "FINAL" \notin rsp'.flags => ~final
        BY <3>1
      <3> HIDE DEF left, cur, final, fl, Read
      <3>3. Fields(rsp)' /\ rsp'.acc + rsp'.cur <= SizeOf[rsp'.key]
        <4>1. /\ m.acc \in 0..SizeOf[k] /\ cur \in 0..(MaxPages * PageSize)
              /\ m.acc + cur <= SizeOf[k]
          BY <1>2, <1>4, <1>6, SMT DEF left
        <4>2. QED
          BY <3>1, <4>1 DEF Fields
      <3>4. ASSUME ~final
            PROVE  /\ Capacity' <= rsp'.cur
                   /\ Behind(files', rsp'.key, rsp'.acc + rsp'.cur, UpTo(queue', Len(queue')))
        <4>1. Capacity' <= rsp'.cur
          BY <1>4, <1>6, <3>1, <3>4
        <4>2. files'[k] = file
          <5>1. files' = [files EXCEPT ![k] = file]
            BY <2>2, <3>4 DEF Read
          <5>2. QED
            BY <1>2, <1>3, <5>1
        <4>3. Len(files'[k]) <= m.acc + cur
          BY <1>2, <1>5, <1>6, <4>2, SMT
        <4>4. ASSUME NEW p \in UpTo(queue', Len(queue')), p.type = "PUT", p.key = k
              PROVE  Grown(files', p) <= m.acc + cur
          <5>1. queue' = Tail(queue) /\ queue # <<>>
            BY <1>1 DEF Request
          <5>2. PICK i \in DOMAIN queue : queue[i] = p
            <6>1. Tail(queue) \in Seq(Message)
              BY <1>3, <5>1, TailFacts
            <6>2. 1..Len(Tail(queue)) = DOMAIN Tail(queue)
              BY <6>1, SeqTyped
            <6>3. PICK j \in DOMAIN Tail(queue) : p = Tail(queue)[j]
              BY <5>1, <6>2 DEF UpTo
            <6>4. QED
              BY <1>3, <5>1, <6>3, TailFacts
          <5>3. PutPart(p, job, files, shared, ver, Capacity) /\ p \in Message
            <6>1. RequestOk(queue, i, job, files, shared, ver, Capacity)
              BY DEF DataInv, Requests, AllOk
            <6>2. queue[i] \in Message
              BY <1>3, SeqElement, SeqTyped
            <6>3. QED
              BY <4>4, <5>2, <6>1, <6>2 DEF RequestOk
          <5>4. p.cur <= Capacity /\ p.cur \in Int
            BY <5>3, MessageTypes DEF PutPart
          <5>5. Grown(files', p) = (IF "NEW" \in p.flags THEN p.cur ELSE Len(file) + p.cur)
            BY <4>2, <4>4 DEF Grown
          <5>6. p.cur <= m.acc + cur /\ Len(file) + p.cur <= m.acc + cur
            BY <1>2, <1>4, <1>5, <1>6, <3>4, <5>4, SMT
          <5>7. QED
            BY <5>5, <5>6
        <4>5. QED
          BY <3>1, <4>1, <4>3, <4>4 DEF Behind
      <3>5. QED
        BY <3>1, <3>2, <3>3, <3>4 DEF Answer
    <2>3. QED
      BY <1>1, <2>1, <2>2
  <1>12. OneSender' /\ Buffers' /\ Counters'
    BY <1>1, CpusKept, CountersKept DEF DataInv
  <1>13. QED
    BY <1>9, <1>10, <1>11, <1>12 DEF DataInv

\* Files are removed and the answer says so.
LEMMA DataRemoved ==
  ASSUME LockInv, DataInv, NEW t, Request(t), t # "PUT", t # "GET",
         files' \in [Keys -> Seq(Cell)], \A k \in Keys : files'[k] \in {files[k], NoFile},
         orphan' \in BOOLEAN, Respond(Head(queue), {"END"}, 0),
         UNCHANGED <<leaked, shared, npages, cpu, stored, ver, env>>
  PROVE  DataInv'
  <1> DEFINE m == Head(queue)
  <1>1. /\ leaked' = leaked /\ npages' = npages /\ shared' = shared
        /\ pc' = pc /\ job' = job /\ buf' = buf /\ stored' = stored /\ ver' = ver /\ env' = env
    BY DEF cpu
  <1>2. /\ m.type = t /\ m.key \in Keys /\ m.acc \in Nat
        /\ SizeOf[m.key] \in Nat /\ m.acc <= SizeOf[m.key]
    BY RequestFacts
  <1>3. DataTypes /\ files \in [Keys -> Seq(Cell)]
    BY DEF DataInv, DataTypes
  <1>4. \A k \in Keys : Len(files'[k]) <= Len(files[k]) /\ Len(files'[k]) <= SizeOf[k]
    <2> TAKE k \in Keys
    <2>1. Len(files[k]) \in Nat /\ Len(files[k]) <= SizeOf[k] /\ SizeOf[k] \in Nat
      BY <1>3, FileTypes, SizeFacts DEF DataTypes
    <2>2. CASE files'[k] = files[k]
      BY <2>1, <2>2, SMT
    <2>3. CASE files'[k] = NoFile
      BY <2>1, <2>3, SMT DEF NoFile
    <2>4. QED
      BY <2>2, <2>3
  <1>5. Requests'
    <2>1. Capacity' \in Int /\ Capacity <= Capacity'
      BY <1>1, <1>3, CapFacts, SMT DEF Capacity
    <2>2. Shorter(files, files')
      BY <1>4 DEF Shorter
    <2>3. QED
      BY <1>1, <2>1, <2>2, RequestsServed
  <1>6. DataTypes'
    BY <1>1, <1>3, <1>4 DEF DataTypes
  <1>7. Answer'
    <2>1. rsp'.key = m.key /\ rsp'.acc = m.acc /\ rsp'.cur = 0
      BY RespondFacts
    <2>2. ~Returning("PUT")' /\ ~Returning("GET")'
      BY <1>2, RespondFacts
    <2>3. Fields(rsp)'
      BY <1>2, <2>1, SizeFacts, SMT DEF Fields
    <2>4. QED
      BY <2>2, <2>3 DEF Answer
  <1>8. OneSender' /\ Buffers' /\ Counters'
    BY <1>1, CpusKept, CountersKept DEF DataInv
  <1>9. QED
    BY <1>5, <1>6, <1>7, <1>8 DEF DataInv

LEMMA DataServeDel ==
  ASSUME LockInv, DataInv, ServeDel
  PROVE  DataInv'
  <1>1. files \in [Keys -> Seq(Cell)] /\ orphan \in BOOLEAN
    BY DEF DataInv, DataTypes
  <1>2. Head(queue).key \in Keys
    BY RequestFacts DEF ServeDel
  <1>3. /\ files' \in [Keys -> Seq(Cell)] /\ orphan' \in BOOLEAN
        /\ \A k \in Keys : files'[k] \in {files[k], NoFile}
    <2>1. files' = [files EXCEPT ![Head(queue).key] = NoFile] /\ orphan' = orphan
      BY DEF ServeDel
    <2>2. NoFile \in Seq(Cell)
      BY SMT DEF NoFile
    <2>3. QED
      BY <1>1, <1>2, <2>1, <2>2
  <1>4. /\ Request("DEL") /\ Respond(Head(queue), {"END"}, 0)
        /\ UNCHANGED <<leaked, shared, npages, cpu, stored, ver, env>>
    BY DEF ServeDel
  <1>5. "DEL" # "PUT" /\ "DEL" # "GET"
    OBVIOUS
  <1>6. QED
    BY <1>3, <1>4, <1>5, DataRemoved

LEMMA DataServeDomFlush ==
  ASSUME LockInv, DataInv, ServeDomFlush
  PROVE  DataInv'
  <1>1. /\ files' \in [Keys -> Seq(Cell)] /\ orphan' \in BOOLEAN
        /\ \A k \in Keys : files'[k] \in {files[k], NoFile}
    BY SMT DEF ServeDomFlush, NoFile
  <1>2. /\ Request("DOM_FLUSH") /\ Respond(Head(queue), {"END"}, 0)
        /\ UNCHANGED <<leaked, shared, npages, cpu, stored, ver, env>>
    BY DEF ServeDomFlush
  <1>3. "DOM_FLUSH" # "PUT" /\ "DOM_FLUSH" # "GET"
    OBVIOUS
  <1>4. QED
    BY <1>1, <1>2, <1>3, DataRemoved

LEMMA DataServeAddSharedPage ==
  ASSUME LockInv, DataInv, ServeAddSharedPage
  PROVE  DataInv'
  <1>1. /\ Request("ADD_SHARED_PAGE") /\ npages' = Smaller(npages + 1, MaxPages)
        /\ leaked' = leaked + 1 /\ shared' = shared /\ daemon' = daemon /\ rsp' = rsp
        /\ files' = files /\ orphan' = orphan
        /\ pc' = pc /\ job' = job /\ buf' = buf /\ stored' = stored /\ ver' = ver /\ env' = env
    BY DEF ServeAddSharedPage, disk, cpu
  <1>2. DataTypes /\ files \in [Keys -> Seq(Cell)] /\ npages \in 1..MaxPages
    BY DEF DataInv, DataTypes
  <1>3. npages' \in 1..MaxPages /\ npages \in Nat /\ npages' \in Nat /\ npages <= npages'
    BY <1>1, <1>2, TransferConstants, SMT DEF Smaller
  <1>4. Capacity' \in Int /\ Capacity <= Capacity'
    <2>1. \A a, b, c \in Nat : a <= b => a * c <= b * c
      BY SMT
    <2>2. PageSize \in Nat
      BY TransferConstants
    <2> DEFINE a == npages
               b == npages'
               c == PageSize
    <2>3. a \in Nat /\ b \in Nat /\ c \in Nat /\ a <= b
      BY <1>3, <2>2
    <2> HIDE DEF a, b, c
    <2>4. a * c <= b * c /\ b * c \in Int
      BY <2>1, <2>3, SMT
    <2>5. QED
      BY <2>4 DEF Capacity, a, b, c
  <1>5. Requests'
    BY <1>1, <1>2, <1>4, RequestsServed, ShorterSelf
  <1>6. DataTypes'
    BY <1>1, <1>2, <1>3 DEF DataTypes
  <1>7. Answer'
    <2>1. daemon' # "resume"
      BY <1>1 DEF Request
    <2>2. \A t : ~Returning(t)'
      BY <2>1 DEF Returning
    <2>3. Fields(rsp)'
      BY <1>1 DEF DataInv, Answer, Fields
    <2>4. QED
      BY <2>2, <2>3 DEF Answer
  <1>8. OneSender' /\ Buffers'
    BY <1>1, CpusKept
  <1>9. Counters'
    BY <1>1, SMT DEF DataInv, Counters, env
  <1>10. QED
    BY <1>5, <1>6, <1>7, <1>8, <1>9 DEF DataInv

---------------------------------------------------------------------------
(* The RESUME hypercall.                                                    *)

LEMMA ResumeAnswer ==
  ASSUME Resuming
  PROVE  Answer'
  <1>1. daemon' = "poll" /\ rsp' = NoMsg
    BY DEF Resuming
  <1>2. \A t : ~Returning(t)'
    BY <1>1 DEF Returning
  <1>3. NoMsg.acc = 0 /\ NoMsg.cur = 0 /\ NoMsg.key \in Keys
    BY TransferConstants DEF NoMsg, Msg
  <1>4. Fields(rsp)'
    BY <1>1, <1>3, SizeFacts, SMT DEF Fields
  <1>5. QED
    BY <1>2, <1>4 DEF Answer

LEMMA DataResumed ==
  ASSUME LockInv, DataInv, ResumeError \/ ResumeEnd
  PROVE  DataInv'
  <1>1. /\ Resuming /\ leaked' = leaked /\ npages' = npages /\ shared' = shared
        /\ files' = files /\ orphan' = orphan /\ queue' = queue
        /\ pc' = pc /\ job' = job /\ buf' = buf /\ stored' = stored /\ ver' = ver /\ env' = env
    BY DEF ResumeError, ResumeEnd, disk, cpu
  <1>2. Steady
    BY <1>1 DEF Steady
  <1>3. Requests'
    BY <1>1, <1>2, RequestsStay
  <1>4. DataTypes'
    BY <1>1 DEF DataInv, DataTypes
  <1>5. OneSender' /\ Buffers' /\ Counters'
    BY <1>1, CpusKept, CountersKept DEF DataInv
  <1>6. QED
    BY <1>1, <1>3, <1>4, <1>5, ResumeAnswer DEF DataInv

LEMMA DataResumeGet ==
  ASSUME LockInv, DataInv, ResumeGet
  PROVE  DataInv'
  <1> DEFINE v == rsp.from
             top == rsp.acc + rsp.cur
             part == [i \in DOMAIN buf[v] |->
                        IF i \in (rsp.acc + 1)..top THEN shared[i - rsp.acc] ELSE buf[v][i]]
  <1>1. /\ Resuming /\ daemon = "resume" /\ rsp.type = "GET" /\ "ERROR" \notin rsp.flags
        /\ leaked' = leaked /\ npages' = npages /\ shared' = shared
        /\ files' = files /\ orphan' = orphan
        /\ pc' = pc /\ job' = job /\ stored' = stored /\ ver' = ver /\ env' = env
    BY DEF ResumeGet, Resuming, disk
  <1>2. Returning("GET")
    BY <1>1 DEF Returning
  <1>3. v \in Vcpus /\ pc[v] \in Paging
    <2>1. getLock # NoOne /\ pc[getLock] = "in_wait" /\ rsp.from = getLock
      BY <1>2, InvParts DEF GetRule, Rule
    <2>2. QED
      BY <2>1, PlacesDo DEF LockInv, PlacesDiffer
  <1>4. /\ rsp.key \in Keys /\ rsp.acc \in Nat /\ rsp.cur \in Nat /\ top \in Nat
        /\ rsp.cur <= MaxPages * PageSize /\ top <= SizeOf[rsp.key]
    <2>1. rsp.key \in Keys /\ Fields(rsp) /\ top <= SizeOf[rsp.key]
      BY <1>1, <1>2, MessageTypes DEF LockInv, DataInv, Answer
    <2>2. QED
      BY <2>1, SizeFacts, SMT DEF Fields
  <1>5. DataTypes /\ shared \in [1..(MaxPages * PageSize) -> Cell] /\ MaxPages * PageSize \in Nat
    BY SizeFacts DEF DataInv, DataTypes
  <1>6. Steady
    BY <1>1 DEF Steady
  <1>7. Requests'
    <2>1. CASE queue' = queue
      BY <1>1, <1>6, <2>1, RequestsStay
    <2>2. CASE queue' = Append(queue, InPart(rsp)) /\ "FINAL" \notin rsp.flags
      <3> DEFINE m == InPart(rsp)
      <3>1. /\ m.type = "GET" /\ m.key = rsp.key /\ m.acc = top /\ m.cur = 0
            /\ m.from = rsp.from /\ m.flags = {}
        BY DEF InPart
      <3>2. m \in Message
        <4>1. top \in Int /\ rsp.from \in Vcpus \cup {NoOne}
          BY <1>3, <1>4, SMT
        <4>2. QED
          BY <1>4, <4>1, SMT DEF InPart, Message
      <3> HIDE DEF m
      <3>3. Fields(m)
        <4>1. top \in 0..SizeOf[rsp.key] /\ 0 \in 0..(MaxPages * PageSize)
          BY <1>4, <1>5, SizeFacts, SMT
        <4>2. QED
          BY <3>1, <4>1 DEF Fields
      <3>4. Behind(files, m.key, m.acc, UpTo(queue, Len(queue)))
        BY <1>1, <1>2, <2>2, <3>1 DEF DataInv, Answer
      <3>5. m.type # "PUT"
        BY <3>1
      <3>6. queue' = Append(queue, m) /\ UNCHANGED <<files, npages>> /\ shared' = shared
        BY <1>1, <2>2 DEF m
      <3>7. QED
        BY <1>6, <3>2, <3>3, <3>4, <3>5, <3>6, RequestsGrow
    <2>3. QED
      BY <2>1, <2>2 DEF ResumeGet
  <1>8. DataTypes'
    BY <1>1 DEF DataInv, DataTypes
  <1>9. OneSender' /\ Counters'
    <2>1. Counters'
      BY <1>1, CountersKept DEF DataInv
    <2>2. QED
      BY <1>1, <2>1 DEF DataInv, OneSender
  <1>10. Buffers'
    <2>1. DOMAIN buf = Vcpus /\ buf[v] \in [1..SizeOf[job[v]] -> Cell]
      BY <1>3 DEF DataInv, Buffers
    <2>2. part \in [1..SizeOf[job[v]] -> Cell]
      <3>1. \A i \in (rsp.acc + 1)..top : i - rsp.acc \in 1..(MaxPages * PageSize)
        BY <1>4, <1>5, SMT
      <3>2. \A i \in (rsp.acc + 1)..top : shared[i - rsp.acc] \in Cell
        BY <1>5, <3>1
      <3> HIDE DEF v, top
      <3>3. QED
        BY <2>1, <3>2
    <2>3. buf' = buf \/ buf' = [buf EXCEPT ![v] = part]
      BY DEF ResumeGet
    <2> HIDE DEF part, v
    <2>4. DOMAIN buf' = Vcpus /\ \A w \in Vcpus : buf'[w] = buf[w] \/ (w = v /\ buf'[w] = part)
      BY <2>1, <2>3
    <2>5. ASSUME NEW w \in Vcpus
          PROVE  /\ pc'[w] \in Paging => buf'[w] \in [1..SizeOf[job'[w]] -> Cell]
                 /\ pc'[w] \notin Paging => buf'[w] = <<>>
      <3>1. CASE buf'[w] = buf[w]
        BY <1>1, <3>1 DEF DataInv, Buffers
      <3>2. CASE w = v /\ buf'[w] = part
        BY <1>1, <1>3, <2>2, <3>2
      <3>3. QED
        BY <2>4, <3>1, <3>2
    <2>6. QED
      BY <2>4, <2>5 DEF Buffers
  <1>11. QED
    BY <1>1, <1>7, <1>8, <1>9, <1>10, ResumeAnswer DEF DataInv

LEMMA DataResumePut ==
  ASSUME LockInv, DataInv, ResumePut
  PROVE  DataInv'
  <1> DEFINE v == rsp.from
             k == rsp.key
             acc == rsp.acc
             m == OutPart(v, k, acc, {})
  <1>1. /\ Resuming /\ daemon = "resume" /\ rsp.type = "PUT" /\ "ERROR" \notin rsp.flags
        /\ leaked' = leaked /\ npages' = npages /\ files' = files /\ orphan' = orphan
        /\ pc' = pc /\ job' = job /\ buf' = buf /\ stored' = stored /\ ver' = ver /\ env' = env
    BY DEF ResumePut, Resuming, disk, cpu
  <1>2. Returning("PUT")
    BY <1>1 DEF Returning
  <1>3. /\ v \in Vcpus /\ k \in Keys /\ k = job[v] /\ \A j \in DOMAIN queue : queue[j].type # "PUT"
    BY <1>2, AnsweredPut
  <1>4. acc \in Nat /\ acc <= SizeOf[k] /\ SizeOf[k] \in Nat /\ Len(files[k]) <= acc
    <2>1. Fields(rsp) /\ Len(files[k]) <= acc
      BY <1>1, <1>2 DEF DataInv, Answer
    <2>2. QED
      BY <1>3, <2>1, SizeFacts, SMT DEF Fields
  <1>5. DataTypes /\ npages \in Nat /\ Capacity \in Nat /\ Capacity <= MaxPages * PageSize
        /\ MaxPages * PageSize \in Nat
    <2>1. DataTypes /\ npages \in Nat
      BY DEF LockInv, DataInv
    <2>2. QED
      BY <2>1, CapFacts, SizeFacts
  <1>6. Steady
    BY <1>1 DEF Steady
  <1>7. /\ m.type = "PUT" /\ m.key = k /\ m.from = v /\ m.acc = acc + m.cur
        /\ m.cur \in Nat /\ m.cur <= Capacity /\ m.acc <= SizeOf[k] /\ Fields(m)
        /\ "NEW" \notin m.flags /\ m \in Message
    <2>1. {} \in SUBSET {"NEW"} /\ "NEW" \notin {} /\ v \in Vcpus \cup {NoOne} /\ acc \in Int
      BY <1>3, <1>4, SMT
    <2> HIDE DEF v, k, acc
    <2>2. m \in Message
      BY <1>3, <1>5, <2>1, OutPartType
    <2>3. OutPartIs(m, v, k, acc, {})
      BY <1>3, <1>4, <1>5, <2>1, OutPartFacts
    <2> HIDE DEF m
    <2>4. QED
      BY <2>1, <2>2, <2>3 DEF OutPartIs
  <1> HIDE DEF v, k, acc, m
  <1>8. CASE queue' = queue /\ shared' = shared
    <2>1. Requests'
      BY <1>1, <1>6, <1>8, RequestsStay
    <2>2. DataTypes'
      BY <1>1, <1>5, <1>8 DEF DataTypes
    <2>3. OneSender' /\ Buffers' /\ Counters'
      BY <1>1, CpusKept, CountersKept DEF DataInv
    <2>4. QED
      BY <1>1, <2>1, <2>2, <2>3, ResumeAnswer DEF DataInv
  <1>9. CASE /\ shared' = Overwrite(shared, OutPartCells(k, acc, m.cur), m.cur)
             /\ queue' = Append(queue, m)
    <2> DEFINE n == m.cur
    <2>1. /\ n \in Nat /\ acc + n <= SizeOf[k] /\ n <= MaxPages * PageSize
          /\ m.acc - m.cur = acc /\ m.cur <= m.acc
      BY <1>4, <1>5, <1>7, SMT
    <2> HIDE DEF n
    <2>2. LET s == Overwrite(shared, OutPartCells(k, acc, n), n) IN
          s \in [1..(MaxPages * PageSize) -> Cell] /\ \A i \in 1..n : s[i] = <<k, ver[k], acc + i>>
      BY <1>3, <1>4, <1>5, <2>1, PartWritten
    <2>3. /\ shared' \in [1..(MaxPages * PageSize) -> Cell]
          /\ \A i \in 1..m.cur : shared'[i] = <<m.key, ver'[m.key], m.acc - m.cur + i>>
      BY <1>1, <1>7, <1>9, <2>1, <2>2 DEF n
    <2>4. PutPart(m, job', files, shared', ver', Capacity)
      BY <1>1, <1>3, <1>4, <1>7, <2>1, <2>3 DEF PutPart
    <2>5. Requests'
      <3>1. UNCHANGED <<files, npages>> /\ m.type # "GET"
        BY <1>1, <1>7
      <3>2. QED
        BY <1>3, <1>6, <1>7, <1>9, <2>4, <3>1, RequestsGrow
    <2>6. DataTypes'
      BY <1>1, <1>5, <2>3 DEF DataTypes
    <2>7. OneSender' /\ Buffers' /\ Counters'
      BY <1>1, CpusKept, CountersKept DEF DataInv
    <2>8. QED
      BY <1>1, <2>5, <2>6, <2>7, ResumeAnswer DEF DataInv
  <1>10. QED
    <2>1. \/ queue' = queue /\ shared' = shared
          \/ /\ shared' = Overwrite(shared, OutPartCells(m.key, acc, m.cur), m.cur)
             /\ queue' = Append(queue, m)
      BY DEF ResumePut, m, v, k, acc
    <2>2. QED
      BY <1>7, <1>8, <1>9, <2>1

---------------------------------------------------------------------------
(* The theorems about the data.                                             *)

LEMMA InitData ==
  ASSUME Init
  PROVE  DataInv
  <1>1. (CHOOSE k \in Keys : TRUE) \in Keys /\ MaxPages \in Nat \ {0}
    BY TransferConstants
  <1>2. DataTypes
    <2>1. /\ npages = 1 /\ shared = [i \in 1..(MaxPages * PageSize) |-> Junk]
          /\ files = [k \in Keys |-> NoFile] /\ orphan = FALSE /\ stored = {}
          /\ ver = [k \in Keys |-> 0]
      BY DEF Init
    <2>2. npages \in 1..MaxPages
      BY <1>1, <2>1, SMT
    <2>3. NoFile \in Seq(Cell) /\ Len(NoFile) = 0 /\ Junk \in Cell
      BY SMT DEF NoFile, Cell
    <2>4. \A k \in Keys : Len(files[k]) <= SizeOf[k]
      BY <2>1, <2>3, SizeFacts, SMT
    <2>5. shared \in [1..(MaxPages * PageSize) -> Cell] /\ files \in [Keys -> Seq(Cell)]
      BY <2>1, <2>3
    <2>6. orphan \in BOOLEAN /\ stored \in SUBSET Keys /\ ver \in [Keys -> {0, 1}]
      BY <2>1
    <2>7. QED
      BY <2>2, <2>4, <2>5, <2>6 DEF DataTypes
  <1>3. Counters
    BY TransferConstants, SMT DEF Init, Counters
  <1>4. \A v \in Vcpus : pc[v] \notin Sending \cup Paging
    BY DEF Init, Sending, Paging
  <1>5. OneSender
    BY <1>4 DEF OneSender
  <1>6. Buffers
    <2>1. DOMAIN buf = Vcpus /\ \A v \in Vcpus : buf[v] = <<>>
      BY DEF Init
    <2>2. QED
      BY <1>4, <2>1 DEF Buffers
  <1>7. Requests
    <2>1. DOMAIN queue = {}
      BY SMT DEF Init
    <2>2. QED
      BY <2>1 DEF Requests, AllOk
  <1>8. Answer
    <2>1. \A t : ~Returning(t)
      BY DEF Init, Returning
    <2>2. rsp.acc = 0 /\ rsp.cur = 0 /\ rsp.key \in Keys
      BY <1>1 DEF Init, NoMsg, Msg
    <2>3. Fields(rsp)
      BY <2>2, SizeFacts, SMT DEF Fields
    <2>4. QED
      BY <2>1, <2>3 DEF Answer
  <1>9. QED
    BY <1>2, <1>3, <1>5, <1>6, <1>7, <1>8 DEF DataInv

LEMMA StutterData ==
  ASSUME DataInv, UNCHANGED vars
  PROVE  DataInv'
  <1>1. /\ pc' = pc /\ job' = job /\ buf' = buf /\ stored' = stored /\ ver' = ver
        /\ ops' = ops /\ plan' = plan /\ leaked' = leaked /\ npages' = npages
        /\ shared' = shared /\ files' = files /\ orphan' = orphan /\ queue' = queue
        /\ rsp' = rsp /\ daemon' = daemon
    BY DEF vars, cpu, env, disk
  <1>2. DataTypes' /\ Counters' /\ OneSender' /\ Buffers'
    BY <1>1 DEF DataInv, DataTypes, Counters, OneSender, Buffers
  <1>3. Requests' /\ Answer'
    BY <1>1 DEF DataInv, Requests, Answer, Returning, Fields, Capacity
  <1>4. QED
    BY <1>2, <1>3 DEF DataInv

LEMMA NextData ==
  ASSUME NoStop, LockInv, DataInv, [Next]_vars
  PROVE  DataInv'
  <1>1. ASSUME DaemonStep PROVE DataInv'
    <2>1. ~Disable
      BY DEF Disable, LockInv
    <2>2. QED
      BY <1>1, <2>1, DataServePut, DataServeGet, DataServeDel, DataServeDomFlush,
         DataServeAddSharedPage, DataResumed, DataResumeGet, DataResumePut DEF DaemonStep
  <1>2. ~Interrupted /\ ~Enable
    BY DEF Interrupted, Begin, Enable, LockInv, NoStop
  <1>3. ASSUME NEW v \in Vcpus, CpuStep(v) PROVE DataInv'
    BY <1>3, DataLocks, DataOutSend, DataOutWait, DataInSend, DataInWait, DataInReturn,
       DataFlushSend DEF CpuStep
  <1>4. ASSUME NEW v \in Vcpus, Environment(v) PROVE DataInv'
    BY <1>4, DataOutStart, DataInStart, DataDel, DataFlushList, DataAddSharedPage
    DEF Environment
  <1>5. QED
    BY <1>1, <1>2, <1>3, <1>4, StutterData DEF Next

\* DataInv is an invariant whatever the CPUs, keys, sizes and pages are, as
\* long as the daemon is not stopped.
THEOREM DataInvariant == Spec => [](NoStop => DataInv)
  <1>1. (NoStop => LockInv) /\ (NoStop => DataInv) /\ [Next]_vars => (NoStop => DataInv)'
    BY NextData, NoStopKept
  <1>2. Init => DataInv
    BY InitData
  <1>3. QED
    BY <1>1, <1>2, LockInvariant, PTL DEF Spec

\* TypeOK holds for every instance: a transfer, however its parts interleave
\* with other transfers, new pages, flushes and errors, stays within its entry
\* and within the shared pages, and no file outgrows its entry.
THEOREM Typed == Spec => [](NoStop => TypeOK)
  <1>1. ASSUME LockInv, DataInv PROVE TypeOK
    <2>1. ASSUME NEW m \in Message, Fields(m)
          PROVE  /\ m.type \in {"PUT", "GET", "DEL", "DOM_FLUSH", "ADD_SHARED_PAGE", "NONE"}
                 /\ m.key \in Keys /\ m.from \in Vcpus \cup {NoOne}
                 /\ m.flags \subseteq {"NEW", "CONT", "FINAL", "END", "ERROR"}
                 /\ m.acc \in 0..SizeOf[m.key] /\ m.cur \in 0..(MaxPages * PageSize)
      BY <2>1 DEF Message, Fields
    <2>2. \A m \in {queue[i] : i \in DOMAIN queue} \cup {rsp} : m \in Message /\ Fields(m)
      <3>1. \A i \in DOMAIN queue : queue[i] \in Message
        BY <1>1, SeqElement, SeqTyped DEF LockInv
      <3>2. QED
        BY <1>1, <3>1 DEF LockInv, DataInv, Requests, AllOk, RequestOk, Answer
    <2>3. ASSUME NEW v \in Vcpus PROVE Len(buf[v]) \in {0, SizeOf[job[v]]}
      <3>1. SizeOf[job[v]] \in Nat
        BY <1>1, SizeFacts DEF LockInv
      <3>2. CASE pc[v] \in Paging
        BY <1>1, <3>1, <3>2, SMT DEF DataInv, Buffers
      <3>3. CASE pc[v] \notin Paging
        BY <1>1, <3>3, SMT DEF DataInv, Buffers
      <3>4. QED
        BY <3>2, <3>3
    <2>4. /\ enabled \in BOOLEAN /\ daemon \in {"poll", "resume", "closing", "off"}
          /\ putLock \in Vcpus \cup {NoOne} /\ getLock \in Vcpus \cup {NoOne}
          /\ pc \in [Vcpus -> Places] /\ job \in [Vcpus -> Keys]
      BY <1>1 DEF LockInv
    <2>5. QED
      BY <1>1, <2>1, <2>2, <2>3, <2>4 DEF TypeOK, DataInv, DataTypes, Counters
  <1>2. QED
    BY <1>1, LockInvariant, DataInvariant, PTL

\* PartIntact for every instance: the shared pages are written by one page-out
\* at a time, and the page-ins that use the same pages write nothing, since
\* they find no bytes in the files they have truncated.
THEOREM PartsIntact == Spec => [](NoStop => PartIntact)
  <1>1. ASSUME LockInv, DataInv PROVE PartIntact
    <2> SUFFICES ASSUME NEW i \in Flying("PUT")
                 PROVE  SubSeq(shared, 1, queue[i].cur) =
                          OutPartCells(queue[i].key, queue[i].acc - queue[i].cur, queue[i].cur)
      BY DEF PartIntact
    <2> DEFINE m == queue[i]
               k == m.key
               n == m.cur
               acc == m.acc - n
    <2>1. i \in DOMAIN queue /\ m.type = "PUT"
      BY DEF Flying
    <2>2. m \in Message /\ Fields(m) /\ PutPart(m, job, files, shared, ver, Capacity) /\ DataTypes
      BY <1>1, <2>1, SeqElement, SeqTyped
      DEF LockInv, DataInv, Requests, AllOk, RequestOk
    <2>3. /\ k \in Keys /\ n \in Nat /\ acc \in Nat /\ acc + n <= SizeOf[k]
          /\ n <= MaxPages * PageSize /\ MaxPages * PageSize \in Nat
      <3>1. k \in Keys /\ m.cur <= m.acc
        BY <2>2, MessageTypes DEF PutPart
      <3>2. QED
        BY <2>2, <3>1, SizeFacts, SMT DEF Fields
    <2>4. \A j \in 1..n : shared[j] = <<k, ver[k], acc + j>>
      BY <2>2 DEF PutPart
    <2> HIDE DEF m, k, n, acc
    <2> DEFINE c == OutPartCells(k, acc, n)
               p == SubSeq(shared, 1, n)
    <2>5. c \in Seq(Cell) /\ Len(c) = n /\ \A j \in 1..n : c[j] = shared[j] /\ c[j] \in Cell
      BY <2>2, <2>3, <2>4, PartCells
    <2> HIDE DEF c
    <2>6. p \in Seq(Cell) /\ Len(p) = n /\ \A j \in 1..n : p[j] = shared[j]
      <3>1. 1 \in Int /\ n \in Int /\ \A j \in 1..n : shared[j] \in Cell
        BY <2>3, <2>5, SMT
      <3>2. /\ p \in Seq(Cell) /\ Len(p) = (IF 1 <= n THEN n - 1 + 1 ELSE 0)
            /\ \A j \in 1..(n - 1 + 1) : p[j] = shared[1 + j - 1]
        BY <3>1, Slice, SMT
      <3> HIDE DEF p
      <3>3. QED
        BY <2>3, <3>2, SMTT(20)
    <2> HIDE DEF p
    <2>7. p = c
      BY <2>5, <2>6, SeqExtensional
    <2>8. QED
      BY <2>7 DEF p, c, m, k, n, acc
  <1>2. QED
    BY <1>1, LockInvariant, DataInvariant, PTL

---------------------------------------------------------------------------
(***************************************************************************)
(* What is listed is whole: an entry that the hypervisor lists has its      *)
(* whole value in its file (StoredIsWhole).                                 *)
(*                                                                          *)
(* The claim is for plans in which nothing fails and the ring has a slot    *)
(* for each operation (Plain).  WholeInv follows a page-out from its first  *)
(* part to its last: what its request, its answer or its listing finds in   *)
(* the file.  Only a DEL of the key could take that away, and every DEL on  *)
(* the ring is of an earlier value: it is ahead of the first part.          *)
(***************************************************************************)

\* Plans for which StoredIsWhole is claimed.
Plain == plan.ops \subseteq {"out", "del", "add"} /\ ~plan.fails /\ RingAmple

Outward == pc \in [Vcpus -> Sending \cup {"idle"}] /\ ~orphan

Beginning == {v \in Vcpus : pc[v] \in {"out_lock", "out_send"}}

\* B has at most c members: each has a number of its own up to c.
Fits(B, c) == \E f \in [B -> 1..c] : \A v, w \in B : f[v] = f[w] => v = w

\* Each operation has one slot of the ring, or will have one: c of them have
\* theirs to take.
OneSlotEach ==
    \E c \in Nat : Fits(Beginning, c) /\ ops >= Len(queue) + leaked + Answering + c

NoDel(q, k) == \A i \in DOMAIN q : q[i].type = "DEL" => q[i].key # k

\* The file of k has the first n bytes of its value, and nothing on the ring
\* will delete it.
Written(q, f, vr, k, n) ==
    /\ NoDel(q, k) /\ n <= SizeOf[k] /\ Len(f[k]) = n
    /\ \A i \in 1..n : f[k][i] = <<k, vr[k], i>>

\* A continuation finds what came before it.  A DEL of its key, which is of an
\* earlier value, is served before the first part.
WholeRequest(q, i, f, vr, st) ==
    /\ q[i].type \in {"PUT", "DEL", "ADD_SHARED_PAGE"} /\ "ERROR" \notin q[i].flags
    /\ q[i].type = "PUT" =>
         /\ "FINAL" \in q[i].flags => q[i].acc = SizeOf[q[i].key]
         /\ "NEW" \notin q[i].flags => Written(q, f, vr, q[i].key, q[i].acc - q[i].cur)
         /\ \A j \in DOMAIN q : q[j].type = "DEL" /\ q[j].key = q[i].key => j < i
    /\ q[i].type = "DEL" => q[i].key \notin st

WholeRequests == \A i \in DOMAIN queue : WholeRequest(queue, i, files, ver, stored)

WholeAnswer ==
    daemon = "resume" =>
      /\ rsp.type \in {"PUT", "DEL"} /\ "ERROR" \notin rsp.flags
      /\ rsp.type = "PUT" =>
           /\ "FINAL" \in rsp.flags => rsp.acc = SizeOf[rsp.key]
           /\ Written(queue, files, ver, rsp.key, rsp.acc)

\* A page-out whose lock has been released is complete, listed or not yet.
WholeWaiting ==
    \A v \in Vcpus : pc[v] = "out_wait" /\ putLock # v =>
      Written(queue, files, ver, job[v], SizeOf[job[v]])

WholeStored == \A k \in stored : Written(queue, files, ver, k, SizeOf[k])

WholeParts ==
    /\ Outward /\ OneSlotEach
    /\ WholeRequests /\ WholeAnswer /\ WholeWaiting /\ WholeStored

WholeInv == Plain => WholeParts

---------------------------------------------------------------------------
\* The value and the file of k stay, and no DEL of k is sent.
Spared(k) ==
    files'[k] = files[k] /\ ver'[k] = ver[k] /\ (NoDel(queue, k) => NoDel(queue', k))

LEMMA SparedWritten ==
  ASSUME NEW k, NEW n, Spared(k), Written(queue, files, ver, k, n)
  PROVE  Written(queue', files', ver', k, n)
  BY DEF Spared, Written

LEMMA NoDelSent ==
  ASSUME NEW q \in Seq(Message), NEW m \in Message, NEW k, NoDel(q, k),
         m.type # "DEL" \/ m.key # k
  PROVE  NoDel(Append(q, m), k)
  BY AppendFacts, SMT DEF NoDel

LEMMA NoDelTaken ==
  ASSUME NEW q \in Seq(Message), q # <<>>, NEW k, NoDel(q, k)
  PROVE  NoDel(Tail(q), k)
  BY TailFacts, SMT DEF NoDel

LEMMA FitsNone == Fits({}, 0)
  <1>1. [x \in {} |-> 1] \in [{} -> 1..0]
    OBVIOUS
  <1>2. QED
    BY <1>1 DEF Fits

LEMMA FitsAdd ==
  ASSUME NEW B, NEW c \in Nat, Fits(B, c), NEW v, v \notin B
  PROVE  Fits(B \cup {v}, c + 1)
  <1>1. PICK f \in [B -> 1..c] : \A x, y \in B : f[x] = f[y] => x = y
    BY DEF Fits
  <1> DEFINE g == [x \in B \cup {v} |-> IF x = v THEN c + 1 ELSE f[x]]
  <1>2. \A x \in B : f[x] \in 1..(c + 1) /\ f[x] # c + 1
    BY SMT
  <1>3. c + 1 \in 1..(c + 1)
    BY SMT
  <1>4. g \in [B \cup {v} -> 1..(c + 1)] /\ \A x, y \in B \cup {v} : g[x] = g[y] => x = y
    BY <1>1, <1>2, <1>3
  <1>5. QED
    BY <1>4 DEF Fits

\* The number of the one that goes is taken over by the last.
LEMMA FitsRemove ==
  ASSUME NEW B, NEW c \in Nat, Fits(B, c), NEW v \in B
  PROVE  c - 1 \in Nat /\ Fits(B \ {v}, c - 1)
  <1>1. PICK f \in [B -> 1..c] : \A x, y \in B : f[x] = f[y] => x = y
    BY DEF Fits
  <1> DEFINE g == [x \in B \ {v} |-> IF f[x] = c THEN f[v] ELSE f[x]]
  <1>2. ASSUME NEW x \in B \ {v} PROVE g[x] \in 1..(c - 1)
    <2>1. f[x] \in 1..c /\ f[v] \in 1..c /\ f[x] # f[v]
      BY <1>1
    <2>2. QED
      BY <2>1, SMT
  <1>3. ASSUME NEW x \in B \ {v}, NEW y \in B \ {v}, g[x] = g[y] PROVE x = y
    BY <1>1, <1>3
  <1>4. g \in [B \ {v} -> 1..(c - 1)]
    BY <1>2
  <1>5. f[v] \in 1..c
    OBVIOUS
  <1>6. c - 1 \in Nat
    BY <1>5, SMT
  <1>7. QED
    BY <1>3, <1>4, <1>6 DEF Fits

LEMMA Counted ==
  ASSUME LockInv, DataInv
  PROVE  /\ Len(queue) \in Nat /\ leaked \in Nat /\ Answering \in Nat
         /\ ops \in Nat /\ ops <= plan.max /\ plan.max \in Nat
  <1>1. Len(queue) \in Nat
    BY SeqTyped DEF LockInv
  <1>2. leaked \in Nat /\ plan.max \in Nat /\ ops \in 0..plan.max
    BY TransferConstants DEF DataInv, Counters
  <1>3. Answering \in Nat
    BY DEF Answering
  <1>4. QED
    BY <1>1, <1>2, <1>3, SMT

\* While an operation still has its slot to take the ring has room for it.
LEMMA Room ==
  ASSUME LockInv, DataInv, Plain, NEW n \in Nat, Len(queue) + leaked + n < plan.max
  PROVE  ~RingFull(n)
  <1>1. Len(queue) \in Nat /\ leaked \in Nat /\ plan.max \in Nat
    BY Counted
  <1>2. plan.ring \in Nat /\ Threshold \in 1..plan.ring
    BY TransferConstants DEF DataInv, Counters
  <1>3. plan.ring >= plan.max - 1 + Threshold
    BY DEF Plain, RingAmple
  <1>4. ~(plan.ring - (Len(queue) + leaked + n) < Threshold)
    BY <1>1, <1>2, <1>3, SMT
  <1>5. QED
    BY <1>4 DEF RingFull

\* The ring, the files and the list stay.
LEMMA WholeStays ==
  ASSUME WholeParts, queue' = queue, files' = files, ver' = ver, stored' = stored,
         daemon' = "poll" \/ (daemon' = daemon /\ rsp' = rsp)
  PROVE  WholeRequests' /\ WholeAnswer' /\ WholeStored'
  <1>1. WholeRequests' /\ WholeStored'
    BY DEF WholeParts, WholeRequests, WholeStored
  <1>2. CASE daemon' = "poll"
    BY <1>1, <1>2 DEF WholeAnswer
  <1>3. CASE daemon' = daemon /\ rsp' = rsp
    BY <1>1, <1>3 DEF WholeParts, WholeAnswer
  <1>4. QED
    BY <1>2, <1>3

\* A message is sent that spares what the queued writes and the list rest on.
Sparing(m) ==
  /\ queue' = Append(queue, m)
  /\ \A i \in DOMAIN queue : queue[i].type = "PUT" =>
       Spared(queue[i].key) /\ (m.type = "DEL" => m.key # queue[i].key)
  /\ stored' \subseteq stored /\ \A k \in stored' : Spared(k)

LEMMA WholeSent ==
  ASSUME LockInv, WholeParts, NEW m \in Message, Sparing(m),
         WholeRequest(queue', Len(queue) + 1, files', ver', stored')
  PROVE  WholeRequests' /\ WholeStored'
  <1>1. /\ DOMAIN queue' = DOMAIN queue \cup {Len(queue) + 1} /\ queue'[Len(queue) + 1] = m
        /\ \A i \in DOMAIN queue : queue'[i] = queue[i]
    BY AppendFacts, SMT DEF LockInv, Sparing
  <1>2. ASSUME NEW i \in DOMAIN queue PROVE WholeRequest(queue', i, files', ver', stored')
    <2>1. WholeRequest(queue, i, files, ver, stored) /\ queue'[i] = queue[i]
      BY <1>1 DEF WholeParts, WholeRequests
    <2>2. ASSUME queue[i].type = "PUT"
          PROVE  /\ "NEW" \notin queue[i].flags =>
                      Written(queue', files', ver', queue[i].key, queue[i].acc - queue[i].cur)
                 /\ \A j \in DOMAIN queue' :
                      queue'[j].type = "DEL" /\ queue'[j].key = queue[i].key => j < i
      <3>1. "NEW" \notin queue[i].flags =>
              Written(queue', files', ver', queue[i].key, queue[i].acc - queue[i].cur)
        BY <2>1, <2>2, SparedWritten DEF WholeRequest, Sparing
      <3>2. \A j \in DOMAIN queue : queue[j].type = "DEL" /\ queue[j].key = queue[i].key => j < i
        BY <2>1, <2>2 DEF WholeRequest
      <3>3. QED
        BY <1>1, <2>2, <3>1, <3>2 DEF Sparing
    <2>3. QED
      BY <2>1, <2>2 DEF WholeRequest, Sparing
  <1>3. WholeRequests'
    BY <1>1, <1>2 DEF WholeRequests
  <1>4. WholeStored'
    BY SparedWritten DEF WholeParts, WholeStored, Sparing
  <1>5. QED
    BY <1>3, <1>4

\* A message is taken.
LEMMA WholeTaken ==
  ASSUME LockInv, WholeParts, queue # <<>>, queue' = Tail(queue), stored' = stored,
         \A i \in DOMAIN queue : i # 1 /\ queue[i].type = "PUT" /\ "NEW" \notin queue[i].flags =>
           Spared(queue[i].key),
         \A k \in stored : Spared(k)
  PROVE  WholeRequests' /\ WholeStored'
  <1>1. /\ \A i \in DOMAIN queue' : i + 1 \in DOMAIN queue /\ queue'[i] = queue[i + 1]
                                    /\ i + 1 # 1 /\ i \in Nat
    BY TailFacts DEF LockInv
  <1>2. ASSUME NEW i \in DOMAIN queue' PROVE WholeRequest(queue', i, files', ver', stored')
    <2> DEFINE p == queue[i + 1]
    <2>1. WholeRequest(queue, i + 1, files, ver, stored) /\ queue'[i] = p /\ i + 1 \in DOMAIN queue
          /\ i + 1 # 1 /\ i \in Nat
      BY <1>1 DEF WholeParts, WholeRequests
    <2>2. ASSUME p.type = "PUT"
          PROVE  /\ "NEW" \notin p.flags =>
                      Written(queue', files', ver', p.key, p.acc - p.cur)
                 /\ \A j \in DOMAIN queue' :
                      queue'[j].type = "DEL" /\ queue'[j].key = p.key => j < i
      <3>1. "NEW" \notin p.flags =>
              Written(queue', files', ver', p.key, p.acc - p.cur)
        BY <2>1, <2>2, SparedWritten DEF WholeRequest
      <3>2. ASSUME NEW j \in DOMAIN queue', queue'[j].type = "DEL", queue'[j].key = p.key
            PROVE  j < i
        <4>1. j + 1 < i + 1 /\ j \in Nat
          BY <1>1, <2>1, <2>2, <3>2 DEF WholeRequest
        <4>2. QED
          BY <2>1, <4>1, SMT
      <3>3. QED
        BY <3>1, <3>2
    <2>3. QED
      BY <2>1, <2>2 DEF WholeRequest
  <1>3. WholeRequests'
    BY <1>2 DEF WholeRequests
  <1>4. WholeStored'
    BY SparedWritten DEF WholeParts, WholeStored
  <1>5. QED
    BY <1>3, <1>4

LEMMA WholeOutStart ==
  ASSUME LockInv, DataInv, WholeParts, NEW v \in Vcpus, NEW k \in Keys, OutStart(v, k)
  PROVE  WholeParts'
  <1>1. /\ pc[v] = "idle" /\ pc' = [pc EXCEPT ![v] = "out_lock"] /\ ops' = ops + 1
        /\ job' = [job EXCEPT ![v] = k] /\ queue' = queue /\ files' = files /\ ver' = ver
        /\ stored' = stored /\ daemon' = daemon /\ rsp' = rsp /\ putLock' = putLock
        /\ leaked' = leaked /\ orphan' = orphan
    BY DEF OutStart, Goto, Begin, disk, locks
  <1>2. pc \in [Vcpus -> Sending \cup {"idle"}] /\ job \in [Vcpus -> Keys] /\ ~orphan
    BY DEF LockInv, WholeParts, Outward
  <1>3. /\ pc'[v] = "out_lock" /\ \A w \in Vcpus : w # v => pc'[w] = pc[w] /\ job'[w] = job[w]
    BY <1>1, <1>2
  <1>4. Outward'
    BY <1>1, <1>2 DEF Outward, Sending
  <1>5. OneSlotEach'
    <2>1. Beginning' = Beginning \cup {v} /\ v \notin Beginning
      BY <1>1, <1>3 DEF Beginning
    <2>2. PICK c \in Nat : Fits(Beginning, c) /\ ops >= Len(queue) + leaked + Answering + c
      BY DEF WholeParts, OneSlotEach
    <2>3. Answering' = Answering
      BY <1>1 DEF Answering
    <2>4. Fits(Beginning', c + 1)
      BY <2>1, <2>2, FitsAdd
    <2>5. Len(queue) \in Nat /\ leaked \in Nat /\ Answering \in Nat /\ ops \in Nat
      BY Counted
    <2>6. ops + 1 >= Len(queue) + leaked + Answering + (c + 1) /\ c + 1 \in Nat
      BY <2>2, <2>5, SMT
    <2>7. QED
      BY <1>1, <2>3, <2>4, <2>6 DEF OneSlotEach
  <1>6. WholeWaiting'
    <2>1. \A w \in Vcpus : pc'[w] = "out_wait" => w # v
      BY <1>3
    <2>2. QED
      BY <1>1, <1>3, <2>1 DEF WholeParts, WholeWaiting
  <1>7. QED
    BY <1>1, <1>4, <1>5, <1>6, WholeStays DEF WholeParts

LEMMA WholeOutLock ==
  ASSUME LockInv, DataInv, WholeParts, NEW v \in Vcpus, OutLock(v)
  PROVE  WholeParts'
  <1>1. /\ pc[v] = "out_lock" /\ pc' = [pc EXCEPT ![v] = "out_send"] /\ ops' = ops
        /\ job' = job /\ queue' = queue /\ files' = files /\ ver' = ver
        /\ stored' = stored /\ daemon' = daemon /\ rsp' = rsp /\ putLock = NoOne
        /\ leaked' = leaked /\ orphan' = orphan
    BY DEF OutLock, Goto, disk, env
  <1>2. pc \in [Vcpus -> Sending \cup {"idle"}] /\ ~orphan
    BY DEF WholeParts, Outward
  <1>3. pc'[v] = "out_send" /\ \A w \in Vcpus : w # v => pc'[w] = pc[w]
    BY <1>1, <1>2
  <1>4. Outward'
    BY <1>1, <1>2 DEF Outward, Sending
  <1>5. OneSlotEach'
    <2>1. Beginning' = Beginning
      BY <1>1, <1>3 DEF Beginning
    <2>2. Answering' = Answering
      BY <1>1 DEF Answering
    <2>3. QED
      BY <1>1, <2>1, <2>2 DEF WholeParts, OneSlotEach
  <1>6. WholeWaiting'
    <2>1. \A w \in Vcpus : putLock # w /\ (pc'[w] = "out_wait" => w # v)
      BY <1>1, <1>3, TransferConstants
    <2>2. QED
      BY <1>1, <1>3, <2>1 DEF WholeParts, WholeWaiting
  <1>7. QED
    BY <1>1, <1>4, <1>5, <1>6, WholeStays DEF WholeParts

\* The first part is sent: a slot is free for it.
LEMMA WholeOutSend ==
  ASSUME LockInv, DataInv, Plain, WholeParts, NEW v \in Vcpus, OutSend(v)
  PROVE  WholeParts'
  <1> DEFINE k == job[v]
             m == OutPart(v, k, 0, {"NEW"})
  <1>1. v \in Beginning /\ pc[v] = "out_send"
    BY DEF OutSend, Beginning
  <1> PICK c \in Nat : Fits(Beginning, c) /\ ops >= Len(queue) + leaked + Answering + c
    BY DEF WholeParts, OneSlotEach
  <1>2. /\ ops >= Len(queue) + leaked + Answering + c
        /\ Len(queue) \in Nat /\ leaked \in Nat /\ Answering \in Nat /\ c - 1 \in Nat /\ ops \in Nat
        /\ ops <= plan.max /\ plan.max \in Nat /\ Fits(Beginning \ {v}, c - 1)
    BY <1>1, Counted, FitsRemove
  <1>3. ~RingFull(Answering) /\ enabled
    <2>1. Len(queue) + leaked + Answering < plan.max
      BY <1>2, SMT
    <2>2. QED
      BY <1>2, <2>1, Room DEF LockInv
  <1>4. /\ queue' = Append(queue, m) /\ pc' = [pc EXCEPT ![v] = "out_wait"] /\ putLock' = putLock
        /\ ops' = ops /\ job' = job /\ files' = files /\ ver' = ver
        /\ stored' = stored /\ daemon' = daemon /\ rsp' = rsp
        /\ leaked' = leaked /\ orphan' = orphan
    BY <1>3 DEF OutSend, Goto, disk, env
  <1>5. /\ pc \in [Vcpus -> Sending \cup {"idle"}] /\ ~orphan /\ queue \in Seq(Message)
        /\ DataTypes /\ k \in Keys /\ npages \in Nat
    BY DEF LockInv, DataInv, WholeParts, Outward
  <1>6. pc'[v] = "out_wait" /\ \A w \in Vcpus : w # v => pc'[w] = pc[w]
    BY <1>4, <1>5
  <1>7. /\ m \in Message /\ m.type = "PUT" /\ m.key = k /\ "NEW" \in m.flags
        /\ "ERROR" \notin m.flags /\ ("FINAL" \in m.flags => m.acc = SizeOf[k])
    <2>1. 0 <= SizeOf[k] /\ 0 \in Nat /\ 0 \in Int /\ v \in Vcpus \cup {NoOne}
      BY <1>5, SizeFacts, SMT
    <2> HIDE DEF k
    <2>2. m \in Message
      BY <1>5, <2>1, OutPartType
    <2>3. {"NEW"} \in SUBSET {"NEW"} /\ "NEW" \in {"NEW"}
      OBVIOUS
    <2>4. OutPartIs(m, v, k, 0, {"NEW"})
      BY <1>5, <2>1, <2>3, OutPartFacts
    <2> HIDE DEF m
    <2>5. QED
      BY <2>2, <2>3, <2>4 DEF OutPartIs
  <1> HIDE DEF m
  <1>8. \A h : Spared(h)
    BY <1>4, <1>5, <1>7, NoDelSent DEF Spared
  <1>9. Outward'
    BY <1>4, <1>5 DEF Outward, Sending
  <1>10. OneSlotEach'
    <2>1. Beginning' = Beginning \ {v}
      BY <1>4, <1>6 DEF Beginning
    <2>2. Answering' = Answering /\ Len(queue') = Len(queue) + 1
      BY <1>4, <1>5, <1>7, Appended, SMT DEF Answering
    <2>3. ops >= (Len(queue) + 1) + leaked + Answering + (c - 1)
      BY <1>2, SMT
    <2>4. QED
      BY <1>2, <1>4, <2>1, <2>2, <2>3 DEF OneSlotEach
  <1>11. WholeRequest(queue', Len(queue) + 1, files', ver', stored')
    <2>1. /\ queue'[Len(queue) + 1] = m /\ DOMAIN queue' = DOMAIN queue \cup {Len(queue) + 1}
          /\ \A i \in DOMAIN queue : i < Len(queue) + 1 /\ queue'[i] = queue[i]
      <3>1. \A i \in DOMAIN queue : i < Len(queue) + 1
        BY <1>5, SMT
      <3>2. QED
        BY <1>4, <1>5, <1>7, <3>1, AppendFacts, SMT
    <2>2. m.type # "DEL"
      BY <1>7
    <2>3. QED
      BY <1>7, <2>1, <2>2 DEF WholeRequest
  <1>12. WholeRequests' /\ WholeStored'
    <2>1. Sparing(m)
      BY <1>4, <1>7, <1>8 DEF Sparing
    <2>2. QED
      BY <1>7, <1>11, <2>1, WholeSent
  <1>13. WholeAnswer'
    BY <1>4, <1>8, SparedWritten DEF WholeParts, WholeAnswer
  <1>14. WholeWaiting'
    <2>1. putLock = v
      BY <1>1, InvParts DEF PutRule, Rule
    <2>2. QED
      BY <1>4, <1>6, <1>8, <2>1, SparedWritten DEF WholeParts, WholeWaiting
  <1>15. QED
    BY <1>9, <1>10, <1>12, <1>13, <1>14 DEF WholeParts

\* The mini-header is listed once the lock has been released.
LEMMA WholeOutWait ==
  ASSUME LockInv, DataInv, WholeParts, NEW v \in Vcpus, OutWait(v)
  PROVE  WholeParts'
  <1>1. /\ pc[v] = "out_wait" /\ pc' = [pc EXCEPT ![v] = "idle"] /\ ops' = ops
        /\ job' = job /\ queue' = queue /\ files' = files /\ ver' = ver
        /\ stored' = stored \cup {job[v]} /\ daemon' = daemon /\ rsp' = rsp
        /\ putLock = NoOne /\ putLock' = putLock /\ leaked' = leaked /\ orphan' = orphan
    BY DEF OutWait, Goto, disk, env, locks, LockInv
  <1>2. pc \in [Vcpus -> Sending \cup {"idle"}] /\ ~orphan
    BY DEF WholeParts, Outward
  <1>3. pc'[v] = "idle" /\ \A w \in Vcpus : w # v => pc'[w] = pc[w]
    BY <1>1, <1>2
  <1>4. Outward'
    BY <1>1, <1>2 DEF Outward
  <1>5. OneSlotEach'
    <2>1. Beginning' = Beginning
      BY <1>1, <1>3 DEF Beginning
    <2>2. Answering' = Answering
      BY <1>1 DEF Answering
    <2>3. QED
      BY <1>1, <2>1, <2>2 DEF WholeParts, OneSlotEach
  <1>6. Written(queue, files, ver, job[v], SizeOf[job[v]])
    <2>1. putLock # v
      BY <1>1, TransferConstants
    <2>2. QED
      BY <1>1, <2>1 DEF WholeParts, WholeWaiting
  <1>7. WholeStored'
    BY <1>1, <1>6 DEF WholeParts, WholeStored
  <1>8. WholeRequests'
    <2>1. ASSUME NEW i \in DOMAIN queue
          PROVE  WholeRequest(queue, i, files, ver, stored \cup {job[v]})
      <3>1. WholeRequest(queue, i, files, ver, stored)
        BY DEF WholeParts, WholeRequests
      <3>2. queue[i].type = "DEL" => queue[i].key # job[v]
        BY <1>6 DEF Written, NoDel
      <3>3. QED
        BY <3>1, <3>2 DEF WholeRequest
    <2>2. QED
      BY <1>1, <2>1 DEF WholeRequests
  <1>9. WholeAnswer'
    BY <1>1 DEF WholeParts, WholeAnswer
  <1>10. WholeWaiting'
    <2>1. \A w \in Vcpus : pc'[w] = "out_wait" => w # v
      BY <1>3
    <2>2. QED
      BY <1>1, <1>3, <2>1 DEF WholeParts, WholeWaiting
  <1>11. QED
    BY <1>4, <1>5, <1>7, <1>8, <1>9, <1>10 DEF WholeParts

\* A delete or a request for a page has a slot.
LEMMA RoomToBegin ==
  ASSUME LockInv, DataInv, Plain, WholeParts, NEW op, Begin(op)
  PROVE  ~RingFull(Answering) /\ enabled /\ op \in {"out", "del", "add"}
  <1> PICK c \in Nat : Fits(Beginning, c) /\ ops >= Len(queue) + leaked + Answering + c
    BY DEF WholeParts, OneSlotEach
  <1>1. /\ Len(queue) \in Nat /\ leaked \in Nat /\ Answering \in Nat /\ ops \in Nat
        /\ plan.max \in Nat /\ ops < plan.max
    BY Counted DEF Begin
  <1>2. Len(queue) + leaked + Answering < plan.max
    BY <1>1, SMT
  <1>3. QED
    BY <1>1, <1>2, Room DEF LockInv, Begin, Plain

\* One more operation, with its message on the ring.
LEMMA SlotTaken ==
  ASSUME LockInv, DataInv, WholeParts, NEW m \in Message, queue' = Append(queue, m),
         ops' = ops + 1, pc' = pc, daemon' = daemon, leaked' = leaked
  PROVE  OneSlotEach'
  <1> PICK c \in Nat : Fits(Beginning, c) /\ ops >= Len(queue) + leaked + Answering + c
    BY DEF WholeParts, OneSlotEach
  <1>1. Len(queue) \in Nat /\ leaked \in Nat /\ Answering \in Nat /\ ops \in Nat
    BY Counted
  <1>2. Beginning' = Beginning /\ Answering' = Answering
    BY DEF Beginning, Answering
  <1>3. Len(queue') = Len(queue) + 1
    BY Appended DEF LockInv
  <1>4. ops + 1 >= (Len(queue) + 1) + leaked + Answering + c
    BY <1>1, SMT
  <1>5. QED
    BY <1>2, <1>3, <1>4 DEF OneSlotEach

\* The keys of page-outs under way are not listed.
LEMMA SendersUnlisted ==
  ASSUME LockInv, DataInv, NEW k \in stored
  PROVE  /\ \A i \in DOMAIN queue : queue[i].type = "PUT" => queue[i].key \in Keys /\ queue[i].key # k
         /\ Returning("PUT") => rsp.key \in Keys /\ rsp.key # k
         /\ \A v \in Vcpus : pc[v] = "out_wait" => job[v] \in Keys /\ job[v] # k
  <1>1. \A v \in Vcpus : pc[v] = "out_wait" => job[v] \in Keys /\ job[v] # k
    BY PlacesDo DEF PlacesDiffer, DataInv, OneSender, LockInv
  <1>2. QED
    BY <1>1, FlyingPut, AnsweredPut

LEMMA WholeDel ==
  ASSUME LockInv, DataInv, Plain, WholeParts, NEW v \in Vcpus, NEW k \in Keys, Del(v, k)
  PROVE  WholeParts'
  <1> DEFINE m == Msg("DEL", v, k, {})
  <1>1. ~RingFull(Answering)
    BY RoomToBegin DEF Del
  <1>2. /\ k \in stored /\ stored' = stored \ {k} /\ ver' = [ver EXCEPT ![k] = 1 - @]
        /\ queue' = Append(queue, m) /\ ops' = ops + 1 /\ pc' = pc /\ job' = job
        /\ putLock' = putLock /\ daemon' = daemon /\ rsp' = rsp /\ leaked' = leaked
        /\ files' = files /\ orphan' = orphan
    BY <1>1 DEF Del, Begin, cpu, disk, locks
  <1>3. /\ ver \in [Keys -> {0, 1}] /\ queue \in Seq(Message) /\ stored \subseteq Keys
    BY DEF LockInv, DataInv, DataTypes
  <1>4. m \in Message /\ m.type = "DEL" /\ m.key = k /\ m.flags = {}
    <2>1. v \in Vcpus \cup {NoOne}
      OBVIOUS
    <2>2. QED
      BY <2>1, MsgType, MsgFacts, SMT
  <1> HIDE DEF m
  <1>5. ASSUME NEW h \in Keys, h # k PROVE Spared(h)
    <2>1. ver'[h] = ver[h]
      BY <1>2, <1>3, <1>5
    <2>2. NoDel(queue, h) => NoDel(queue', h)
      BY <1>2, <1>3, <1>4, <1>5, NoDelSent
    <2>3. QED
      BY <1>2, <2>1, <2>2 DEF Spared
  <1>6. Outward'
    BY <1>2 DEF WholeParts, Outward
  <1>7. OneSlotEach'
    BY <1>2, <1>4, SlotTaken
  <1>8. WholeRequest(queue', Len(queue) + 1, files', ver', stored')
    <2>1. queue'[Len(queue) + 1] = m
      BY <1>2, <1>3, <1>4, AppendFacts
    <2>2. QED
      BY <1>2, <1>4, <2>1 DEF WholeRequest
  <1>9. WholeRequests' /\ WholeStored'
    <2>1. \A i \in DOMAIN queue : queue[i].type = "PUT" =>
            Spared(queue[i].key) /\ (m.type = "DEL" => m.key # queue[i].key)
      BY <1>2, <1>4, <1>5, SendersUnlisted
    <2>2. stored' \subseteq stored /\ \A h \in stored' : Spared(h)
      BY <1>2, <1>3, <1>5
    <2>3. Sparing(m)
      BY <1>2, <2>1, <2>2 DEF Sparing
    <2>4. QED
      BY <1>4, <1>8, <2>3, WholeSent
  <1>10. WholeAnswer'
    <2>1. daemon = "resume" /\ rsp.type = "PUT" => Spared(rsp.key)
      BY <1>2, <1>5, SendersUnlisted DEF Returning
    <2>2. QED
      BY <1>2, <2>1, SparedWritten DEF WholeParts, WholeAnswer
  <1>11. WholeWaiting'
    <2>1. \A w \in Vcpus : pc[w] = "out_wait" => Spared(job[w])
      BY <1>2, <1>5, SendersUnlisted
    <2>2. QED
      BY <1>2, <2>1, SparedWritten DEF WholeParts, WholeWaiting
  <1>12. QED
    BY <1>6, <1>7, <1>9, <1>10, <1>11 DEF WholeParts

LEMMA WholeAddSharedPage ==
  ASSUME LockInv, DataInv, Plain, WholeParts, NEW v \in Vcpus, AddSharedPage(v)
  PROVE  WholeParts'
  <1> DEFINE m == Msg("ADD_SHARED_PAGE", v, job[v], {})
  <1>1. ~RingFull(Answering) /\ enabled
    BY RoomToBegin DEF AddSharedPage
  <1>2. /\ stored' = stored /\ ver' = ver
        /\ queue' = Append(queue, m) /\ ops' = ops + 1 /\ pc' = pc /\ job' = job
        /\ putLock' = putLock /\ daemon' = daemon /\ rsp' = rsp /\ leaked' = leaked
        /\ files' = files /\ orphan' = orphan
    BY <1>1 DEF AddSharedPage, Begin, cpu, disk, locks
  <1>3. queue \in Seq(Message) /\ job[v] \in Keys
    BY DEF LockInv
  <1>4. m \in Message /\ m.type = "ADD_SHARED_PAGE" /\ m.flags = {} /\ m.type # "DEL"
    <2>1. /\ v \in Vcpus \cup {NoOne} /\ {} \in SUBSET {"NEW"} /\ "ADD_SHARED_PAGE" # "DEL"
          /\ "ADD_SHARED_PAGE" \in {"PUT", "GET", "DEL", "DOM_FLUSH", "ADD_SHARED_PAGE", "NONE"}
      OBVIOUS
    <2>2. QED
      BY <1>3, <2>1, MsgType, MsgFacts, SMTT(20)
  <1> HIDE DEF m
  <1>5. \A h : Spared(h)
    BY <1>2, <1>3, <1>4, NoDelSent DEF Spared
  <1>6. Outward'
    BY <1>2 DEF WholeParts, Outward
  <1>7. OneSlotEach'
    BY <1>2, <1>4, SlotTaken
  <1>8. WholeRequest(queue', Len(queue) + 1, files', ver', stored')
    <2>1. queue'[Len(queue) + 1] = m
      BY <1>2, <1>3, <1>4, AppendFacts
    <2>2. QED
      BY <1>4, <2>1 DEF WholeRequest
  <1>9. WholeRequests' /\ WholeStored'
    <2>1. Sparing(m)
      BY <1>2, <1>4, <1>5 DEF Sparing
    <2>2. QED
      BY <1>4, <1>8, <2>1, WholeSent
  <1>10. WholeAnswer' /\ WholeWaiting'
    BY <1>2, <1>5, SparedWritten DEF WholeParts, WholeAnswer, WholeWaiting
  <1>11. QED
    BY <1>6, <1>7, <1>9, <1>10 DEF WholeParts

\* A slot passes from the request to its answer.
LEMMA SlotAnswered ==
  ASSUME LockInv, DataInv, WholeParts, queue # <<>>, queue' = Tail(queue),
         ops' = ops, pc' = pc,
         \/ daemon = "poll" /\ daemon' = "resume" /\ leaked' = leaked
         \/ daemon' = daemon /\ leaked' = leaked + 1
  PROVE  OneSlotEach'
  <1> PICK c \in Nat : Fits(Beginning, c) /\ ops >= Len(queue) + leaked + Answering + c
    BY DEF WholeParts, OneSlotEach
  <1>1. Len(queue) \in Nat /\ leaked \in Nat /\ Answering \in Nat /\ ops \in Nat
    BY Counted
  <1>2. Beginning' = Beginning
    BY DEF Beginning
  <1>3. Len(queue') = Len(queue) - 1
    BY HeadTail DEF LockInv
  <1>4. leaked' + Answering' = leaked + Answering + 1 /\ leaked' \in Nat /\ Answering' \in Nat
    BY <1>1, SMT DEF Answering
  <1>5. ops >= (Len(queue) - 1) + leaked' + Answering' + c
    <2>1. ASSUME NEW o \in Nat, NEW q \in Nat, NEW l \in Nat, NEW a \in Nat, NEW d \in Nat,
                 NEW x \in Nat, NEW y \in Nat, o >= q + l + a + d, x + y = l + a + 1
          PROVE  o >= (q - 1) + x + y + d
      BY <2>1, SMT
    <2>2. QED
      BY <1>1, <1>4, <2>1
  <1>6. QED
    BY <1>2, <1>3, <1>5 DEF OneSlotEach

\* The bytes of a value of k from o on.
Bytes(s, k, x, o) == \A i \in 1..Len(s) : s[i] = <<k, x, o + i>>

\* The daemon appends a part to the parts before it.
LEMMA PartJoined ==
  ASSUME NEW old \in Seq(Cell), NEW p \in Seq(Cell), NEW k, NEW x,
         Bytes(old, k, x, 0), Bytes(p, k, x, Len(old))
  PROVE  Len(old \o p) = Len(old) + Len(p) /\ Bytes(old \o p, k, x, 0)
  <1> DEFINE o == Len(old)
             n == Len(p)
  <1>1. o \in Nat /\ n \in Nat /\ Len(old \o p) = o + n
    BY Joined, SeqTyped
  <1>2. ASSUME NEW i \in 1..(o + n) PROVE (old \o p)[i] = <<k, x, 0 + i>>
    <2>1. CASE i <= o
      <3>1. (old \o p)[i] = old[i] /\ i \in 1..o
        BY <1>1, <2>1, SMT
      <3>2. QED
        BY <3>1 DEF Bytes
    <2>2. CASE i > o
      <3> DEFINE j == i - o
      <3>1. (old \o p)[i] = p[j] /\ j \in 1..n /\ o + j = 0 + i
        BY <1>1, <2>2, SMT
      <3> HIDE DEF j
      <3>2. p[j] = <<k, x, o + j>>
        BY <3>1 DEF Bytes
      <3>3. QED
        BY <3>1, <3>2
    <2>3. QED
      BY <1>1, <2>1, <2>2, SMT
  <1>3. QED
    BY <1>1, <1>2 DEF Bytes

LEMMA WholeServePut ==
  ASSUME LockInv, DataInv, Plain, WholeParts, ServePut
  PROVE  WholeParts'
  <1> DEFINE m == Head(queue)
             k == m.key
             new == "NEW" \in m.flags
             old == IF new THEN <<>> ELSE files[k]
             p == SubSeq(shared, 1, m.cur)
  <1>1. /\ Request("PUT") /\ ops' = ops /\ leaked' = leaked /\ putLock' = putLock
        /\ pc' = pc /\ job' = job /\ stored' = stored /\ ver' = ver
        /\ Respond(m, m.flags, 0) /\ files' = [files EXCEPT ![k] = old \o p] /\ ~orphan'
    BY DEF ServePut, cpu, env, locks, Plain, WholeParts, Outward
  <1>2. /\ m \in Message /\ m.type = "PUT" /\ k \in Keys /\ 1 \in DOMAIN queue /\ m = queue[1]
        /\ PutPart(m, job, files, shared, ver, Capacity) /\ m.acc \in Nat /\ m.cur \in Nat
        /\ m.acc <= SizeOf[k] /\ m.cur <= MaxPages * PageSize
        /\ queue # <<>> /\ queue' = Tail(queue) /\ daemon = "poll"
    BY <1>1, RequestFacts
  <1>3. /\ files \in [Keys -> Seq(Cell)] /\ queue \in Seq(Message)
        /\ shared \in [1..(MaxPages * PageSize) -> Cell] /\ MaxPages * PageSize \in Nat
    BY SizeFacts DEF LockInv, DataInv, DataTypes
  <1>4. WholeRequest(queue, 1, files, ver, stored)
    BY <1>2 DEF WholeParts, WholeRequests
  <1>5. /\ "ERROR" \notin m.flags /\ ("FINAL" \in m.flags => m.acc = SizeOf[k])
        /\ (~new => Written(queue, files, ver, k, m.acc - m.cur))
        /\ \A j \in DOMAIN queue : queue[j].type = "DEL" /\ queue[j].key = k => j < 1
    BY <1>2, <1>4 DEF WholeRequest
  <1>6. /\ m.cur <= m.acc /\ (new => m.acc = m.cur) /\ k = job[m.from]
        /\ \A i \in 1..m.cur : shared[i] = <<k, ver[k], m.acc - m.cur + i>>
    BY <1>2 DEF PutPart
  <1>7. NoDel(queue, k)
    <2>1. \A j \in DOMAIN queue : ~(j < 1)
      BY <1>3, SMT
    <2>2. QED
      BY <1>5, <2>1 DEF NoDel
  <1>8. /\ old \in Seq(Cell) /\ Len(old) = m.acc - m.cur
        /\ \A i \in 1..Len(old) : old[i] = <<k, ver[k], i>>
    <2>1. CASE new
      <3>1. old = <<>> /\ m.acc - m.cur = 0
        BY <1>2, <1>6, <2>1, SMT
      <3>2. <<>> \in Seq(Cell) /\ Len(<<>>) = 0 /\ 1..0 = {}
        BY EmptyIsSeq, SMT
      <3>3. \A i \in 1..0 : old[i] = <<k, ver[k], i>>
        BY <3>2
      <3>4. QED
        BY <3>1, <3>2, <3>3
    <2>2. CASE ~new
      <3>1. old = files[k] /\ Written(queue, files, ver, k, m.acc - m.cur)
        BY <1>5, <2>2
      <3>2. QED
        BY <1>2, <1>3, <3>1 DEF Written
    <2>3. QED
      BY <2>1, <2>2
  <1>9. p \in Seq(Cell) /\ Len(p) = m.cur /\ \A i \in 1..m.cur : p[i] = shared[i]
    <2> DEFINE n == m.cur
    <2>1. n \in Nat /\ n <= MaxPages * PageSize
      BY <1>2
    <2> HIDE DEF n
    <2>2. \A i \in 1..n : i \in 1..(MaxPages * PageSize)
      BY <1>3, <2>1, SMT
    <2>3. 1 \in Int /\ n \in Int /\ \A i \in 1..n : shared[i] \in Cell
      BY <1>3, <2>1, <2>2, SMT
    <2> DEFINE r == SubSeq(shared, 1, n)
    <2>4. /\ r \in Seq(Cell) /\ Len(r) = (IF 1 <= n THEN n - 1 + 1 ELSE 0)
          /\ \A j \in 1..(n - 1 + 1) : r[j] = shared[1 + j - 1]
      BY <2>3, Slice, SMT
    <2> HIDE DEF r
    <2>5. r \in Seq(Cell) /\ Len(r) = n /\ \A i \in 1..n : r[i] = shared[i]
      BY <2>1, <2>4, SMT
    <2>6. QED
      BY <2>5 DEF n, r
  <1> HIDE DEF old, p
  <1>10. Len(old \o p) = m.acc /\ Bytes(old \o p, k, ver[k], 0)
    <2> DEFINE x == ver[k]
    <2>1. Bytes(old, k, x, 0) /\ Bytes(p, k, x, Len(old))
      <3>1. \A i \in 1..Len(old) : 0 + i = i
        BY SMT
      <3>2. QED
        BY <1>6, <1>8, <1>9, <3>1 DEF Bytes
    <2> HIDE DEF x, k
    <2>2. Len(old \o p) = Len(old) + Len(p) /\ Bytes(old \o p, k, x, 0)
      BY <1>8, <1>9, <2>1, PartJoined
    <2>3. Len(old) + Len(p) = m.acc
      BY <1>2, <1>8, <1>9, SMT
    <2>4. QED
      BY <2>2, <2>3 DEF x
  <1>11. files'[k] = old \o p /\ \A h \in Keys : h # k => files'[h] = files[h]
    BY <1>1, <1>2, <1>3
  <1>12. Written(queue', files', ver', k, m.acc)
    <2>1. \A i \in 1..m.acc : (old \o p)[i] = <<k, ver[k], i>>
      <3>1. \A i \in 1..m.acc : 0 + i = i
        BY SMT
      <3>2. QED
        BY <1>10, <3>1 DEF Bytes
    <2>2. NoDel(queue', k)
      BY <1>2, <1>3, <1>7, NoDelTaken
    <2>3. QED
      BY <1>1, <1>2, <1>10, <1>11, <2>1, <2>2 DEF Written
  <1>13. ASSUME NEW h \in Keys, h # k PROVE Spared(h)
    BY <1>1, <1>2, <1>3, <1>11, <1>13, NoDelTaken DEF Spared
  <1>14. Outward' /\ OneSlotEach'
    <2>1. daemon' = "resume"
      BY <1>1, RespondFacts
    <2>2. OneSlotEach'
      BY <1>1, <1>2, <2>1, SlotAnswered
    <2>3. QED
      BY <1>1, <2>2 DEF WholeParts, Outward
  <1>15. WholeRequests' /\ WholeStored'
    <2>1. \A i \in DOMAIN queue : queue[i].type = "PUT" => i = 1
      BY <1>2, FlyingPut
    <2>2. \A h \in stored : Spared(h)
      BY <1>2, <1>13, SendersUnlisted DEF DataInv, DataTypes
    <2>3. QED
      BY <1>1, <1>2, <2>1, <2>2, WholeTaken
  <1>16. WholeAnswer'
    <2>1. /\ rsp'.type = "PUT" /\ rsp'.key = k /\ rsp'.acc = m.acc
          /\ rsp'.flags = m.flags \ {"NEW"}
      BY <1>1, <1>2, RespondFacts
    <2>2. QED
      BY <1>5, <1>12, <2>1 DEF WholeAnswer
  <1>17. WholeWaiting'
    <2>1. /\ m.from \in Vcpus /\ m.from = putLock /\ pc[m.from] = "out_wait"
      BY <1>2, FlyingPut
    <2>2. \A w \in Vcpus : pc[w] = "out_wait" /\ putLock # w => job[w] \in Keys /\ job[w] # k
      BY <1>6, <2>1, PlacesDo DEF PlacesDiffer, DataInv, OneSender, LockInv
    <2>3. QED
      BY <1>1, <1>13, <2>2, SparedWritten DEF WholeParts, WholeWaiting
  <1>18. QED
    BY <1>14, <1>15, <1>16, <1>17 DEF WholeParts

\* Nobody counts on the file that a DEL removes.
LEMMA WholeServeDel ==
  ASSUME LockInv, DataInv, WholeParts, ServeDel
  PROVE  WholeParts'
  <1> DEFINE m == Head(queue)
             k == m.key
  <1>1. /\ Request("DEL") /\ ops' = ops /\ leaked' = leaked /\ putLock' = putLock
        /\ pc' = pc /\ job' = job /\ stored' = stored /\ ver' = ver /\ orphan' = orphan
        /\ Respond(m, {"END"}, 0) /\ files' = [files EXCEPT ![k] = NoFile]
    BY DEF ServeDel, cpu, env, locks
  <1>2. /\ m.type = "DEL" /\ k \in Keys /\ 1 \in DOMAIN queue /\ m = queue[1]
        /\ queue # <<>> /\ queue' = Tail(queue) /\ daemon = "poll"
    BY <1>1, RequestFacts
  <1>3. files \in [Keys -> Seq(Cell)] /\ queue \in Seq(Message)
    BY DEF LockInv, DataInv, DataTypes
  <1>4. ASSUME NEW h \in Keys, NEW n, Written(queue, files, ver, h, n)
        PROVE  Spared(h)
    <2>1. h # k
      BY <1>2, <1>4 DEF Written, NoDel
    <2>2. files'[h] = files[h]
      BY <1>1, <1>2, <1>3, <2>1
    <2>3. QED
      BY <1>1, <1>2, <1>3, <2>2, NoDelTaken DEF Spared
  <1>5. /\ daemon' = "resume" /\ rsp'.type = "DEL" /\ rsp'.flags = {"END"} \ {"NEW"}
    BY <1>1, <1>2, RespondFacts
  <1>6. Outward' /\ OneSlotEach'
    BY <1>1, <1>2, <1>5, SlotAnswered DEF WholeParts, Outward
  <1>7. WholeRequests' /\ WholeStored'
    <2>1. ASSUME NEW i \in DOMAIN queue, queue[i].type = "PUT", "NEW" \notin queue[i].flags
          PROVE  Spared(queue[i].key)
      <3>1. Written(queue, files, ver, queue[i].key, queue[i].acc - queue[i].cur)
        BY <2>1 DEF WholeParts, WholeRequests, WholeRequest
      <3>2. queue[i].key \in Keys
        BY <2>1, FlyingPut
      <3>3. QED
        BY <1>4, <3>1, <3>2
    <2>2. \A h \in stored : Spared(h)
      BY <1>4 DEF WholeParts, WholeStored, DataInv, DataTypes
    <2>3. QED
      BY <1>1, <1>2, <2>1, <2>2, WholeTaken
  <1>8. WholeAnswer'
    BY <1>5 DEF WholeAnswer
  <1>9. WholeWaiting'
    <2>1. \A w \in Vcpus : pc[w] = "out_wait" => job[w] \in Keys
      BY PlacesDo DEF PlacesDiffer, LockInv
    <2>2. QED
      BY <1>1, <1>4, <2>1, SparedWritten DEF WholeParts, WholeWaiting
  <1>10. QED
    BY <1>6, <1>7, <1>8, <1>9 DEF WholeParts

LEMMA WholeServeAddSharedPage ==
  ASSUME LockInv, DataInv, WholeParts, ServeAddSharedPage
  PROVE  WholeParts'
  <1>1. /\ Request("ADD_SHARED_PAGE") /\ ops' = ops /\ leaked' = leaked + 1 /\ putLock' = putLock
        /\ pc' = pc /\ job' = job /\ stored' = stored /\ ver' = ver /\ orphan' = orphan
        /\ files' = files /\ daemon' = daemon /\ rsp' = rsp
    BY DEF ServeAddSharedPage, cpu, env, locks, disk
  <1>2. queue # <<>> /\ queue' = Tail(queue) /\ queue \in Seq(Message)
    BY <1>1, RequestFacts DEF LockInv
  <1>3. \A h : Spared(h)
    BY <1>1, <1>2, NoDelTaken DEF Spared
  <1>4. Outward' /\ OneSlotEach'
    BY <1>1, <1>2, SlotAnswered DEF WholeParts, Outward
  <1>5. WholeRequests' /\ WholeStored'
    BY <1>1, <1>2, <1>3, WholeTaken
  <1>6. WholeAnswer' /\ WholeWaiting'
    BY <1>1, <1>3, SparedWritten DEF WholeParts, WholeAnswer, WholeWaiting
  <1>7. QED
    BY <1>4, <1>5, <1>6 DEF WholeParts

\* The slot of an answer is given back.
LEMMA SlotReturned ==
  ASSUME LockInv, DataInv, WholeParts, daemon = "resume", daemon' = "poll",
         queue' = queue, ops' = ops, pc' = pc, leaked' = leaked
  PROVE  OneSlotEach'
  <1>1. Beginning' = Beginning /\ Answering = 1 /\ Answering' = 0
    BY DEF Beginning, Answering
  <1>2. PICK c \in Nat : Fits(Beginning, c) /\ ops >= Len(queue) + leaked + 1 + c
    BY <1>1 DEF WholeParts, OneSlotEach
  <1>3. Len(queue) \in Nat /\ leaked \in Nat /\ ops \in Nat
    BY Counted
  <1>4. ops >= Len(queue) + leaked + 0 + c
    BY <1>2, <1>3, SMT
  <1>5. QED
    BY <1>1, <1>2, <1>4 DEF OneSlotEach

LEMMA WholeResumeEnd ==
  ASSUME LockInv, DataInv, WholeParts, ResumeEnd
  PROVE  WholeParts'
  <1>1. /\ daemon = "resume" /\ daemon' = "poll" /\ ops' = ops /\ leaked' = leaked
        /\ putLock' = putLock /\ pc' = pc /\ job' = job /\ stored' = stored /\ ver' = ver
        /\ orphan' = orphan /\ files' = files /\ queue' = queue
    BY DEF ResumeEnd, Resuming, cpu, env, locks, disk
  <1>2. Outward' /\ OneSlotEach'
    BY <1>1, SlotReturned DEF WholeParts, Outward
  <1>3. WholeRequests' /\ WholeAnswer' /\ WholeStored'
    BY <1>1, WholeStays
  <1>4. WholeWaiting'
    BY <1>1 DEF WholeParts, WholeWaiting
  <1>5. QED
    BY <1>2, <1>3, <1>4 DEF WholeParts

\* The last part releases the lock; after another one the next part is sent,
\* for which the slot of the answer is free.
LEMMA WholeResumePut ==
  ASSUME LockInv, DataInv, Plain, WholeParts, ResumePut
  PROVE  WholeParts'
  <1> DEFINE v == rsp.from
             k == rsp.key
             acc == rsp.acc
             m == OutPart(v, k, acc, {})
  <1>1. /\ daemon = "resume" /\ daemon' = "poll" /\ rsp.type = "PUT" /\ ops' = ops
        /\ leaked' = leaked /\ files' = files /\ orphan' = orphan
        /\ pc' = pc /\ job' = job /\ stored' = stored /\ ver' = ver
    BY DEF ResumePut, Resuming, disk, cpu, env
  <1>2. /\ v \in Vcpus /\ v = putLock /\ pc[v] = "out_wait" /\ k \in Keys /\ k = job[v]
        /\ Returning("PUT")
    BY <1>1, AnsweredPut DEF Returning
  <1>3. /\ "FINAL" \in rsp.flags => acc = SizeOf[k]
        /\ Written(queue, files, ver, k, acc)
    BY <1>1 DEF WholeParts, WholeAnswer
  <1> PICK c \in Nat : Fits(Beginning, c) /\ ops >= Len(queue) + leaked + Answering + c
    BY DEF WholeParts, OneSlotEach
  <1>4. /\ ops >= Len(queue) + leaked + 1 + c
        /\ Len(queue) \in Nat /\ leaked \in Nat /\ ops \in Nat
        /\ ops <= plan.max /\ plan.max \in Nat
    <2>1. Answering = 1
      BY <1>1 DEF Answering
    <2>2. QED
      BY <2>1, Counted
  <1>5. ~RingFull(0)
    <2>1. Len(queue) + leaked + 0 < plan.max /\ 0 \in Nat
      BY <1>4, SMT
    <2>2. QED
      BY <2>1, Room
  <1>6. CASE "FINAL" \in rsp.flags
    <2>1. queue' = queue /\ putLock' = NoOne
      BY <1>6 DEF ResumePut, Unlock
    <2>2. Outward' /\ OneSlotEach'
      BY <1>1, <2>1, SlotReturned DEF WholeParts, Outward
    <2>3. WholeRequests' /\ WholeAnswer' /\ WholeStored'
      BY <1>1, <2>1, WholeStays
    <2>4. WholeWaiting'
      BY <1>1, <1>2, <1>3, <1>6, <2>1 DEF WholeParts, WholeWaiting
    <2>5. QED
      BY <2>2, <2>3, <2>4 DEF WholeParts
  <1>7. CASE "FINAL" \notin rsp.flags
    <2>1. queue' = Append(queue, m) /\ putLock' = putLock
      BY <1>5, <1>7 DEF ResumePut, locks
    <2>2. queue \in Seq(Message) /\ DataTypes /\ npages \in Nat /\ acc \in Nat /\ acc <= SizeOf[k]
      <3>1. Fields(rsp)
        BY DEF DataInv, Answer
      <3>2. QED
        BY <3>1, SMT DEF LockInv, DataInv, Fields
    <2>3. /\ m.type = "PUT" /\ m.key = k /\ m.acc = acc + m.cur /\ m.cur \in Nat
          /\ "NEW" \notin m.flags /\ "ERROR" \notin m.flags /\ m \in Message
          /\ "FINAL" \in m.flags => m.acc = SizeOf[k]
      <3>1. {} \in SUBSET {"NEW"} /\ "NEW" \notin {} /\ v \in Vcpus \cup {NoOne} /\ acc \in Int
        BY <1>2, <2>2, SMT
      <3> HIDE DEF v, k, acc
      <3>2. m \in Message
        BY <1>2, <2>2, <3>1, OutPartType
      <3>3. OutPartIs(m, v, k, acc, {})
        BY <1>2, <2>2, <3>1, OutPartFacts
      <3> HIDE DEF m
      <3>4. QED
        BY <3>1, <3>2, <3>3 DEF OutPartIs
    <2> HIDE DEF m
    <2>4. \A h : Spared(h)
      BY <1>1, <2>1, <2>2, <2>3, NoDelSent DEF Spared
    <2>5. OneSlotEach'
      <3>1. Beginning' = Beginning /\ Answering' = 0
        BY <1>1 DEF Beginning, Answering
      <3>2. Len(queue') = Len(queue) + 1
        BY <2>1, <2>2, <2>3, Appended, SMT
      <3>3. ops >= (Len(queue) + 1) + leaked + 0 + c
        BY <1>4, SMT
      <3>4. QED
        BY <1>1, <3>1, <3>2, <3>3 DEF OneSlotEach
    <2>6. WholeRequest(queue', Len(queue) + 1, files', ver', stored')
      <3>1. /\ queue'[Len(queue) + 1] = m /\ DOMAIN queue' = DOMAIN queue \cup {Len(queue) + 1}
            /\ \A i \in DOMAIN queue : i < Len(queue) + 1 /\ queue'[i] = queue[i]
        <4>1. \A i \in DOMAIN queue : i < Len(queue) + 1
          BY <2>2, SMT
        <4>2. QED
          BY <2>1, <2>2, <2>3, <4>1, AppendFacts, SMT
      <3>2. Written(queue', files', ver', m.key, m.acc - m.cur)
        <4>1. m.acc - m.cur = acc
          BY <2>2, <2>3, SMT
        <4>2. QED
          BY <1>3, <2>3, <2>4, <4>1, SparedWritten
      <3>3. m.type # "DEL"
        BY <2>3
      <3>4. QED
        BY <2>3, <3>1, <3>2, <3>3 DEF WholeRequest
    <2>7. WholeRequests' /\ WholeStored'
      <3>1. Sparing(m)
        BY <1>1, <2>1, <2>3, <2>4 DEF Sparing
      <3>2. QED
        BY <2>3, <2>6, <3>1, WholeSent
    <2>8. WholeAnswer'
      BY <1>1 DEF WholeAnswer
    <2>9. WholeWaiting'
      BY <1>1, <2>1, <2>4, SparedWritten DEF WholeParts, WholeWaiting
    <2>10. QED
      BY <1>1, <2>5, <2>7, <2>8, <2>9 DEF WholeParts, Outward
  <1>8. QED
    BY <1>6, <1>7

\* With these plans nothing is paged in or flushed, and no answer is an error.
LEMMA NotPlain ==
  ASSUME LockInv, DataInv, Plain, WholeParts
  PROVE  /\ ~ServeGet /\ ~ServeDomFlush /\ ~ResumeError /\ ~ResumeGet
         /\ ~Disable /\ ~Interrupted /\ ~Enable
         /\ \A v \in Vcpus : /\ ~InLock(v) /\ ~InSend(v) /\ ~InWait(v) /\ ~InReturn(v)
                             /\ ~FlushSend(v) /\ ~FlushList(v)
                             /\ \A k \in Keys : ~InStart(v, k)
  <1>1. ASSUME NEW t, Request(t) PROVE t \in {"PUT", "DEL", "ADD_SHARED_PAGE"}
    <2>1. 1 \in DOMAIN queue /\ queue[1].type = t
      BY <1>1, RequestFacts
    <2>2. WholeRequest(queue, 1, files, ver, stored)
      BY <2>1 DEF WholeParts, WholeRequests
    <2>3. QED
      BY <2>1, <2>2 DEF WholeRequest
  <1>2. ~ServeGet /\ ~ServeDomFlush
    <2>1. "GET" \notin {"PUT", "DEL", "ADD_SHARED_PAGE"}
          /\ "DOM_FLUSH" \notin {"PUT", "DEL", "ADD_SHARED_PAGE"}
      OBVIOUS
    <2>2. QED
      BY <1>1, <2>1 DEF ServeGet, ServeDomFlush
  <1>3. ~ResumeError /\ ~ResumeGet
    BY DEF ResumeError, ResumeGet, Resuming, WholeParts, WholeAnswer
  <1>4. ~Disable /\ ~Enable
    BY DEF Disable, Enable, LockInv
  <1>5. ASSUME NEW op, Begin(op) PROVE op \in {"out", "del", "add"}
    BY <1>5 DEF Plain, Begin
  <1>6. ~Interrupted /\ \A v \in Vcpus : ~FlushList(v) /\ \A k \in Keys : ~InStart(v, k)
    <2>1. "stop" \notin {"out", "del", "add"} /\ "flush" \notin {"out", "del", "add"}
          /\ "in" \notin {"out", "del", "add"}
      OBVIOUS
    <2>2. QED
      BY <1>5, <2>1 DEF Interrupted, FlushList, InStart
  <1>7. ASSUME NEW v \in Vcpus
        PROVE  ~InLock(v) /\ ~InSend(v) /\ ~InWait(v) /\ ~InReturn(v) /\ ~FlushSend(v)
    <2>1. pc[v] \in {"out_lock", "out_send", "out_wait", "idle"}
      BY DEF WholeParts, Outward, Sending
    <2>2. QED
      BY <2>1 DEF InLock, InSend, InWait, InReturn, FlushSend
  <1>8. QED
    BY <1>2, <1>3, <1>4, <1>6, <1>7

LEMMA InitWhole ==
  ASSUME Init
  PROVE  WholeParts
  <1>1. /\ pc = [v \in Vcpus |-> "idle"] /\ orphan = FALSE /\ queue = <<>> /\ leaked = 0
        /\ daemon = "poll" /\ stored = {} /\ ops = 0
    BY DEF Init
  <1>2. Outward /\ WholeAnswer /\ WholeWaiting
    BY <1>1 DEF Outward, WholeAnswer, WholeWaiting
  <1>3. OneSlotEach
    <2>1. Beginning = {} /\ Len(queue) = 0 /\ Answering = 0
      BY <1>1 DEF Beginning, Answering
    <2>2. 0 \in Nat /\ ops >= Len(queue) + leaked + Answering + 0
      BY <1>1, <2>1, SMT
    <2>3. QED
      BY <2>1, <2>2, FitsNone DEF OneSlotEach
  <1>4. WholeRequests /\ WholeStored
    <2>1. DOMAIN queue = {}
      BY <1>1, SMT
    <2>2. QED
      BY <1>1, <2>1 DEF WholeRequests, WholeStored
  <1>5. QED
    BY <1>2, <1>3, <1>4 DEF WholeParts

LEMMA StutterWhole ==
  ASSUME WholeParts, UNCHANGED vars
  PROVE  WholeParts'
  <1>1. /\ pc' = pc /\ job' = job /\ stored' = stored /\ ver' = ver
        /\ ops' = ops /\ leaked' = leaked /\ putLock' = putLock
        /\ files' = files /\ orphan' = orphan /\ queue' = queue
        /\ rsp' = rsp /\ daemon' = daemon
    BY DEF vars, cpu, env, disk, locks
  <1>2. WholeRequests' /\ WholeAnswer' /\ WholeStored'
    BY <1>1, WholeStays
  <1>3. Outward' /\ OneSlotEach' /\ WholeWaiting'
    BY <1>1 DEF WholeParts, Outward, OneSlotEach, WholeWaiting, Answering, Beginning
  <1>4. QED
    BY <1>2, <1>3 DEF WholeParts

LEMMA PlainRuns == Plain => NoStop
  BY DEF Plain, NoStop

LEMMA NextWhole ==
  ASSUME NoStop => LockInv, NoStop => DataInv, WholeInv, [Next]_vars
  PROVE  WholeInv'
  <1>1. Plain' <=> Plain
    BY PlanKept DEF Plain, RingAmple
  <1> SUFFICES ASSUME Plain, LockInv, DataInv, WholeParts PROVE WholeParts'
    BY <1>1, PlainRuns DEF WholeInv
  <1>2. ASSUME DaemonStep PROVE WholeParts'
    BY <1>2, NotPlain, WholeServePut, WholeServeDel, WholeServeAddSharedPage, WholeResumeEnd,
       WholeResumePut DEF DaemonStep
  <1>3. ASSUME NEW v \in Vcpus, CpuStep(v) PROVE WholeParts'
    BY <1>3, NotPlain, WholeOutLock, WholeOutSend, WholeOutWait DEF CpuStep
  <1>4. ASSUME NEW v \in Vcpus, Environment(v) PROVE WholeParts'
    BY <1>4, NotPlain, WholeOutStart, WholeDel, WholeAddSharedPage DEF Environment
  <1>5. QED
    BY <1>2, <1>3, <1>4, NotPlain, StutterWhole DEF Next

\* WholeInv is an invariant for every instance: a part on the ring finds the
\* parts before it in the file, a deletion of the same key is ahead of it, and
\* each operation begun accounts for one slot of the ring.
THEOREM WholeInvariant == Spec => []WholeInv
  <1>1. Init => WholeInv
    BY InitWhole DEF WholeInv
  <1>2. (NoStop => LockInv) /\ (NoStop => DataInv) /\ WholeInv /\ [Next]_vars => WholeInv'
    BY NextWhole
  <1>3. QED
    BY <1>1, <1>2, LockInvariant, DataInvariant, PTL DEF Spec

\* StoredIsWhole for every instance: an entry that mcdctl_page_out has listed
\* is in its file whole, and stays so until it is deleted, however its parts
\* interleave with the parts of other entries, deletions and new pages.
THEOREM ListedIsWhole ==
  Spec => []StoredIsWhole
  <1>1. ASSUME NoStop => DataInv, WholeInv PROVE StoredIsWhole
    <2> SUFFICES ASSUME Plain, DataInv, NEW k \in stored PROVE files[k] = Value(k)
      BY <1>1, PlainRuns DEF StoredIsWhole, Plain
    <2> DEFINE n == SizeOf[k]
               s == files[k]
               x == ver[k]
               u == Value(k)
    <2>1. Written(queue, files, ver, k, n)
      BY <1>1 DEF WholeInv, WholeParts, WholeStored
    <2>2. Len(s) = n /\ \A i \in 1..n : s[i] = <<k, x, i>>
      BY <2>1 DEF Written
    <2>3. k \in Keys /\ s \in Seq(Cell) /\ n \in Nat
      BY <1>1, SizeFacts DEF DataInv, DataTypes
    <2>4. \A i \in 1..n : s[i] \in Cell
      BY <2>2, <2>3, SeqElement
    <2>5. u = [i \in 1..n |-> <<k, x, i>>]
      BY DEF Value
    <2> HIDE DEF n, s, x, u
    <2>6. u \in Seq(Cell) /\ Len(u) = n /\ \A i \in 1..n : u[i] = s[i]
      <3>1. \A i \in 1..n : u[i] = s[i]
        BY <2>2, <2>5
      <3>2. u \in [1..n -> Cell]
        BY <2>2, <2>4, <2>5
      <3>3. u \in Seq(Cell) /\ Len(u) = n
        BY <2>3, <2>5, <3>2, SMT
      <3>4. QED
        BY <3>1, <3>3
    <2>7. s = u
      BY <2>2, <2>3, <2>6, SeqExtensional
    <2>8. QED
      BY <2>7 DEF s, u
  <1>2. QED
    BY <1>1, DataInvariant, WholeInvariant, PTL
============================================================================
