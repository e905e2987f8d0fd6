----------------------------- MODULE FlashProofs -----------------------------
(***************************************************************************)
(* flash_put_get never loses a byte and never mixes up two transfers, for  *)
(* every depth of the FIFOs that leaves room for what is inside the        *)
(* controller, every page size and every schedule of worker, controller    *)
(* and interrupt.                                                          *)
(***************************************************************************)
EXTENDS Flash, Integers, TLAPS

USE DEF Transfers

(* Every transfer has a head of at most four bytes, and a body that size_t
   can count. *)
LEMMA TransferSizes ==
  ASSUME NEW t \in Transfers
  PROVE  Heads[t] \in 0..4 /\ Body[t] \in 0..(SizeMod - 1)
BY PageSizeAssumption, SizeModAssumption DEF Heads, Body

(* The steps of a task, and what each of them is. *)
LEMMA StepsOfTasks ==
  ASSUME NEW k \in Kinds
  PROVE  /\ Len(Steps[k]) \in 1..5
         /\ \A i \in 1..Len(Steps[k]) : Steps[k][i] \in Transfers \cup {"connect", "init"}
         /\ k # "exit" => \A i \in 1..Len(Steps[k]) : Steps[k][i] \in Transfers
         /\ k = "exit" => /\ Len(Steps[k]) = 5
                          /\ Steps[k][1] = "connect" /\ Steps[k][2] = "init"
                          /\ \A i \in 3..5 : Steps[k][i] \in Transfers
<1>1. CASE k = "program" BY <1>1 DEF Steps
<1>2. CASE k = "erase" BY <1>2 DEF Steps
<1>3. CASE k = "read" BY <1>3 DEF Steps
<1>4. CASE k = "exit" BY <1>4 DEF Steps
<1>5. QED BY <1>1, <1>2, <1>3, <1>4 DEF Kinds, Steps

(* Where the worker is in its task. *)
LEMMA StepInTask ==
  ASSUME TypeOK
  PROVE  /\ cpu.kind \in Kinds
         /\ cpu.step \in 1..Len(Steps[cpu.kind])
         /\ Len(Steps[cpu.kind]) \in 1..5
         /\ Step \in Transfers \cup {"connect", "init"}
         /\ Step = "connect" => cpu.kind = "exit" /\ cpu.step = 1
         /\ Step = "init" => cpu.kind = "exit" /\ cpu.step = 2
<1>1. cpu.kind \in Kinds /\ cpu.step \in 1..5 /\ cpu.step <= Len(Steps[cpu.kind])
  BY DEF TypeOK, Cpu
<1>2. Len(Steps[cpu.kind]) \in 1..5 /\ cpu.step \in 1..Len(Steps[cpu.kind])
  BY <1>1, StepsOfTasks
<1>3. CASE cpu.kind = "exit"
  <2>1. cpu.step \in {1, 2} \/ cpu.step \in 3..5
    BY <1>1
  <2>2. QED BY <2>1, <1>1, <1>2, <1>3, StepsOfTasks DEF Step
<1>4. CASE cpu.kind # "exit"
  <2>1. Step \in Transfers
    BY <1>1, <1>2, <1>4, StepsOfTasks DEF Step
  <2>2. QED BY <2>1, <1>1, <1>2
<1>5. QED BY <1>3, <1>4

(* The invariant holds before the first task. *)
LEMMA FlashInit == Init => FlashInv
<1> SUFFICES ASSUME Init PROVE FlashInv
  OBVIOUS
<1>1. TypeOK
  <2>1. ssi \in Controller
    BY DEF Init, Controller
  <2>2. cpu \in Cpu
    BY SizeModAssumption, MaxSectorsAssumption DEF Init, Cpu, Kinds
  <2>3. cpu.step <= Len(Steps[cpu.kind])
    BY StepsOfTasks DEF Init, Kinds
  <2>4. QED
    BY <2>1, <2>2, <2>3 DEF Init, TypeOK
<1>2. InFlight = 0
  BY DEF Init, InFlight, Sent, Inside, Answered
<1>4. Inside <= Internal
  BY InternalAssumption DEF Init, Inside
<1>3. QED
  BY <1>1, <1>2, <1>4, FifoDepthAssumption, InternalAssumption
     DEF Init, FlashInv, NoneLost, AnswersInStep, LevelsPessimistic, InLoop

-----------------------------------------------------------------------------
(* The steps that touch neither FIFO. *)

LEMMA StartKeeps ==
  ASSUME FlashInv, NEW k \in Kinds, NEW n \in 1..MaxSectors, Start(k, n)
  PROVE  FlashInv'
<1> USE MaxSectorsAssumption, SizeModAssumption
<1>1. TypeOK'
  <2>0. cpu \in Cpu /\ n \in 0..MaxSectors
    BY DEF FlashInv, TypeOK
  <2>1. cpu' \in Cpu
    <3>1. cpu' = [pc |-> "next", kind |-> k, sectors |-> n, step |-> 1, send |-> cpu.send,
                  skip |-> cpu.skip, get |-> cpu.get, txl |-> cpu.txl, rxl |-> cpu.rxl,
                  stat |-> cpu.stat]
      BY <2>0 DEF Start, Cpu
    <3>2. QED BY <3>1, <2>0 DEF Cpu
  <2>2. cpu'.step <= Len(Steps[cpu'.kind])
    <3>1. cpu'.step = 1 /\ cpu'.kind = k BY <2>0 DEF Start, Cpu
    <3> DEFINE length == Len(Steps[k])
    <3>2. length \in 1..5 BY StepsOfTasks
    <3> HIDE DEF length
    <3>3. 1 <= length BY <3>2
    <3>4. QED BY <3>1, <3>3 DEF length
  <2>3. QED BY <2>1, <2>2 DEF FlashInv, TypeOK, Start, Cpu
<1>2. ~Unclean /\ ~InLoop /\ ~InLoop' /\ InFlight' = InFlight
  BY DEF FlashInv, TypeOK, Start, Cpu, Unclean, InLoop, InFlight, Sent, Inside, Answered
<1>3. QED
  BY <1>1, <1>2
     DEF FlashInv, NoneLost, AnswersInStep, LevelsPessimistic, Start, TypeOK, Cpu, InFlight, Sent, Inside, Answered

LEMMA ConnectKeeps ==
  ASSUME FlashInv, Connect
  PROVE  FlashInv'
<1>1. cpu.kind = "exit" /\ cpu.step = 1
  BY StepInTask DEF FlashInv, Connect
<1>2. TypeOK'
  <2>1. cpu' \in Cpu BY <1>1 DEF FlashInv, TypeOK, Connect, Cpu
  <2>2. cpu'.step <= Len(Steps[cpu'.kind])
    BY <1>1, StepsOfTasks DEF FlashInv, TypeOK, Connect, Cpu
  <2>3. QED BY <2>1, <2>2 DEF FlashInv, TypeOK, Connect, Cpu
<1>3. Unclean'
  BY <1>1, StepsOfTasks DEF FlashInv, TypeOK, Connect, Cpu, Unclean, Step
<1>4. NoneLost' /\ AnswersInStep'
  BY <1>3 DEF NoneLost, AnswersInStep
<1>5. Inside' = Inside /\ Inside <= Internal /\ cpu'.pc = "next"
  BY DEF FlashInv, LevelsPessimistic, Connect, TypeOK, Cpu, Inside
<1>6. QED
  BY <1>2, <1>4, <1>5 DEF FlashInv, LevelsPessimistic

LEMMA InitSpiKeeps ==
  ASSUME FlashInv, InitSpi
  PROVE  FlashInv'
<1>1. cpu.kind = "exit" /\ cpu.step = 2
  BY StepInTask DEF FlashInv, InitSpi
<1>2. TypeOK'
  <2>1. cpu' \in Cpu BY <1>1 DEF FlashInv, TypeOK, InitSpi, Cpu
  <2>2. cpu'.step <= Len(Steps[cpu'.kind])
    BY <1>1, StepsOfTasks DEF FlashInv, TypeOK, InitSpi, Cpu
  <2>3. ssi' \in Controller BY DEF InitSpi, Controller
  <2>4. QED BY <2>1, <2>2, <2>3 DEF FlashInv, TypeOK, InitSpi, Cpu
<1>3. InFlight' = 0 /\ ~ssi'.lost /\ ~InLoop' /\ Len(ssi'.mid) = 0
  BY DEF FlashInv, TypeOK, InitSpi, Cpu, InFlight, Sent, Inside, Answered, InLoop
<1>4. QED
  BY <1>2, <1>3, FifoDepthAssumption, InternalAssumption
     DEF FlashInv, NoneLost, AnswersInStep, LevelsPessimistic, InitSpi, TypeOK, Cpu, Inside

LEMMA AbortKeeps ==
  ASSUME FlashInv, Abort
  PROVE  FlashInv'
BY DEF FlashInv, TypeOK, Abort, NoneLost, AnswersInStep, LevelsPessimistic, Step,
       Inside, Answered

LEMMA ReadyKeeps ==
  ASSUME FlashInv, Ready
  PROVE  FlashInv'
BY DEF FlashInv, TypeOK, Ready, NoneLost, AnswersInStep, LevelsPessimistic, Step,
       InOrder, InFlight, Sent, Inside, Answered, InLoop, Unclean, Pushed, Taken
-----------------------------------------------------------------------------
(* What the queues of the controller do to their contents. *)

LEMMA TailOf ==
  ASSUME NEW S, NEW q \in Seq(S), q # <<>>
  PROVE  /\ Len(q) \in Nat \ {0} /\ Head(q) = q[1] /\ q[1] \in S
         /\ Tail(q) \in Seq(S) /\ Len(Tail(q)) = Len(q) - 1
         /\ \A i \in 1..(Len(q) - 1) : Tail(q)[i] = q[i + 1]
OBVIOUS

LEMMA AppendTo ==
  ASSUME NEW S, NEW q \in Seq(S), NEW e \in S
  PROVE  /\ Len(q) \in Nat
         /\ Append(q, e) \in Seq(S) /\ Len(Append(q, e)) = Len(q) + 1
         /\ \A i \in 1..Len(q) : Append(q, e)[i] = q[i]
         /\ Append(q, e)[Len(q) + 1] = e
OBVIOUS

(* A byte that moves on inside the controller stays in order. *)
LEMMA ClockOrder ==
  ASSUME NEW s \in Controller, NEW t \in Controller, NEW taken \in Int, InOrder(s, taken),
         s.tx # <<>>, t.rx = s.rx, t.tx = Tail(s.tx), t.mid = Append(s.mid, Head(s.tx))
  PROVE  InOrder(t, taken)
<1> DEFINE r == Len(s.rx)
           m == Len(s.mid)
           n == Len(s.tx)
<1>1. /\ s.tx \in Seq(Nat) /\ s.mid \in Seq(Nat) /\ s.rx \in Seq(Answer)
      /\ r \in Nat /\ m \in Nat /\ n \in Nat
      /\ DOMAIN s.rx = 1..r /\ DOMAIN s.mid = 1..m /\ DOMAIN s.tx = 1..n
      /\ t.tx \in Seq(Nat) /\ t.mid \in Seq(Nat)
  BY DEF Controller
<1>0. /\ \A i \in 1..m : s.mid[i] = taken + r + i
      /\ \A i \in 1..n : s.tx[i] = taken + r + m + i
  BY <1>1 DEF InOrder
<1>2. Head(s.tx) \in Nat /\ Head(s.tx) = s.tx[1] /\ n > 0
  BY <1>1, TailOf
<1>3. DOMAIN t.mid = 1..(m + 1) /\ Len(t.mid) = m + 1
  BY <1>1, <1>2, AppendTo
<1>4. DOMAIN t.tx = 1..(n - 1)
  BY <1>1, TailOf
<1> HIDE DEF r, m, n
<1>5. ASSUME NEW i \in 1..(m + 1)
      PROVE  t.mid[i] = taken + r + i
  <2>1. s.tx[1] = taken + r + m + 1 BY <1>0, <1>1, <1>2
  <2>2. CASE i = m + 1
    <3>1. t.mid[i] = s.tx[1] BY <1>1, <1>2, <2>2, AppendTo DEF m
    <3>2. QED BY <1>1, <2>1, <2>2, <3>1
  <2>3. CASE i \in 1..m
    <3>1. t.mid[i] = s.mid[i] BY <1>1, <1>2, <2>3, AppendTo DEF m
    <3>2. QED BY <1>0, <2>3, <3>1
  <2>4. QED BY <1>1, <2>2, <2>3
<1>6. ASSUME NEW i \in 1..(n - 1)
      PROVE  t.tx[i] = taken + r + (m + 1) + i
  <2>1. t.tx[i] = s.tx[i + 1] BY <1>1, TailOf DEF n
  <2>2. i + 1 \in 1..n BY <1>1
  <2>3. s.tx[i + 1] = taken + r + m + (i + 1) BY <1>0, <2>2
  <2>4. QED BY <1>1, <2>1, <2>3
<1>7. \A i \in DOMAIN t.rx : t.rx[i].pos = taken + i
  BY DEF InOrder
<1>8. QED BY <1>3, <1>4, <1>5, <1>6, <1>7 DEF InOrder, r, m

(* So does one that is answered. *)
LEMMA ReplyOrder ==
  ASSUME NEW s \in Controller, NEW t \in Controller, NEW taken \in Int, InOrder(s, taken),
         NEW a \in Answer, a.pos = Head(s.mid),
         s.mid # <<>>, t.rx = Append(s.rx, a), t.mid = Tail(s.mid), t.tx = s.tx
  PROVE  InOrder(t, taken)
<1> DEFINE r == Len(s.rx)
           m == Len(s.mid)
           n == Len(s.tx)
<1>1. /\ s.tx \in Seq(Nat) /\ s.mid \in Seq(Nat) /\ s.rx \in Seq(Answer)
      /\ r \in Nat /\ m \in Nat /\ n \in Nat
      /\ DOMAIN s.rx = 1..r /\ DOMAIN s.mid = 1..m /\ DOMAIN s.tx = 1..n
      /\ t.rx \in Seq(Answer) /\ t.mid \in Seq(Nat)
  BY DEF Controller
<1>2. /\ \A i \in 1..r : s.rx[i].pos = taken + i
      /\ \A i \in 1..m : s.mid[i] = taken + r + i
      /\ \A i \in 1..n : s.tx[i] = taken + r + m + i
  BY <1>1 DEF InOrder
<1>3. Head(s.mid) = s.mid[1] /\ m > 0
  BY <1>1, TailOf
<1>4. DOMAIN t.rx = 1..(r + 1) /\ Len(t.rx) = r + 1
  BY <1>1, AppendTo
<1>5. DOMAIN t.mid = 1..(m - 1) /\ Len(t.mid) = m - 1
  BY <1>1, TailOf
<1> HIDE DEF r, m, n
<1>6. ASSUME NEW i \in 1..(r + 1)
      PROVE  t.rx[i].pos = taken + i
  <2>1. s.mid[1] = taken + r + 1 BY <1>1, <1>2, <1>3
  <2>2. CASE i = r + 1
    <3>1. t.rx[i] = a BY <1>1, <2>2, AppendTo DEF r
    <3>2. QED BY <1>1, <1>3, <2>1, <2>2, <3>1
  <2>3. CASE i \in 1..r
    <3>1. t.rx[i] = s.rx[i] BY <1>1, <2>3, AppendTo DEF r
    <3>2. QED BY <1>2, <2>3, <3>1
  <2>4. QED BY <1>1, <2>2, <2>3
<1>7. ASSUME NEW i \in 1..(m - 1)
      PROVE  t.mid[i] = taken + (r + 1) + i
  <2>1. t.mid[i] = s.mid[i + 1] BY <1>1, TailOf DEF m
  <2>2. i + 1 \in 1..m BY <1>1
  <2>3. s.mid[i + 1] = taken + r + (i + 1) BY <1>2, <2>2
  <2>4. QED BY <1>1, <2>1, <2>3
<1>8. ASSUME NEW i \in 1..n
      PROVE  t.tx[i] = taken + (r + 1) + (m - 1) + i
  BY <1>1, <1>2
<1>9. QED BY <1>1, <1>4, <1>5, <1>6, <1>7, <1>8 DEF InOrder

(* So does one that is pushed, if it is the next. *)
LEMMA PutOrder ==
  ASSUME NEW s \in Controller, NEW t \in Controller, NEW taken \in Int, InOrder(s, taken),
         NEW p \in Nat, t.rx = s.rx, t.mid = s.mid, t.tx = Append(s.tx, p)
  PROVE  p = taken + Len(s.rx) + Len(s.mid) + Len(s.tx) + 1 => InOrder(t, taken)
<1> DEFINE r == Len(s.rx)
           m == Len(s.mid)
           n == Len(s.tx)
<1>1. /\ s.tx \in Seq(Nat) /\ t.tx \in Seq(Nat)
      /\ r \in Nat /\ m \in Nat /\ n \in Nat /\ DOMAIN s.tx = 1..n
  BY DEF Controller
<1>2. DOMAIN t.tx = 1..(n + 1)
  BY <1>1, AppendTo
<1>3. /\ \A i \in 1..n : s.tx[i] = taken + r + m + i
  BY <1>1 DEF InOrder
<1>4. /\ \A i \in 1..n : t.tx[i] = s.tx[i]
      /\ t.tx[n + 1] = p
  BY <1>1, AppendTo
<1> HIDE DEF r, m, n
<1>7. SUFFICES ASSUME p = taken + r + m + n + 1 PROVE InOrder(t, taken)
  BY DEF r, m, n
<1>5. ASSUME NEW i \in 1..(n + 1)
      PROVE  t.tx[i] = taken + r + m + i
  <2>1. CASE i = n + 1
    BY <1>1, <1>4, <1>7, <2>1
  <2>2. CASE i \in 1..n
    BY <1>3, <1>4, <2>2
  <2>3. QED BY <1>1, <2>1, <2>2
<1>6. QED BY <1>2, <1>5 DEF InOrder, r, m

(* The rest is in order after an answer has been taken. *)
LEMMA GetOrder ==
  ASSUME NEW s \in Controller, NEW t \in Controller, NEW taken \in Int, InOrder(s, taken),
         s.rx # <<>>, t.rx = Tail(s.rx), t.mid = s.mid, t.tx = s.tx
  PROVE  InOrder(t, taken + 1)
<1> DEFINE r == Len(s.rx)
           m == Len(s.mid)
           n == Len(s.tx)
<1>1. /\ s.rx \in Seq(Answer)
      /\ s.tx \in Seq(Nat) /\ s.mid \in Seq(Nat)
      /\ r \in Nat \ {0} /\ m \in Nat /\ n \in Nat
      /\ DOMAIN s.rx = 1..r /\ DOMAIN s.mid = 1..m /\ DOMAIN s.tx = 1..n
      /\ t.rx \in Seq(Answer)
  BY DEF Controller
<1>2. /\ \A i \in 1..r : s.rx[i].pos = taken + i
      /\ \A i \in 1..m : s.mid[i] = taken + r + i
      /\ \A i \in 1..n : s.tx[i] = taken + r + m + i
  BY <1>1 DEF InOrder
<1>3. DOMAIN t.rx = 1..(r - 1) /\ Len(t.rx) = r - 1 /\ Len(t.mid) = m
  BY <1>1, TailOf
<1> HIDE DEF r, m, n
<1>4. ASSUME NEW i \in 1..(r - 1)
      PROVE  t.rx[i].pos = taken + 1 + i
  <2>1. t.rx[i] = s.rx[i + 1] BY <1>1, TailOf DEF r
  <2>2. i + 1 \in 1..r BY <1>1
  <2>3. s.rx[i + 1].pos = taken + (i + 1) BY <1>2, <2>2
  <2>4. QED BY <1>1, <2>1, <2>3
<1>5. ASSUME NEW i \in 1..m
      PROVE  t.mid[i] = taken + 1 + (r - 1) + i
  BY <1>1, <1>2
<1>6. ASSUME NEW i \in 1..n
      PROVE  t.tx[i] = taken + 1 + (r - 1) + m + i
  BY <1>1, <1>2
<1>7. QED BY <1>1, <1>3, <1>4, <1>5, <1>6 DEF InOrder

-----------------------------------------------------------------------------
(* The controller. *)

(* What counts bytes is a number. *)
LEMMA Counts ==
  ASSUME TypeOK
  PROVE  /\ Sent \in Nat /\ Inside \in Nat /\ Answered \in Nat /\ InFlight \in Nat
         /\ cpu.txl \in Nat /\ cpu.rxl \in Nat
         /\ InLoop => /\ Step \in Transfers /\ Heads[Step] \in 0..4
                      /\ Body[Step] \in 0..(SizeMod - 1) /\ cpu.send <= Body[Step]
                      /\ Pushed \in Nat /\ Taken \in Int
<1>1. Sent \in Nat /\ Inside \in Nat /\ Answered \in Nat
  BY DEF TypeOK, Controller, Sent, Inside, Answered
<1>2. InFlight \in Nat
  BY <1>1 DEF InFlight
<1>3. ASSUME InLoop
      PROVE  /\ Step \in Transfers /\ Heads[Step] \in 0..4
             /\ Body[Step] \in 0..(SizeMod - 1) /\ cpu.send <= Body[Step]
             /\ Pushed \in Nat /\ Taken \in Int
  <2>1. Step \in Transfers /\ cpu.send <= Body[Step]
    BY <1>3 DEF TypeOK, InLoop
  <2>2. Heads[Step] \in 0..4 /\ Body[Step] \in 0..(SizeMod - 1)
    BY <2>1, TransferSizes
  <2>3. cpu.send \in Int /\ cpu.skip \in Int /\ cpu.get \in Int
    BY SizeModAssumption DEF TypeOK, Cpu
  <2>4. QED BY <2>1, <2>2, <2>3, SizeModAssumption DEF Pushed, Taken
<1>4. cpu.txl \in Nat /\ cpu.rxl \in Nat
  BY DEF TypeOK, Cpu
<1>5. QED BY <1>1, <1>2, <1>3, <1>4

LEMMA ClockKeeps ==
  ASSUME FlashInv, Clock
  PROVE  FlashInv'
<1>1. /\ ssi \in Controller
      /\ ssi.tx \in Seq(Nat) /\ ssi.mid \in Seq(Nat) /\ ssi.rx \in Seq(Answer)
      /\ ssi.tx # <<>>
      /\ cpu' = cpu /\ busy' = busy /\ aborted' = aborted
  BY DEF FlashInv, TypeOK, Controller, Clock
<1>2. ssi' = [on |-> ssi.on, tx |-> Tail(ssi.tx), mid |-> Append(ssi.mid, Head(ssi.tx)),
              rx |-> ssi.rx, lost |-> ssi.lost]
  BY <1>1 DEF Controller, Clock
<1>3. Head(ssi.tx) \in Nat /\ Tail(ssi.tx) \in Seq(Nat) /\ Append(ssi.mid, Head(ssi.tx)) \in Seq(Nat)
  BY <1>1, TailOf, AppendTo
<1>4. ssi' \in Controller
  BY <1>1, <1>2, <1>3 DEF Controller
<1>5. /\ Sent' = Sent - 1 /\ Inside' = Inside + 1 /\ Answered' = Answered
      /\ Inside < Internal
  BY <1>1, <1>2, <1>3, TailOf, AppendTo DEF Sent, Inside, Answered, Clock
<1>6. InFlight' = InFlight /\ Inside' <= Internal
  BY <1>5, Counts, InternalAssumption DEF FlashInv, InFlight
<1>7. /\ InLoop' = InLoop /\ Unclean' = Unclean /\ Step' = Step
      /\ Pushed' = Pushed /\ Taken' = Taken
  BY <1>1 DEF InLoop, Unclean, Step, Pushed, Taken
<1>8. TypeOK'
  BY <1>1, <1>4, <1>7 DEF FlashInv, TypeOK
<1>9. AnswersInStep'
  <2>1. InLoop => Taken \in Int
    BY Counts DEF FlashInv
  <2>2. ASSUME InLoop, ~aborted, ~Unclean
        PROVE  InOrder(ssi', Taken)
    <3>1. InOrder(ssi, Taken) BY <2>2 DEF FlashInv, AnswersInStep
    <3>2. QED BY <1>1, <1>2, <1>4, <2>1, <2>2, <3>1, ClockOrder
  <2>3. QED BY <1>1, <1>6, <1>7, <2>2 DEF FlashInv, AnswersInStep
<1>10. NoneLost'
  BY <1>1, <1>2, <1>6, <1>7 DEF FlashInv, NoneLost
<1>11. LevelsPessimistic'
  BY <1>1, <1>5, <1>6 DEF FlashInv, LevelsPessimistic
<1>12. QED BY <1>8, <1>9, <1>10, <1>11 DEF FlashInv

LEMMA ReplyKeeps ==
  ASSUME FlashInv, Reply
  PROVE  FlashInv'
<1> DEFINE a == [pos |-> Head(ssi.mid), bit |-> IF aborted THEN 0 ELSE busy]
           room == Len(ssi.rx) < FifoDepth
<1>1. /\ ssi \in Controller
      /\ ssi.tx \in Seq(Nat) /\ ssi.mid \in Seq(Nat) /\ ssi.rx \in Seq(Answer)
      /\ ssi.mid # <<>>
      /\ cpu' = cpu /\ busy' = busy /\ aborted' = aborted
  BY DEF FlashInv, TypeOK, Controller, Reply
<1>2. Head(ssi.mid) \in Nat /\ Tail(ssi.mid) \in Seq(Nat)
  BY <1>1, TailOf
<1>3. a \in Answer /\ a.pos = Head(ssi.mid)
  BY <1>2 DEF FlashInv, TypeOK, Answer
<1>4. /\ room => ssi' = [on |-> ssi.on, tx |-> ssi.tx, mid |-> Tail(ssi.mid),
                         rx |-> Append(ssi.rx, a), lost |-> ssi.lost]
      /\ ~room => ssi' = [on |-> ssi.on, tx |-> ssi.tx, mid |-> Tail(ssi.mid),
                          rx |-> ssi.rx, lost |-> TRUE]
  <2>1. ssi' = IF room THEN [ssi EXCEPT !.mid = Tail(@), !.rx = Append(@, a)]
               ELSE [ssi EXCEPT !.mid = Tail(@), !.lost = TRUE]
    BY DEF Reply
  <2>2. QED BY <1>1, <2>1 DEF Controller
<1>5. Inside = Len(ssi.mid) /\ room <=> Answered < FifoDepth
  BY DEF Inside, Answered
<1> HIDE DEF a, room
<1>6. Append(ssi.rx, a) \in Seq(Answer)
  BY <1>1, <1>3, AppendTo
<1>7. ssi' \in Controller
  <2>1. ASSUME NEW r \in Seq(Answer), NEW l \in BOOLEAN
        PROVE  [on |-> ssi.on, tx |-> ssi.tx, mid |-> Tail(ssi.mid), rx |-> r, lost |-> l]
                 \in Controller
    BY <1>1, <1>2 DEF Controller
  <2>2. ssi.lost \in BOOLEAN BY <1>1 DEF Controller
  <2>3. QED BY <1>1, <1>4, <1>6, <2>1, <2>2
<1>8. /\ Sent' = Sent /\ Inside' = Inside - 1 /\ Inside > 0
      /\ room => Answered' = Answered + 1 /\ ssi'.lost = ssi.lost
      /\ ~room => Answered' = Answered
  <2>1. Len(Tail(ssi.mid)) = Len(ssi.mid) - 1 /\ Len(ssi.mid) > 0
    BY <1>1, TailOf
  <2>2. Len(Append(ssi.rx, a)) = Len(ssi.rx) + 1
    BY <1>1, <1>3, AppendTo
  <2>3. CASE room BY <1>4, <2>1, <2>2, <2>3 DEF Sent, Inside, Answered
  <2>4. CASE ~room BY <1>4, <2>1, <2>4 DEF Sent, Inside, Answered
  <2>5. QED BY <2>3, <2>4
<1>9. room => InFlight' = InFlight
  BY <1>8, Counts DEF FlashInv, InFlight
<1>10. ~aborted /\ ~Unclean => room
  BY <1>5, <1>8, Counts, FifoDepthAssumption DEF FlashInv, NoneLost, InFlight
<1>11. /\ InLoop' = InLoop /\ Unclean' = Unclean /\ Step' = Step
       /\ Pushed' = Pushed /\ Taken' = Taken
  BY <1>1 DEF InLoop, Unclean, Step, Pushed, Taken
<1>12. TypeOK'
  BY <1>1, <1>7, <1>11 DEF FlashInv, TypeOK
<1>13. AnswersInStep'
  <2>1. InLoop => Taken \in Int
    BY Counts DEF FlashInv
  <2>2. ASSUME InLoop, ~aborted, ~Unclean
        PROVE  InOrder(ssi', Taken)
    <3>1. InOrder(ssi, Taken) BY <2>2 DEF FlashInv, AnswersInStep
    <3>2. /\ ssi'.rx = Append(ssi.rx, a) /\ ssi'.mid = Tail(ssi.mid) /\ ssi'.tx = ssi.tx
      BY <1>4, <1>10, <2>2
    <3>3. QED BY <1>1, <1>3, <1>7, <2>1, <2>2, <3>1, <3>2, ReplyOrder
  <2>3. QED BY <1>1, <1>9, <1>10, <1>11, <2>2 DEF FlashInv, AnswersInStep
<1>14. NoneLost'
  BY <1>1, <1>8, <1>9, <1>10, <1>11 DEF FlashInv, NoneLost
<1>15. LevelsPessimistic'
  <2>1. cpu.pc \in {"rxlevel", "move"} => ~Unclean
    BY DEF Unclean
  <2>2. Answered' >= Answered /\ Inside' <= Internal
    BY <1>8, Counts, InternalAssumption DEF FlashInv, LevelsPessimistic
  <2>3. cpu.pc = "move" => cpu.rxl <= Answered'
    BY <1>8, <2>2, Counts DEF FlashInv, LevelsPessimistic
  <2>4. ASSUME ~aborted
        PROVE  /\ cpu.pc = "rxlevel" => InFlight' <= cpu.txl + Answered' + Internal
               /\ cpu.pc = "move" => InFlight' <= cpu.txl + cpu.rxl + Internal
    <3>1. CASE cpu.pc = "rxlevel"
      <4>1. InFlight' = InFlight /\ Answered' = Answered + 1
        BY <1>8, <1>9, <1>10, <2>1, <2>4, <3>1
      <4>2. QED BY <2>4, <3>1, <4>1, Counts, InternalAssumption DEF FlashInv, LevelsPessimistic
    <3>2. CASE cpu.pc = "move"
      BY <1>9, <1>10, <2>1, <2>4, <3>2 DEF FlashInv, LevelsPessimistic
    <3>3. QED BY <3>1, <3>2
  <2>5. QED BY <1>1, <2>2, <2>3, <2>4 DEF LevelsPessimistic
<1>16. QED BY <1>12, <1>13, <1>14, <1>15 DEF FlashInv

-----------------------------------------------------------------------------
(* The loop. *)

LEMMA ReadTxLevelKeeps ==
  ASSUME FlashInv, ReadTxLevel
  PROVE  FlashInv'
<1>1. /\ cpu \in Cpu /\ cpu.pc = "txlevel" /\ ssi' = ssi /\ aborted' = aborted
  BY DEF FlashInv, TypeOK, Controller, ReadTxLevel
<1>2. cpu' = [pc |-> "rxlevel", kind |-> cpu.kind, sectors |-> cpu.sectors, step |-> cpu.step,
              send |-> cpu.send, skip |-> cpu.skip, get |-> cpu.get,
              txl |-> Sent, rxl |-> cpu.rxl, stat |-> cpu.stat]
  BY <1>1 DEF ReadTxLevel, Cpu, Sent
<1>3. cpu' \in Cpu
  BY <1>1, <1>2, Counts DEF FlashInv, Cpu
<1>4. /\ Step' = Step /\ InLoop /\ InLoop' /\ ~Unclean /\ ~Unclean' /\ InFlight' = InFlight
      /\ Pushed' = Pushed /\ Taken' = Taken
  BY <1>1, <1>2 DEF Step, InLoop, Unclean, InFlight, Sent, Inside, Answered, Pushed, Taken
<1>5. TypeOK'
  BY <1>1, <1>2, <1>3, <1>4 DEF FlashInv, TypeOK, ReadTxLevel
<1>6. NoneLost' /\ AnswersInStep'
  BY <1>1, <1>2, <1>4 DEF FlashInv, NoneLost, AnswersInStep
<1>7. LevelsPessimistic'
  <2>1. Inside <= Internal /\ Inside' = Inside /\ Answered' = Answered
    BY <1>1 DEF FlashInv, LevelsPessimistic, Inside, Answered
  <2>2. InFlight <= Sent + Answered + Internal
    BY <2>1, Counts, InternalAssumption DEF FlashInv, InFlight
  <2>3. QED BY <1>2, <1>4, <2>1, <2>2 DEF LevelsPessimistic
<1>8. QED BY <1>5, <1>6, <1>7 DEF FlashInv

LEMMA ReadRxLevelKeeps ==
  ASSUME FlashInv, ReadRxLevel
  PROVE  FlashInv'
<1>1. /\ cpu \in Cpu /\ cpu.pc = "rxlevel" /\ ssi' = ssi /\ aborted' = aborted
  BY DEF FlashInv, TypeOK, Controller, ReadRxLevel
<1>2. cpu' = [pc |-> "move", kind |-> cpu.kind, sectors |-> cpu.sectors, step |-> cpu.step,
              send |-> cpu.send, skip |-> cpu.skip, get |-> cpu.get,
              txl |-> cpu.txl, rxl |-> Answered, stat |-> cpu.stat]
  BY <1>1 DEF ReadRxLevel, Cpu, Answered
<1>3. cpu' \in Cpu
  BY <1>1, <1>2, Counts DEF FlashInv, Cpu
<1>4. /\ Step' = Step /\ InLoop /\ InLoop' /\ ~Unclean /\ ~Unclean' /\ InFlight' = InFlight
      /\ Pushed' = Pushed /\ Taken' = Taken
  BY <1>1, <1>2 DEF Step, InLoop, Unclean, InFlight, Sent, Inside, Answered, Pushed, Taken
<1>5. TypeOK'
  BY <1>1, <1>2, <1>3, <1>4 DEF FlashInv, TypeOK, ReadRxLevel
<1>6. NoneLost' /\ AnswersInStep'
  BY <1>1, <1>2, <1>4 DEF FlashInv, NoneLost, AnswersInStep
<1>7. LevelsPessimistic'
  <2>1. Inside' = Inside /\ Answered' = Answered
    BY <1>1 DEF Inside, Answered
  <2>2. cpu'.txl = cpu.txl /\ cpu'.rxl = Answered /\ cpu'.pc = "move"
    BY <1>2
  <2>3. QED BY <1>1, <1>4, <2>1, <2>2, Counts DEF FlashInv, LevelsPessimistic
<1>8. QED BY <1>5, <1>6, <1>7 DEF FlashInv

LEMMA EndTransferKeeps ==
  ASSUME FlashInv, EndTransfer
  PROVE  FlashInv'
<1>1. /\ cpu \in Cpu /\ cpu.pc = "end" /\ ssi' = ssi /\ aborted' = aborted
      /\ ssi \in Controller /\ aborted \in BOOLEAN
  BY DEF FlashInv, TypeOK, EndTransfer
<1>2. busy' \in {0, 1}
  <2>1. busy \in {0, 1} BY DEF FlashInv, TypeOK
  <2>2. busy' \in {busy} \/ busy' \in {busy, 1} \/ busy' \in {1}
    BY Zenon DEF EndTransfer
  <2>3. QED BY <2>1, <2>2
<1>3. /\ cpu'.pc \in {"next", "idle"} /\ cpu' \in Cpu
      /\ cpu'.step <= Len(Steps[cpu'.kind])
  <2> DEFINE n == Len(Steps[cpu.kind])
  <2>0. cpu.kind \in Kinds /\ cpu.step \in 1..n /\ n \in 1..5
    BY StepInTask DEF FlashInv
  <2>1. \/ cpu' = [cpu EXCEPT !.pc = "next"]
        \/ cpu.step # n /\ cpu' = [cpu EXCEPT !.pc = "next", !.step = @ + 1]
        \/ /\ cpu.sectors > 1
           /\ cpu' = [cpu EXCEPT !.pc = "next", !.step = 1, !.sectors = @ - 1]
        \/ cpu' = [cpu EXCEPT !.pc = "idle", !.sectors = 0]
    BY Zenon DEF EndTransfer
  <2> HIDE DEF n
  <2>2. 0 \in 0..MaxSectors /\ (cpu.sectors > 1 => cpu.sectors - 1 \in 0..MaxSectors)
    BY <1>1, MaxSectorsAssumption DEF Cpu
  <2>3. cpu.step # n => cpu.step + 1 \in 1..n /\ cpu.step + 1 \in 1..5
    BY <2>0
  <2>4. /\ cpu'.pc \in {"next", "idle"} /\ cpu' \in Cpu /\ cpu'.kind = cpu.kind
        /\ cpu'.step <= n
    <3>1. CASE cpu' = [cpu EXCEPT !.pc = "next"]
      BY <1>1, <2>0, <3>1 DEF Cpu
    <3>2. CASE cpu.step # n /\ cpu' = [cpu EXCEPT !.pc = "next", !.step = @ + 1]
      <4>1. cpu' = [pc |-> "next", kind |-> cpu.kind, sectors |-> cpu.sectors, step |-> cpu.step + 1,
                    send |-> cpu.send, skip |-> cpu.skip, get |-> cpu.get,
                    txl |-> cpu.txl, rxl |-> cpu.rxl, stat |-> cpu.stat]
        BY <1>1, <3>2 DEF Cpu
      <4>2. cpu' \in Cpu
        BY <1>1, <2>3, <3>2, <4>1 DEF Cpu
      <4>3. QED BY <2>0, <2>3, <3>2, <4>1, <4>2
    <3>3. CASE /\ cpu.sectors > 1
               /\ cpu' = [cpu EXCEPT !.pc = "next", !.step = 1, !.sectors = @ - 1]
      <4>1. cpu' = [pc |-> "next", kind |-> cpu.kind, sectors |-> cpu.sectors - 1, step |-> 1,
                    send |-> cpu.send, skip |-> cpu.skip, get |-> cpu.get,
                    txl |-> cpu.txl, rxl |-> cpu.rxl, stat |-> cpu.stat]
        BY <1>1, <3>3 DEF Cpu
      <4>2. cpu' \in Cpu
        BY <1>1, <2>2, <3>3, <4>1 DEF Cpu
      <4>3. QED BY <2>0, <4>1, <4>2
    <3>4. CASE cpu' = [cpu EXCEPT !.pc = "idle", !.sectors = 0]
      <4>1. cpu' = [pc |-> "idle", kind |-> cpu.kind, sectors |-> 0, step |-> cpu.step,
                    send |-> cpu.send, skip |-> cpu.skip, get |-> cpu.get,
                    txl |-> cpu.txl, rxl |-> cpu.rxl, stat |-> cpu.stat]
        BY <1>1, <3>4 DEF Cpu
      <4>2. cpu' \in Cpu
        BY <1>1, <2>2, <4>1 DEF Cpu
      <4>3. QED BY <2>0, <4>1, <4>2
    <3>5. QED BY <2>1, <3>1, <3>2, <3>3, <3>4
  <2>5. QED BY <2>4 DEF n
<1>4. TypeOK'
  BY <1>1, <1>2, <1>3 DEF TypeOK
<1>5. InLoop /\ ~Unclean /\ ~InLoop'
  BY <1>1, <1>3 DEF InLoop, Unclean
<1>6. InFlight' = InFlight /\ Inside' = Inside
  BY <1>1 DEF InFlight, Sent, Inside, Answered
<1>7. ~aborted => InFlight = 0 /\ ~ssi.lost
  BY <1>1, <1>5 DEF FlashInv, AnswersInStep, NoneLost
<1>8. NoneLost' /\ AnswersInStep'
  BY <1>1, <1>5, <1>6, <1>7, FifoDepthAssumption DEF NoneLost, AnswersInStep
<1>9. LevelsPessimistic'
  BY <1>3, <1>6 DEF FlashInv, LevelsPessimistic
<1>10. QED BY <1>4, <1>8, <1>9 DEF FlashInv

(* Ageing changes no length, and nothing in an empty controller. *)
LEMMA AgedController ==
  ASSUME NEW s \in Controller
  PROVE  /\ Aged(s) \in Controller
         /\ Len(Aged(s).tx) = Len(s.tx) /\ Len(Aged(s).mid) = Len(s.mid)
         /\ Len(Aged(s).rx) = Len(s.rx) /\ Aged(s).lost = s.lost
<1>1. /\ s.tx \in Seq(Nat) /\ s.mid \in Seq(Nat) /\ s.rx \in Seq(Answer)
      /\ s.on \in BOOLEAN /\ s.lost \in BOOLEAN
  BY DEF Controller
<1> DEFINE tx == [i \in DOMAIN s.tx |-> 0]
           mid == [i \in DOMAIN s.mid |-> 0]
           rx == [i \in DOMAIN s.rx |-> [pos |-> 0, bit |-> s.rx[i].bit]]
<1>2. Aged(s) = [s EXCEPT !.tx = tx, !.mid = mid, !.rx = rx]
  BY Zenon DEF Aged
<1>3. tx \in Seq(Nat) /\ Len(tx) = Len(s.tx)
  BY <1>1
<1>4. mid \in Seq(Nat) /\ Len(mid) = Len(s.mid)
  BY <1>1
<1>5. rx \in Seq(Answer) /\ Len(rx) = Len(s.rx)
  <2>1. DOMAIN s.rx = 1..Len(s.rx) /\ Len(s.rx) \in Nat
        /\ \A i \in 1..Len(s.rx) : s.rx[i] \in Answer
    BY <1>1
  <2>2. \A a \in Answer : [pos |-> 0, bit |-> a.bit] \in Answer
    BY DEF Answer
  <2>3. rx \in [1..Len(s.rx) -> Answer]
    BY <2>1, <2>2
  <2> HIDE DEF rx
  <2>4. QED BY <2>1, <2>3
<1> HIDE DEF tx, mid, rx
<1>6. Aged(s) = [on |-> s.on, tx |-> tx, mid |-> mid, rx |-> rx, lost |-> s.lost]
  BY <1>2 DEF Controller
<1>7. QED BY <1>1, <1>3, <1>4, <1>5, <1>6 DEF Controller

(* What finds room is appended, what does not is lost. *)
LEMMA PushController ==
  ASSUME NEW s \in Controller, NEW b \in Seq(Nat)
  PROVE  /\ Push(s, b) \in Controller
         /\ Push(s, b).mid = s.mid /\ Push(s, b).rx = s.rx
         /\ Len(s.tx) + Len(b) <= FifoDepth =>
              Push(s, b).tx = s.tx \o b /\ Push(s, b).lost = s.lost
<1>1. /\ s.tx \in Seq(Nat) /\ s.mid \in Seq(Nat) /\ s.rx \in Seq(Answer)
      /\ s.on \in BOOLEAN /\ s.lost \in BOOLEAN
  BY DEF Controller
<1>2. s.tx \o b \in Seq(Nat)
  BY <1>1
<1> DEFINE fits == Len(s.tx) + Len(b) <= FifoDepth
<1>3. /\ fits => Push(s, b) = [s EXCEPT !.tx = @ \o b]
      /\ ~fits => Push(s, b) = [s EXCEPT !.lost = TRUE]
  BY DEF Push
<1> HIDE DEF fits
<1>4. CASE fits
  <2>1. Push(s, b) = [on |-> s.on, tx |-> s.tx \o b, mid |-> s.mid, rx |-> s.rx, lost |-> s.lost]
    BY <1>3, <1>4 DEF Controller
  <2>2. QED BY <1>1, <1>2, <2>1 DEF Controller
<1>5. CASE ~fits
  <2>1. Push(s, b) = [on |-> s.on, tx |-> s.tx, mid |-> s.mid, rx |-> s.rx, lost |-> TRUE]
    BY <1>3, <1>5 DEF Controller
  <2>2. Push(s, b) \in Controller /\ Push(s, b).mid = s.mid /\ Push(s, b).rx = s.rx
    BY <1>1, <2>1 DEF Controller
  <2>3. QED BY <1>5, <2>2 DEF fits
<1>6. QED BY <1>4, <1>5

(* Before it the controller is empty, so the head finds room. *)
LEMMA PutHeadKeeps ==
  ASSUME FlashInv, PutHead
  PROVE  FlashInv'
<1> DEFINE h == Heads[Step]
           b == Body[Step]
           head == [i \in 1..h |-> i]
<1>1. /\ ssi \in Controller /\ cpu \in Cpu /\ cpu.pc = "next" /\ Step \in Transfers
      /\ busy' = busy /\ aborted' = aborted
  BY DEF FlashInv, TypeOK, PutHead
<1>2. h \in 0..4 /\ b \in 0..(SizeMod - 1)
  BY <1>1, TransferSizes
<1>3. cpu' = [pc |-> "txlevel", kind |-> cpu.kind, sectors |-> cpu.sectors, step |-> cpu.step,
              send |-> b, skip |-> h, get |-> b, txl |-> cpu.txl, rxl |-> cpu.rxl, stat |-> 0]
  <2>1. cpu' = [cpu EXCEPT !.pc = "txlevel", !.send = b, !.skip = h, !.get = b, !.stat = 0]
    BY Zenon DEF PutHead
  <2> HIDE DEF h, b
  <2>2. QED BY <1>1, <2>1 DEF Cpu
<1>4. ssi' = Push(Aged(ssi), head)
  BY Zenon DEF PutHead
<1>5. Step' = Step
  BY <1>3 DEF Step
<1>6. Pushed' = h /\ Taken' = 0
  <2>1. Pushed' = h + b - b /\ Taken' = h + b - h - b
    BY <1>3, <1>5 DEF Pushed, Taken
  <2> HIDE DEF h, b
  <2>2. QED BY <1>2, <2>1, SizeModAssumption
<1> HIDE DEF h, b
<1>7. head \in Seq(Nat) /\ Len(head) = h
  BY <1>2
<1>8. Aged(ssi) \in Controller
  BY <1>1, AgedController
<1>9. ssi' \in Controller /\ Inside' = Inside /\ Answered' = Answered
  <2>1. ssi'.mid = Aged(ssi).mid /\ ssi'.rx = Aged(ssi).rx /\ ssi' \in Controller
    BY <1>4, <1>7, <1>8, PushController
  <2>2. QED BY <1>1, <2>1, AgedController DEF Inside, Answered
<1>10. TypeOK'
  <2>1. cpu' \in Cpu
    BY <1>1, <1>2, <1>3 DEF Cpu
  <2>2. cpu'.send <= Body[Step]'
    <3>1. cpu'.send = b /\ b <= b BY <1>2, <1>3, SizeModAssumption
    <3>2. QED BY <1>5, <3>1 DEF b
  <2>3. cpu'.step <= Len(Steps[cpu'.kind])
    BY <1>3 DEF FlashInv, TypeOK
  <2>4. QED BY <1>1, <1>5, <1>9, <2>1, <2>2, <2>3 DEF FlashInv, TypeOK
<1>11. InLoop' /\ cpu'.pc = "txlevel" /\ ~InLoop
  BY <1>1, <1>3 DEF InLoop
<1>12. ~Unclean
  BY <1>1 DEF Unclean
<1>13. ASSUME ~aborted
       PROVE  /\ ~ssi'.lost /\ InFlight' = h /\ InOrder(ssi', 0)
  <2>1. InFlight = 0 /\ ~ssi.lost
    BY <1>11, <1>12, <1>13 DEF FlashInv, NoneLost, AnswersInStep
  <2>2. Sent = 0 /\ Inside = 0 /\ Answered = 0
    BY <2>1, Counts DEF FlashInv, InFlight
  <2>3. Len(Aged(ssi).tx) = 0 /\ Aged(ssi).lost = ssi.lost
    BY <1>1, <2>2, AgedController DEF Sent
  <2>4. Len(Aged(ssi).tx) + Len(head) <= FifoDepth
    BY <1>2, <1>7, <2>3, FifoDepthAssumption, HeadAssumption
  <2>5. ssi'.tx = Aged(ssi).tx \o head /\ ssi'.lost = ssi.lost
    BY <1>4, <1>7, <1>8, <2>3, <2>4, PushController
  <2>6. Aged(ssi).tx \in Seq(Nat)
    BY <1>8 DEF Controller
  <2>7. ssi'.tx = head
    <3>1. Aged(ssi).tx = <<>>
      BY <2>3, <2>6
    <3>2. \A q \in Seq(Nat) : <<>> \o q = q
      OBVIOUS
    <3>3. QED BY <1>7, <2>5, <3>1, <3>2
  <2>8. Sent' = h /\ Inside' = 0 /\ Answered' = 0
    BY <1>7, <1>9, <2>2, <2>7 DEF Sent
  <2>9. InFlight' = h
    BY <1>2, <2>8 DEF InFlight
  <2>10. InOrder(ssi', 0)
    <3>1. Len(ssi'.mid) = 0 /\ Len(ssi'.rx) = 0
      BY <2>8 DEF Inside, Answered
    <3>2. DOMAIN (ssi'.mid) = {} /\ DOMAIN (ssi'.rx) = {}
      BY <1>9, <3>1 DEF Controller
    <3>3. \A i \in DOMAIN head : head[i] = 0 + 0 + 0 + i
      BY <1>2
    <3>4. QED BY <2>7, <3>1, <3>2, <3>3 DEF InOrder
  <2>11. QED BY <2>1, <2>5, <2>9, <2>10
<1>14. NoneLost'
  BY <1>1, <1>2, <1>13, FifoDepthAssumption, HeadAssumption DEF NoneLost
<1>15. AnswersInStep'
  <2>1. cpu'.skip = h /\ cpu'.get = b /\ Heads[Step] = h /\ Body[Step] = b
    BY <1>3 DEF h, b
  <2>2. h <= h /\ b <= b /\ h + 0 = h
    BY <1>2, SizeModAssumption
  <2>3. QED BY <1>1, <1>5, <1>6, <1>11, <1>13, <2>1, <2>2 DEF AnswersInStep
<1>16. LevelsPessimistic'
  BY <1>9, <1>11 DEF FlashInv, LevelsPessimistic
<1>17. QED BY <1>10, <1>14, <1>15, <1>16 DEF FlashInv

(* A turn of the loop, as it changes the controller. *)
LEMMA MoveController ==
  ASSUME FlashInv, Move
  PROVE  /\ ssi' \in Controller
         /\ Inside' = Inside
         /\ MayGet => /\ Answered > 0 /\ Answered' = Answered - 1
                      /\ ssi.rx[1].bit \in {0, 1}
         /\ ~MayGet => Answered' = Answered
         /\ ~aborted =>
              /\ ~ssi'.lost
              /\ Sent' = IF MayPut THEN Sent + 1 ELSE Sent
              /\ InFlight' <= FifoDepth
              /\ InOrder(ssi', IF MayGet THEN Taken + 1 ELSE Taken)
<1> DEFINE s == Put(ssi)
<1>1. /\ ssi \in Controller /\ cpu \in Cpu /\ cpu.pc = "move" /\ aborted' = aborted
      /\ ssi' = Get(s)
  BY DEF FlashInv, TypeOK, Move
<1>2. InLoop /\ ~Unclean
  BY <1>1 DEF InLoop, Unclean
<1>3. /\ cpu.send \in Nat /\ cpu.skip \in 0..4 /\ cpu.get \in Nat
      /\ cpu.txl \in Nat /\ cpu.rxl \in Nat
  BY <1>1, SizeModAssumption DEF Cpu
<1>4. MayGet => Answered > 0 /\ ssi.rx # <<>>
  <2>1. MayGet => Answered > 0
    BY <1>1, <1>3, Counts DEF FlashInv, LevelsPessimistic, MayGet
  <2>2. Answered > 0 => ssi.rx # <<>>
    BY DEF Answered
  <2>3. QED BY <2>1, <2>2
<1>5. Position \in Nat /\ Position = Pushed + 1
  BY <1>2, <1>3, Counts DEF FlashInv, Position, Pushed
<1>6. ASSUME ~aborted
      PROVE  /\ ~ssi.lost /\ InFlight + Taken = Pushed /\ Taken \in Nat
             /\ Position \in Nat /\ Position = Taken + InFlight + 1
             /\ InOrder(ssi, Taken) /\ InFlight <= FifoDepth
  <2>1. /\ ~ssi.lost /\ InFlight + Taken = Pushed /\ InOrder(ssi, Taken)
        /\ cpu.skip <= Heads[Step] /\ cpu.get <= Body[Step] /\ InFlight <= FifoDepth
    BY <1>2, <1>6 DEF FlashInv, NoneLost, AnswersInStep
  <2>2. Taken \in Nat
    BY <1>2, <1>3, <2>1, Counts, SizeModAssumption DEF FlashInv, Taken
  <2>3. Position \in Nat /\ Position = Taken + InFlight + 1
    BY <1>2, <1>5, <2>1, <2>2, Counts DEF FlashInv
  <2>4. QED BY <2>1, <2>2, <2>3
<1>7. MayPut /\ ~aborted => InFlight + 1 <= FifoDepth /\ Sent + 1 <= FifoDepth
  <2>1. ~aborted => InFlight <= cpu.txl + cpu.rxl + Internal
    BY <1>1 DEF FlashInv, LevelsPessimistic
  <2>2. MayPut => cpu.txl + cpu.rxl < MaxInFlight
    BY DEF MayPut
  <2>3. MayPut /\ ~aborted => InFlight + 1 <= FifoDepth
    BY <1>3, <2>1, <2>2, Counts, FifoDepthAssumption, InternalAssumption, MaxInFlightAssumption
       DEF FlashInv
  <2>4. QED BY <2>3, Counts, FifoDepthAssumption DEF FlashInv, InFlight
<1>8. /\ <<Position>> \in Seq(Nat) /\ Len(<<Position>>) = 1
      /\ \A q \in Seq(Nat) : q \o <<Position>> = Append(q, Position)
  BY <1>5
<1>9. /\ s \in Controller /\ s.mid = ssi.mid /\ s.rx = ssi.rx
      /\ ~aborted => /\ s.lost = ssi.lost
                     /\ s.tx = IF MayPut THEN Append(ssi.tx, Position) ELSE ssi.tx
  <2>1. CASE MayPut
    <3>1. s = Push(ssi, <<Position>>)
      BY <2>1 DEF Put
    <3>2. ssi.tx \in Seq(Nat)
      BY <1>1 DEF Controller
    <3>3. ~aborted => Len(ssi.tx) + Len(<<Position>>) <= FifoDepth
      BY <1>7, <1>8, <2>1 DEF Sent
    <3> DEFINE b == <<Position>>
               p == Push(ssi, b)
    <3>4. b \in Seq(Nat) /\ ssi.tx \o b = Append(ssi.tx, Position)
      BY <1>8, <3>2
    <3> HIDE DEF b
    <3>5. /\ p \in Controller /\ p.mid = ssi.mid /\ p.rx = ssi.rx
          /\ Len(ssi.tx) + Len(b) <= FifoDepth => p.tx = ssi.tx \o b /\ p.lost = ssi.lost
      BY <1>1, <3>4, PushController
    <3>6. s = p /\ (~aborted => Len(ssi.tx) + Len(b) <= FifoDepth)
      BY <3>1, <3>3 DEF b
    <3> HIDE DEF p
    <3>7. QED BY <2>1, <3>4, <3>5, <3>6
  <2>2. CASE ~MayPut
    BY <1>1, <2>2 DEF Put
  <2>3. QED BY <2>1, <2>2
<1> HIDE DEF s
<1>10. s.rx \in Seq(Answer) /\ ssi.tx \in Seq(Nat)
  BY <1>1, <1>9 DEF Controller
<1>11. /\ ssi' \in Controller /\ ssi'.mid = s.mid /\ ssi'.tx = s.tx /\ ssi'.lost = s.lost
       /\ ssi'.rx = IF MayGet THEN Tail(s.rx) ELSE s.rx
  <2>1. CASE MayGet
    <3>1. ssi' = [on |-> s.on, tx |-> s.tx, mid |-> s.mid, rx |-> Tail(s.rx), lost |-> s.lost]
      BY <1>1, <1>9, <2>1 DEF Get, Controller
    <3>2. Tail(s.rx) \in Seq(Answer)
      BY <1>4, <1>9, <1>10, <2>1, TailOf
    <3>3. QED BY <1>9, <2>1, <3>1, <3>2 DEF Controller
  <2>2. CASE ~MayGet
    BY <1>1, <1>9, <2>2 DEF Get
  <2>3. QED BY <2>1, <2>2
<1>12. Inside' = Inside
  BY <1>9, <1>11 DEF Inside
<1>13. /\ MayGet => Answered' = Answered - 1 /\ ssi.rx[1].bit \in {0, 1}
       /\ ~MayGet => Answered' = Answered
  <2>1. CASE MayGet
    <3>1. Len(Tail(s.rx)) = Len(s.rx) - 1 /\ s.rx[1] \in Answer
      BY <1>4, <1>9, <1>10, <2>1, TailOf
    <3>2. QED BY <1>9, <1>11, <2>1, <3>1 DEF Answered, Answer
  <2>2. CASE ~MayGet
    BY <1>9, <1>11, <2>2 DEF Answered
  <2>3. QED BY <2>1, <2>2
<1>14. ASSUME ~aborted
       PROVE  /\ ~ssi'.lost
              /\ Sent' = IF MayPut THEN Sent + 1 ELSE Sent
              /\ InFlight' <= FifoDepth
              /\ InOrder(ssi', IF MayGet THEN Taken + 1 ELSE Taken)
  <2>1. ~ssi'.lost
    BY <1>6, <1>9, <1>11, <1>14
  <2>2. Sent' = IF MayPut THEN Sent + 1 ELSE Sent
    <3>1. Len(Append(ssi.tx, Position)) = Len(ssi.tx) + 1
      BY <1>5, <1>10, AppendTo
    <3>2. CASE MayPut BY <1>9, <1>11, <1>14, <3>1, <3>2 DEF Sent
    <3>3. CASE ~MayPut BY <1>9, <1>11, <1>14, <3>3 DEF Sent
    <3>4. QED BY <3>2, <3>3
  <2>3. InFlight' <= FifoDepth
    <3>0. FifoDepth \in Nat
      BY FifoDepthAssumption
    <3>1. InFlight' = Sent' + Inside' + Answered' /\ InFlight = Sent + Inside + Answered
      BY DEF InFlight
    <3>2. Sent \in Nat /\ Inside \in Nat /\ Answered \in Nat
      BY Counts DEF FlashInv
    <3>3. PICK k \in 0..1 : Answered' = Answered - k
      <4>1. CASE MayGet BY <1>13, <4>1
      <4>2. CASE ~MayGet BY <1>13, <3>2, <4>2
      <4>3. QED BY <4>1, <4>2
    <3>4. CASE MayPut
      <4>1. Sent' = Sent + 1 BY <2>2, <3>4
      <4>2. Sent + Inside + Answered + 1 <= FifoDepth BY <1>7, <1>14, <3>1, <3>4
      <4>3. QED BY <1>12, <3>0, <3>1, <3>2, <3>3, <4>1, <4>2
    <3>5. CASE ~MayPut
      <4>1. Sent' = Sent BY <2>2, <3>5
      <4>2. Sent + Inside + Answered <= FifoDepth BY <1>6, <1>14, <3>1
      <4>3. QED BY <1>12, <3>0, <3>1, <3>2, <3>3, <4>1, <4>2
    <3>6. QED BY <3>4, <3>5
  <2>4. InOrder(s, Taken)
    <3>1. CASE MayPut
      <4>1. Position = Taken + Len(ssi.rx) + Len(ssi.mid) + Len(ssi.tx) + 1
        <5>1. InFlight = Answered + Inside + Sent
          BY Counts DEF FlashInv, InFlight
        <5>2. Position = Taken + Answered + Inside + Sent + 1
          BY <1>6, <1>14, <5>1, Counts DEF FlashInv
        <5>3. QED BY <5>2 DEF Answered, Inside, Sent
      <4>2. s.tx = Append(ssi.tx, Position)
        BY <1>9, <1>14, <3>1
      <4>3. InOrder(ssi, Taken) /\ Taken \in Int
        BY <1>6, <1>14
      <4>4. s \in Controller /\ s.mid = ssi.mid /\ s.rx = ssi.rx
        BY <1>9
      <4>5. QED BY <1>1, <1>5, <4>1, <4>2, <4>3, <4>4, PutOrder
    <3>2. CASE ~MayPut
      BY <1>6, <1>14, <3>2 DEF s, Put
    <3>3. QED BY <3>1, <3>2
  <2>5. InOrder(ssi', IF MayGet THEN Taken + 1 ELSE Taken)
    <3>1. CASE MayGet
      BY <1>4, <1>6, <1>9, <1>11, <1>14, <2>4, <3>1, GetOrder
    <3>2. CASE ~MayGet
      BY <1>11, <2>4, <3>2 DEF InOrder
    <3>3. QED BY <3>1, <3>2
  <2>6. QED BY <2>1, <2>2, <2>3, <2>5
<1>15. QED BY <1>4, <1>11, <1>12, <1>13, <1>14

(* And as it changes what is left to do. *)
LEMMA MoveKeeps ==
  ASSUME FlashInv, Move
  PROVE  FlashInv'
<1> DEFINE send == IF MayPut THEN cpu.send - 1 ELSE cpu.send
           skip == IF MayGet /\ cpu.skip > 0 THEN cpu.skip - 1 ELSE cpu.skip
           get == IF MayGet /\ cpu.skip = 0 THEN Less(cpu.get) ELSE cpu.get
           left == send > 0 \/ skip > 0 \/ get > 0
           pc == IF Breaks \/ ~left THEN "end" ELSE "txlevel"
           stat == IF MayGet /\ cpu.skip = 0 THEN ssi.rx[1].bit ELSE cpu.stat
<1>1. /\ cpu \in Cpu /\ cpu.pc = "move" /\ aborted' = aborted /\ busy' = busy
  BY DEF FlashInv, TypeOK, Move
<1>2. /\ cpu.send \in 0..(SizeMod - 1) /\ cpu.skip \in 0..4 /\ cpu.get \in 0..(SizeMod - 1)
      /\ cpu.stat \in {0, 1}
  BY <1>1 DEF Cpu
<1>3. InLoop /\ ~Unclean
  BY <1>1 DEF InLoop, Unclean
<1>4. /\ Step \in Transfers /\ Heads[Step] \in 0..4 /\ Body[Step] \in 0..(SizeMod - 1)
      /\ cpu.send <= Body[Step]
  BY <1>3, Counts DEF FlashInv
<1>5. /\ send \in 0..(SizeMod - 1) /\ send <= Body[Step]
      /\ MayPut => send = cpu.send - 1
      /\ ~MayPut => send = cpu.send
  BY <1>2, <1>4, SizeModAssumption DEF MayPut
<1>6. skip \in 0..4 /\ get \in 0..(SizeMod - 1)
  BY <1>2, SizeModAssumption DEF Less
<1>7. stat \in {0, 1} /\ pc \in {"end", "txlevel"}
  BY <1>2, MoveController
<1>8. cpu' = [pc |-> pc, kind |-> cpu.kind, sectors |-> cpu.sectors, step |-> cpu.step,
              send |-> send, skip |-> skip, get |-> get, txl |-> 0, rxl |-> 0, stat |-> stat]
  <2>1. cpu' = [cpu EXCEPT !.pc = pc, !.send = send, !.skip = skip, !.get = get,
                           !.stat = stat, !.txl = 0, !.rxl = 0]
    BY Zenon DEF Move
  <2> HIDE DEF pc, send, skip, get, stat
  <2>2. QED BY <1>1, <2>1 DEF Cpu
<1>9. ~aborted => (pc = "end" => send = 0 /\ skip = 0 /\ get = 0)
  <2>1. ~aborted => ~Breaks BY DEF Breaks
  <2>2. ~left => send = 0 /\ skip = 0 /\ get = 0
    <3> HIDE DEF send, skip, get
    <3>1. QED BY <1>5, <1>6, SizeModAssumption
  <2> HIDE DEF left
  <2>3. QED BY <2>1, <2>2
<1>10. Step' = Step /\ InLoop' /\ ~Unclean'
  BY <1>7, <1>8 DEF Step, InLoop, Unclean
<1>11. /\ Pushed' = Heads[Step] + Body[Step] - send
       /\ Taken' = Heads[Step] + Body[Step] - skip - get
  BY <1>8, <1>10 DEF Pushed, Taken
<1>12. TypeOK'
  <2>1. cpu' \in Cpu
    <3>1. pc \in {"idle", "next", "txlevel", "rxlevel", "move", "end"} BY <1>7
    <3> HIDE DEF pc, send, skip, get, stat
    <3>2. QED BY <1>1, <1>5, <1>6, <1>7, <1>8, <3>1 DEF Cpu
  <2>2. cpu'.send <= Body[Step]' /\ cpu'.step = cpu.step /\ cpu'.kind = cpu.kind
    <3> HIDE DEF pc, send, skip, get, stat
    <3>1. QED BY <1>5, <1>8, <1>10
  <2>3. QED BY <1>1, <1>4, <1>10, <2>1, <2>2, MoveController DEF FlashInv, TypeOK
<1>13. ASSUME ~aborted
       PROVE  /\ skip <= Heads[Step] /\ get <= Body[Step]
              /\ MayGet => Taken' = Taken + 1
              /\ ~MayGet => Taken' = Taken
  <2>1. /\ cpu.skip <= Heads[Step] /\ cpu.get <= Body[Step]
        /\ InFlight + Taken = Pushed
    BY <1>3, <1>13 DEF FlashInv, AnswersInStep
  <2>2. MayGet => cpu.skip + cpu.get > 0
    <3>1. MayGet => InFlight > 0
      BY Counts, MoveController DEF FlashInv, InFlight
    <3>2. Taken = Heads[Step] + Body[Step] - cpu.skip - cpu.get
          /\ Pushed = Heads[Step] + Body[Step] - cpu.send
      BY DEF Taken, Pushed
    <3>3. QED BY <1>2, <1>4, <2>1, <3>1, <3>2, Counts, SizeModAssumption DEF FlashInv
  <2>3. MayGet => skip + get = cpu.skip + cpu.get - 1 /\ skip <= cpu.skip /\ get <= cpu.get
    BY <1>2, <2>2, SizeModAssumption DEF Less
  <2>4. ~MayGet => skip = cpu.skip /\ get = cpu.get
    OBVIOUS
  <2>5. Taken = Heads[Step] + Body[Step] - cpu.skip - cpu.get
    BY DEF Taken
  <2> HIDE DEF pc, send, skip, get, stat
  <2>6. CASE MayGet
    BY <1>2, <1>4, <1>6, <1>11, <2>1, <2>3, <2>5, <2>6, SizeModAssumption
  <2>7. CASE ~MayGet
    BY <1>2, <1>4, <1>6, <1>11, <2>1, <2>4, <2>5, <2>7, SizeModAssumption
  <2>8. QED BY <2>6, <2>7
<1> HIDE DEF pc, send, skip, get, stat
<1>14. ASSUME ~aborted
       PROVE  InFlight' + Taken' = Pushed'
  <2>1. InFlight + Taken = Pushed
    BY <1>3, <1>14 DEF FlashInv, AnswersInStep
  <2>2. Pushed = Heads[Step] + Body[Step] - cpu.send
    BY DEF Pushed
  <2>3. PICK p \in 0..1 : Sent' = Sent + p /\ Pushed' = Pushed + p
    <3>1. CASE MayPut
      <4>1. Sent' = Sent + 1 BY <1>14, <3>1, MoveController
      <4>2. Pushed' = Pushed + 1
        BY <1>2, <1>4, <1>5, <1>11, <2>2, <3>1, SizeModAssumption
      <4>3. QED BY <4>1, <4>2
    <3>2. CASE ~MayPut
      <4>1. Sent' = Sent + 0 BY <1>14, <3>2, MoveController, Counts DEF FlashInv
      <4>2. Pushed' = Pushed + 0
        BY <1>2, <1>4, <1>5, <1>11, <2>2, <3>2, SizeModAssumption
      <4>3. QED BY <4>1, <4>2
    <3>3. QED BY <3>1, <3>2
  <2>4. PICK g \in 0..1 : Answered' = Answered - g /\ Taken' = Taken + g
    <3>1. CASE MayGet BY <1>13, <1>14, <3>1, MoveController
    <3>2. CASE ~MayGet
      <4>1. Answered' = Answered - 0 /\ Taken' = Taken + 0
        BY <1>3, <1>13, <1>14, <3>2, MoveController, Counts DEF FlashInv
      <4>2. QED BY <4>1
    <3>3. QED BY <3>1, <3>2
  <2>5. Inside' = Inside
    BY MoveController
  <2>6. InFlight' = Sent + p + Inside + (Answered - g)
    BY <2>3, <2>4, <2>5 DEF InFlight
  <2>7. QED BY <1>3, <2>1, <2>3, <2>4, <2>6, Counts DEF FlashInv, InFlight
<1>15. AnswersInStep'
  <2>1. ASSUME ~aborted
        PROVE  InOrder(ssi', Taken')
    BY <1>13, <2>1, MoveController
  <2>2. ASSUME ~aborted, cpu'.pc = "end"
        PROVE  InFlight' = 0
    <3>1. pc = "end" BY <1>8, <2>2
    <3>2. send = 0 /\ skip = 0 /\ get = 0 BY <1>9, <2>2, <3>1
    <3>3. Pushed' = Heads[Step] + Body[Step] /\ Taken' = Heads[Step] + Body[Step]
      BY <1>4, <1>11, <3>2, SizeModAssumption
    <3>4. InFlight' \in Int
      <4>1. Sent' \in Nat /\ Inside' \in Nat /\ Answered' \in Nat
        BY MoveController DEF Controller, Sent, Inside, Answered
      <4>2. QED BY <4>1 DEF InFlight
    <3>5. QED BY <1>4, <1>14, <2>2, <3>3, <3>4, SizeModAssumption
  <2>3. cpu'.skip = skip /\ cpu'.get = get
    BY <1>8
  <2>4. QED BY <1>1, <1>10, <1>13, <1>14, <2>1, <2>2, <2>3 DEF AnswersInStep
<1>16. NoneLost'
  BY <1>1, MoveController DEF NoneLost
<1>17. LevelsPessimistic'
  BY <1>7, <1>8, MoveController DEF FlashInv, LevelsPessimistic
<1>18. QED BY <1>12, <1>15, <1>16, <1>17 DEF FlashInv

-----------------------------------------------------------------------------
(* The invariant holds in every state: the transfer loop keeps its answers in
   step with its bytes and overflows no FIFO. *)
THEOREM FlashInvariant == Spec => []FlashInv
<1>1. Init => FlashInv
  BY FlashInit
<1>2. FlashInv /\ [Next]_vars => FlashInv'
  <2> SUFFICES ASSUME FlashInv, [Next]_vars PROVE FlashInv'
    OBVIOUS
  <2>1. CASE \E k \in Kinds, n \in 1..MaxSectors : Start(k, n)
    BY <2>1, StartKeeps
  <2>2. CASE Connect BY <2>2, ConnectKeeps
  <2>3. CASE InitSpi BY <2>3, InitSpiKeeps
  <2>4. CASE PutHead BY <2>4, PutHeadKeeps
  <2>5. CASE ReadTxLevel BY <2>5, ReadTxLevelKeeps
  <2>6. CASE ReadRxLevel BY <2>6, ReadRxLevelKeeps
  <2>7. CASE Move BY <2>7, MoveKeeps
  <2>8. CASE EndTransfer BY <2>8, EndTransferKeeps
  <2>9. CASE Clock BY <2>9, ClockKeeps
  <2>10. CASE Reply BY <2>10, ReplyKeeps
  <2>11. CASE Ready BY <2>11, ReadyKeeps
  <2>12. CASE Abort BY <2>12, AbortKeeps
  <2>13. CASE UNCHANGED vars
    BY <2>13 DEF vars, FlashInv, TypeOK, NoneLost, AnswersInStep, LevelsPessimistic, Step,
                 InFlight, Sent, Inside, Answered, InLoop, Unclean, Pushed, Taken
  <2>14. QED
    BY <2>1, <2>2, <2>3, <2>4, <2>5, <2>6, <2>7, <2>8, <2>9, <2>10, <2>11, <2>12, <2>13
       DEF Next, Worker, Ssi
<1>3. QED BY <1>1, <1>2, PTL DEF Spec

(* However long the loop is interrupted, no byte and no answer is lost, and
   a byte is pushed only if there is room for its answer before another one
   is taken: the levels were read pessimistically, and leave room for what is
   inside the controller. *)
THEOREM NothingLost == Spec => []NoOverflow
<1>1. FlashInv => NoOverflow
  <2> SUFFICES ASSUME FlashInv, ~aborted, cpu.pc = "move", MayPut
               PROVE  InFlight < FifoDepth
    BY DEF FlashInv, NoneLost, NoOverflow
  <2> DEFINE l == cpu.txl + cpu.rxl
  <2>1. l \in Nat /\ InFlight \in Nat
    BY DEF FlashInv, TypeOK, Cpu, Controller, InFlight, Sent, Inside, Answered
  <2>2. InFlight <= l + Internal
    BY DEF FlashInv, LevelsPessimistic
  <2>3. l < MaxInFlight
    BY DEF MayPut
  <2> HIDE DEF l
  <2>4. QED
    BY <2>1, <2>2, <2>3, MaxInFlightAssumption, InternalAssumption, FifoDepthAssumption
<1>2. QED BY <1>1, FlashInvariant, PTL

-----------------------------------------------------------------------------
(* What makes the status that ends flash_wait_ready a fresh one: in that
   transfer an answer without the busy bit was given by a flash that is ready,
   whether it has been taken or not; the transfer does not end before its
   answer has been taken; and the flash starts nothing in between. *)
StatusFresh ==
  ~aborted =>
    /\ InLoop /\ Step = "status" =>
         /\ \A i \in 1..Len(ssi.rx) : ssi.rx[i].bit = 0 => busy = 0
         /\ cpu.get = 0 /\ cpu.stat = 0 => busy = 0
    /\ cpu.pc = "end" => cpu.get = 0

(* The steps that change neither the flash nor the answers. *)
LEMMA QuietKeepsFresh ==
  ASSUME StatusFresh, EndsReady, InLoop' = InLoop, Step' = Step, ssi'.rx = ssi.rx,
         busy' = busy, aborted' \/ ~aborted, cpu'.get = cpu.get, cpu'.stat = cpu.stat,
         cpu'.kind = cpu.kind, cpu'.pc = "end" <=> cpu.pc = "end",
         cpu'.pc = "idle" <=> cpu.pc = "idle"
  PROVE  StatusFresh' /\ EndsReady'
BY DEF StatusFresh, EndsReady

LEMMA ReplyKeepsFresh ==
  ASSUME FlashInv, StatusFresh, EndsReady, Reply
  PROVE  StatusFresh' /\ EndsReady'
<1> DEFINE a == [pos |-> Head(ssi.mid), bit |-> IF aborted THEN 0 ELSE busy]
<1>1. /\ cpu' = cpu /\ busy' = busy /\ aborted' = aborted /\ ssi.mid # <<>>
      /\ ssi.rx \in Seq(Answer) /\ ssi.mid \in Seq(Nat) /\ ssi \in Controller
      /\ busy \in {0, 1}
  BY DEF FlashInv, TypeOK, Controller, Reply
<1>2. a \in Answer
  BY <1>1, TailOf DEF Answer
<1>3. ssi'.rx = ssi.rx \/ ssi'.rx = Append(ssi.rx, a)
  BY <1>1 DEF Reply, Controller
<1>4. ~aborted => a.bit = busy
  OBVIOUS
<1> HIDE DEF a
<1>5. InLoop' = InLoop /\ Step' = Step
  BY <1>1 DEF InLoop, Step
<1>6. ASSUME ~aborted, InLoop, Step = "status"
      PROVE  \A i \in 1..Len(ssi'.rx) : ssi'.rx[i].bit = 0 => busy = 0
  <2>1. \A i \in 1..Len(ssi.rx) : ssi.rx[i].bit = 0 => busy = 0
    BY <1>6 DEF StatusFresh
  <2>2. CASE ssi'.rx = Append(ssi.rx, a)
    <3>1. /\ Len(ssi.rx) \in Nat /\ Len(ssi'.rx) = Len(ssi.rx) + 1
          /\ \A i \in 1..Len(ssi.rx) : ssi'.rx[i] = ssi.rx[i]
          /\ ssi'.rx[Len(ssi.rx) + 1] = a
      BY <1>1, <1>2, <2>2, AppendTo
    <3>2. \A i \in 1..Len(ssi'.rx) : i \in 1..Len(ssi.rx) \/ i = Len(ssi.rx) + 1
      BY <3>1
    <3>3. QED BY <1>4, <1>6, <2>1, <3>1, <3>2
  <2>3. QED BY <1>3, <2>1, <2>2
<1>7. QED BY <1>1, <1>5, <1>6 DEF StatusFresh, EndsReady

LEMMA ReadyKeepsFresh ==
  ASSUME StatusFresh, Ready
  PROVE  StatusFresh' /\ EndsReady'
BY DEF StatusFresh, EndsReady, Ready, InLoop, Step

(* Without an abort, a transfer starts with an empty FIFO and no answer taken. *)
LEMMA PutHeadKeepsFresh ==
  ASSUME FlashInv, FlashInv', PutHead
  PROVE  StatusFresh' /\ EndsReady'
<1>1. /\ cpu \in Cpu /\ ssi \in Controller /\ cpu.pc = "next" /\ aborted' = aborted
  BY DEF FlashInv, TypeOK, PutHead
<1>2. /\ cpu'.pc = "txlevel" /\ cpu'.get = Body[Step] /\ cpu'.step = cpu.step
      /\ cpu'.kind = cpu.kind
  BY <1>1 DEF PutHead, Cpu
<1>3. Step' = Step
  BY <1>2 DEF Step
<1>4. Step = "status" => cpu'.get = 1
  BY <1>2 DEF Body
<1>5. ~aborted => Len(ssi'.rx) = 0
  <2>1. ssi'.rx = Aged(ssi).rx
    <3>1. [i \in 1..Heads[Step] |-> i] \in Seq(Nat)
      <4>1. Heads[Step] \in 0..4
        BY TransferSizes DEF PutHead
      <4>2. QED BY <4>1
    <3>2. QED BY <1>1, <3>1, AgedController, PushController DEF PutHead
  <2>2. Len(ssi'.rx) = Answered
    BY <1>1, <2>1, AgedController DEF Answered
  <2>3. ~aborted => InFlight = 0
    BY <1>1 DEF FlashInv, AnswersInStep, InLoop, Unclean, PutHead
  <2>4. QED BY <2>2, <2>3, Counts DEF FlashInv, InFlight
<1>6. QED BY <1>1, <1>2, <1>3, <1>4, <1>5 DEF StatusFresh, EndsReady

LEMMA MoveKeepsFresh ==
  ASSUME FlashInv, FlashInv', StatusFresh, Move
  PROVE  StatusFresh' /\ EndsReady'
<1> DEFINE get == IF MayGet /\ cpu.skip = 0 THEN Less(cpu.get) ELSE cpu.get
           stat == IF MayGet /\ cpu.skip = 0 THEN ssi.rx[1].bit ELSE cpu.stat
<1>1. /\ cpu \in Cpu /\ ssi \in Controller /\ cpu.pc = "move" /\ aborted' = aborted
      /\ busy' = busy /\ ssi.rx \in Seq(Answer)
  BY DEF FlashInv, TypeOK, Controller, Move
<1>2. /\ cpu'.pc \in {"end", "txlevel"} /\ cpu'.get = get /\ cpu'.stat = stat
      /\ cpu'.step = cpu.step /\ cpu'.kind = cpu.kind
  BY <1>1 DEF Move, Cpu
<1>3. ~aborted /\ cpu'.pc = "end" => ~(get > 0)
  BY <1>1 DEF Move, Cpu, Breaks
<1>4. cpu'.get \in Nat
  BY SizeModAssumption DEF FlashInv, TypeOK, Cpu
<1>5. InLoop /\ InLoop' /\ Step' = Step
  BY <1>1, <1>2 DEF InLoop, Step
<1>6. ~aborted /\ cpu'.pc = "end" => cpu'.get = 0
  BY <1>2, <1>3, <1>4
<1>7. ASSUME ~aborted, Step = "status"
      PROVE  /\ \A i \in 1..Len(ssi'.rx) : ssi'.rx[i].bit = 0 => busy = 0
             /\ cpu'.get = 0 /\ cpu'.stat = 0 => busy = 0
  <2>1. \A i \in 1..Len(ssi.rx) : ssi.rx[i].bit = 0 => busy = 0
    BY <1>5, <1>7 DEF StatusFresh
  <2>2. Put(ssi) \in Controller /\ Put(ssi).rx = ssi.rx
    <3>1. cpu.send \in 0..(SizeMod - 1)
      BY <1>1 DEF Cpu
    <3>2. /\ Heads[Step] \in 0..4 /\ Body[Step] \in 0..(SizeMod - 1)
          /\ cpu.send <= Body[Step]
      BY <1>5, Counts DEF FlashInv
    <3>3. Position \in Nat
      BY <3>1, <3>2, SizeModAssumption DEF Position
    <3>4. <<Position>> \in Seq(Nat)
      BY <3>3
    <3>5. QED BY <1>1, <3>4, PushController DEF Put
  <2>3. CASE MayGet
    <3>1. ssi.rx # <<>> /\ Len(ssi.rx) > 0
      BY <1>1, <2>3, MoveController DEF Answered
    <3>2. ssi'.rx = Tail(ssi.rx)
      <4>1. ssi' = [Put(ssi) EXCEPT !.rx = Tail(Put(ssi).rx)]
        BY <2>3 DEF Move, Get
      <4>2. QED BY <2>2, <4>1 DEF Controller
    <3>3. \A i \in 1..Len(ssi'.rx) : ssi'.rx[i] = ssi.rx[i + 1] /\ i + 1 \in 1..Len(ssi.rx)
      BY <1>1, <3>1, <3>2, TailOf
    <3>4. stat = 0 => busy = 0 \/ (get = cpu.get /\ stat = cpu.stat)
      BY <2>1, <2>3, <3>1
    <3>5. QED BY <1>2, <1>5, <1>7, <2>1, <3>3, <3>4 DEF StatusFresh
  <2>4. CASE ~MayGet
    <3>1. ssi'.rx = ssi.rx
      BY <2>2, <2>4 DEF Move, Get
    <3>2. get = cpu.get /\ stat = cpu.stat
      BY <2>4
    <3>3. QED BY <1>2, <1>5, <1>7, <2>1, <3>1, <3>2 DEF StatusFresh
  <2>5. QED BY <2>3, <2>4
<1>8. QED BY <1>1, <1>2, <1>5, <1>6, <1>7 DEF StatusFresh, EndsReady

(* Only a status without the busy bit, or an abort, ends a task that changes
   the flash. *)
LEMMA EndTransferKeepsFresh ==
  ASSUME FlashInv, FlashInv', StatusFresh, EndTransfer
  PROVE  StatusFresh' /\ EndsReady'
<1>1. /\ cpu \in Cpu /\ cpu.pc = "end" /\ aborted' = aborted
  BY DEF FlashInv, TypeOK, EndTransfer
<1>2. cpu'.pc \in {"next", "idle"}
  <2>1. \/ cpu' = [cpu EXCEPT !.pc = "next"]
        \/ cpu' = [cpu EXCEPT !.pc = "next", !.step = @ + 1]
        \/ cpu' = [cpu EXCEPT !.pc = "next", !.step = 1, !.sectors = @ - 1]
        \/ cpu' = [cpu EXCEPT !.pc = "idle", !.sectors = 0]
    BY Zenon DEF EndTransfer
  <2>2. QED BY <1>1, <2>1 DEF Cpu
<1>3. StatusFresh'
  BY <1>2 DEF StatusFresh, InLoop
<1>4. ASSUME cpu'.pc = "idle", cpu'.kind \in {"program", "erase"}, ~aborted
      PROVE  busy' = 0
  <2>1. ~Stays /\ cpu.step = Len(Steps[cpu.kind]) /\ cpu'.kind = cpu.kind
    <3>1. \/ cpu' = [cpu EXCEPT !.pc = "next"]
          \/ cpu' = [cpu EXCEPT !.pc = "next", !.step = @ + 1]
          \/ cpu' = [cpu EXCEPT !.pc = "next", !.step = 1, !.sectors = @ - 1]
          \/ /\ ~Stays /\ cpu.step = Len(Steps[cpu.kind])
             /\ cpu' = [cpu EXCEPT !.pc = "idle", !.sectors = 0]
      BY Zenon DEF EndTransfer
    <3>2. QED BY <1>1, <1>4, <3>1 DEF Cpu
  <2>2. Step = "status"
    BY <1>4, <2>1 DEF Step, Steps, Kinds
  <2>3. busy' = busy
    BY <2>2 DEF EndTransfer
  <2>4. cpu.stat = 0
    <3>1. cpu.stat \in {0, 1}
      BY <1>1 DEF Cpu
    <3>2. QED BY <1>4, <2>1, <2>2, <3>1 DEF Stays
  <2>5. QED BY <1>1, <1>4, <2>2, <2>3, <2>4 DEF StatusFresh, InLoop
<1>5. QED BY <1>1, <1>3, <1>4 DEF EndsReady

(* The steps outside a transfer. *)
LEMMA OutsideKeepsFresh ==
  ASSUME FlashInv,
         Connect \/ InitSpi \/ (\E k \in Kinds, n \in 1..MaxSectors : Start(k, n))
  PROVE  StatusFresh' /\ EndsReady'
<1>1. cpu \in Cpu
  BY DEF FlashInv, TypeOK
<1>2. cpu'.pc = "next"
  BY <1>1 DEF Connect, InitSpi, Start, Cpu
<1>3. QED BY <1>2 DEF StatusFresh, EndsReady, InLoop

(* A program or an erase that was not aborted ends with the flash ready: the
   status that ends the wait was read after the command. *)
THEOREM TasksEndReady == Spec => []EndsReady
<1> DEFINE Fresh == StatusFresh /\ EndsReady
<1>1. Init => Fresh
  BY DEF Init, StatusFresh, EndsReady, InLoop
<1>2. FlashInv /\ FlashInv' /\ Fresh /\ [Next]_vars => Fresh'
  <2> SUFFICES ASSUME FlashInv, FlashInv', StatusFresh, EndsReady, [Next]_vars
               PROVE  StatusFresh' /\ EndsReady'
    OBVIOUS
  <2>1. CASE Connect \/ InitSpi \/ (\E k \in Kinds, n \in 1..MaxSectors : Start(k, n))
    BY <2>1, OutsideKeepsFresh
  <2>2. CASE PutHead BY <2>2, PutHeadKeepsFresh
  <2>3. CASE ReadTxLevel \/ ReadRxLevel
    <3>1. /\ cpu.pc \in {"txlevel", "rxlevel"} /\ cpu'.pc \in {"rxlevel", "move"}
          /\ cpu'.get = cpu.get /\ cpu'.stat = cpu.stat /\ cpu'.kind = cpu.kind
          /\ cpu'.step = cpu.step /\ ssi' = ssi /\ busy' = busy /\ aborted' = aborted
      BY <2>3 DEF FlashInv, TypeOK, Cpu, ReadTxLevel, ReadRxLevel
    <3>2. QED BY <3>1, QuietKeepsFresh DEF InLoop, Step
  <2>4. CASE Move BY <2>4, MoveKeepsFresh
  <2>5. CASE EndTransfer BY <2>5, EndTransferKeepsFresh
  <2>6. CASE Clock
    <3>1. ssi'.rx = ssi.rx /\ cpu' = cpu /\ busy' = busy /\ aborted' = aborted
      BY <2>6 DEF FlashInv, TypeOK, Controller, Clock
    <3>2. QED BY <3>1, QuietKeepsFresh DEF InLoop, Step
  <2>7. CASE Reply BY <2>7, ReplyKeepsFresh
  <2>8. CASE Ready BY <2>8, ReadyKeepsFresh
  <2>9. CASE Abort
    BY <2>9 DEF Abort, StatusFresh, EndsReady
  <2>10. CASE UNCHANGED vars
    <3>1. ssi' = ssi /\ cpu' = cpu /\ busy' = busy /\ aborted' = aborted
      BY <2>10 DEF vars
    <3>2. QED BY <3>1, QuietKeepsFresh DEF InLoop, Step
  <2>11. QED
    BY <2>1, <2>2, <2>3, <2>4, <2>5, <2>6, <2>7, <2>8, <2>9, <2>10 DEF Next, Worker, Ssi
<1>3. QED
  <2> HIDE DEF Fresh
  <2>1. Fresh => EndsReady BY DEF Fresh
  <2>2. QED BY <1>1, <1>2, <2>1, FlashInvariant, PTL DEF Spec
=============================================================================
