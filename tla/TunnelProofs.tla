---------------------------- MODULE TunnelProofs ----------------------------
(***************************************************************************)
(* For any number of chunks and any window: what is delivered is a prefix  *)
(* of what was written, and nothing is lost before something is closed.    *)
(* Each direction is a pipeline of five places; every place holds          *)
(* consecutive numbers, and the places follow each other.                  *)
(***************************************************************************)
EXTENDS Tunnel, SequenceTheorems, TLAPS

LEMMA OtherSide ==
  ASSUME NEW side \in Sides
  PROVE  Other(side) \in Sides /\ Other(side) # side /\ Other(Other(side)) = side
BY DEF Other, Sides

-----------------------------------------------------------------------------
(***************************************************************************)
(* Sequences of consecutive numbers.                                       *)
(***************************************************************************)
Run(a, q) == q \in Seq(Nat) /\ \A i \in 1 .. Len(q) : q[i] = a + i

LEMMA RunEmpty == \A a \in Int : Run(a, <<>>) /\ Len(<<>>) = 0
BY DEF Run

LEMMA RunAppend ==
  ASSUME NEW a \in Int, NEW q, Run(a, q), NEW x \in Nat, x = a + Len(q) + 1
  PROVE  Run(a, Append(q, x)) /\ Len(Append(q, x)) = Len(q) + 1
<1>1. q \in Seq(Nat) /\ Len(q) \in Nat
  BY DEF Run
<1>2. Append(q, x) \in Seq(Nat) /\ Len(Append(q, x)) = Len(q) + 1
  BY <1>1
<1>3. ASSUME NEW i \in 1 .. Len(q) + 1
      PROVE  Append(q, x)[i] = a + i
  <2>1. CASE i = Len(q) + 1
    BY <1>1, <2>1
  <2>2. CASE i # Len(q) + 1
    BY <1>1, <2>2 DEF Run
  <2>3. QED
    BY <2>1, <2>2
<1>4. QED
  BY <1>2, <1>3 DEF Run

LEMMA RunTail ==
  ASSUME NEW a \in Int, NEW q, Run(a, q), q # <<>>
  PROVE  /\ Head(q) = a + 1 /\ Head(q) \in Nat
         /\ Run(a + 1, Tail(q))
         /\ Len(Tail(q)) = Len(q) - 1
         /\ Len(q) \in Nat \ {0}
<1>1. q \in Seq(Nat) /\ Len(q) \in Nat \ {0}
  BY EmptySeq DEF Run
<1>2. Head(q) = q[1] /\ Head(q) \in Nat
  BY <1>1
<1>3. Tail(q) \in Seq(Nat) /\ Len(Tail(q)) = Len(q) - 1
  BY <1>1
<1>4. \A i \in 1 .. Len(q) - 1 : Tail(q)[i] = q[i + 1]
  BY <1>1
<1>5. \A i \in 1 .. Len(q) - 1 : Tail(q)[i] = a + 1 + i
  BY <1>1, <1>4 DEF Run
<1>6. QED
  BY <1>1, <1>2, <1>3, <1>5 DEF Run

\* Two runs, the second from where the first one ends.
LEMMA RunConcat ==
  ASSUME NEW a \in Int, NEW q, NEW r, Run(a, q), Run(a + Len(q), r)
  PROVE  Run(a, q \o r) /\ Len(q \o r) = Len(q) + Len(r)
<1>1. q \in Seq(Nat) /\ r \in Seq(Nat) /\ Len(q) \in Nat /\ Len(r) \in Nat
  BY DEF Run
<1>2. /\ q \o r \in Seq(Nat)
      /\ Len(q \o r) = Len(q) + Len(r)
      /\ \A i \in 1 .. Len(q) + Len(r) :
           (q \o r)[i] = IF i <= Len(q) THEN q[i] ELSE r[i - Len(q)]
  BY <1>1, ConcatProperties
<1>3. ASSUME NEW i \in 1 .. Len(q) + Len(r)
      PROVE  (q \o r)[i] = a + i
  <2>1. CASE i <= Len(q)
    BY <1>1, <1>2, <2>1 DEF Run
  <2>2. CASE i > Len(q)
    <3>1. i - Len(q) \in 1 .. Len(r)
      BY <1>1, <2>2
    <3>2. r[i - Len(q)] = a + Len(q) + (i - Len(q))
      BY <3>1 DEF Run
    <3>3. QED
      BY <1>1, <1>2, <2>2, <3>2
  <2>3. QED
    BY <1>1, <2>1, <2>2
<1>4. QED
  BY <1>2, <1>3 DEF Run

\* A run from the first number on is FirstChunks.
LEMMA RunIsFirst ==
  ASSUME NEW q, Run(0, q)
  PROVE  q = FirstChunks(Len(q))
<1>1. q \in [1 .. Len(q) -> Nat]
  BY LenProperties DEF Run
<1>2. QED
  BY <1>1 DEF Run, FirstChunks

\* The numbers of a run that stays within a bound are chunks.
LEMMA RunWithin ==
  ASSUME NEW a \in Nat, NEW n \in Nat, NEW q, Run(a, q), a + Len(q) <= n
  PROVE  q \in Seq(1 .. n)
<1>1. Len(q) \in Nat /\ q \in [1 .. Len(q) -> Nat]
  BY LenProperties DEF Run
<1>2. \A i \in 1 .. Len(q) : q[i] \in 1 .. n
  BY <1>1 DEF Run
<1>3. q \in [1 .. Len(q) -> 1 .. n]
  BY <1>1, <1>2
<1>4. QED
  BY <1>1, <1>3, SeqDef

-----------------------------------------------------------------------------
(***************************************************************************)
(* Types, as far as they can be seen without the pipeline.                 *)
(***************************************************************************)
Shape ==
  /\ sent \in [Sides -> Nat]
  /\ \A side \in Sides : sent[side] <= MaxChunks[side]
  /\ endpoint \in [Sides -> {"open", "shut", "closed"}]
  /\ stalled \in [Sides -> BOOLEAN]
  /\ received \in [Sides -> Seq(Nat)]
  /\ tcpIn \in [Sides -> Seq(Nat)]
  /\ frames \in [Sides -> Seq(Nat)]
  /\ pc \in [Sides -> [Loops -> {"read", "write", "done"}]]
  /\ held \in [Sides -> [Loops -> Nat]]
  /\ tcp \in [Sides -> BOOLEAN]
  /\ ws \in [Sides -> BOOLEAN]

LEMMA ShapeInit == Init => Shape
<1> SUFFICES ASSUME Init PROVE Shape
  OBVIOUS
<1>1. \A side \in Sides : MaxChunks[side] \in Nat
  BY BoundAssumption
<1>2. QED
  BY <1>1 DEF Init, Shape, Sides, Loops

\* What Step and Hold do to the two-level functions.
LEMMA StepEffect ==
  ASSUME Shape, NEW side \in Sides, NEW loop \in Loops,
         NEW label \in {"read", "write", "done"}, Step(side, loop, label)
  PROVE  /\ pc' \in [Sides -> [Loops -> {"read", "write", "done"}]]
         /\ \A s \in Sides, l \in Loops :
              pc'[s][l] = IF s = side /\ l = loop THEN label ELSE pc[s][l]
<1>1. [pc[side] EXCEPT ![loop] = label] \in [Loops -> {"read", "write", "done"}]
  BY DEF Shape
<1>2. pc' = [pc EXCEPT ![side] = [pc[side] EXCEPT ![loop] = label]]
  BY DEF Step
<1>3. QED
  BY <1>1, <1>2 DEF Shape

LEMMA HoldEffect ==
  ASSUME Shape, NEW side \in Sides, NEW loop \in Loops, NEW chunk \in Nat,
         Hold(side, loop, chunk)
  PROVE  /\ held' \in [Sides -> [Loops -> Nat]]
         /\ \A s \in Sides, l \in Loops :
              held'[s][l] = IF s = side /\ l = loop THEN chunk ELSE held[s][l]
<1>1. [held[side] EXCEPT ![loop] = chunk] \in [Loops -> Nat]
  BY DEF Shape
<1>2. held' = [held EXCEPT ![side] = [held[side] EXCEPT ![loop] = chunk]]
  BY DEF Hold
<1>3. QED
  BY <1>1, <1>2 DEF Shape

LEMMA EndEffect ==
  ASSUME Shape, NEW side \in Sides, NEW loop \in Loops, End(side, loop)
  PROVE  /\ Step(side, loop, "done")
         /\ tcp' \in [Sides -> BOOLEAN] /\ ws' \in [Sides -> BOOLEAN]
         /\ ~tcp'[side] /\ ~ws'[side]
         /\ \A s \in Sides : (tcp'[s] => tcp[s]) /\ (ws'[s] => ws[s])
BY DEF End, Shape

LEMMA ShapeStep ==
  ASSUME Shape, [Next]_vars
  PROVE  Shape'
<1>1. \A side \in Sides : MaxChunks[side] \in Nat
  BY BoundAssumption
<1> USE DEF Shape, data, ends
<1>2. CASE UNCHANGED vars
  BY <1>2 DEF vars
<1>3. ASSUME NEW side \in Sides, Write(side)
      PROVE  Shape'
  <2>1. sent' \in [Sides -> Nat] /\ \A s \in Sides : sent'[s] <= MaxChunks[s]
    BY <1>1, <1>3 DEF Write
  <2>2. Append(tcpIn[side], sent[side] + 1) \in Seq(Nat)
    OBVIOUS
  <2>3. tcpIn' \in [Sides -> Seq(Nat)]
    BY <1>3, <2>2 DEF Write
  <2>4. QED
    BY <1>3, <2>1, <2>3 DEF Write
<1>4. ASSUME NEW side \in Sides, Shut(side) \/ Close(side) \/ Stall(side)
      PROVE  Shape'
  BY <1>4 DEF Shut, Close, Stall
<1>5. \A side \in Sides : "out" \in Loops /\ "in" \in Loops
  BY DEF Loops
<1>6. ASSUME NEW side \in Sides, NEW loop \in Loops, End(side, loop),
             UNCHANGED <<ends, data>>
      PROVE  Shape'
  BY <1>6, EndEffect, StepEffect
<1>7. ASSUME NEW side \in Sides, ReadTCP(side)
      PROVE  Shape'
  <2>1. CASE tcpIn[side] # <<>> /\ Hold(side, "out", Head(tcpIn[side]))
             /\ tcpIn' = [tcpIn EXCEPT ![side] = Tail(@)] /\ Step(side, "out", "write")
             /\ UNCHANGED <<tcp, ws>>
    <3>1. Head(tcpIn[side]) \in Nat /\ Tail(tcpIn[side]) \in Seq(Nat)
      BY <2>1
    <3>2. tcpIn' \in [Sides -> Seq(Nat)]
      BY <2>1, <3>1
    <3>3. held' \in [Sides -> [Loops -> Nat]]
      BY <1>5, <2>1, <3>1, HoldEffect
    <3>4. pc' \in [Sides -> [Loops -> {"read", "write", "done"}]]
      BY <1>5, <2>1, StepEffect
    <3>5. QED
      BY <1>7, <2>1, <3>2, <3>3, <3>4 DEF ReadTCP
  <2>2. CASE End(side, "out") /\ UNCHANGED <<held, tcpIn>>
    BY <1>5, <1>6, <1>7, <2>2 DEF ReadTCP
  <2>3. QED
    BY <1>7, <2>1, <2>2 DEF ReadTCP
<1>8. ASSUME NEW side \in Sides, WriteFrame(side)
      PROVE  Shape'
  <2>1. CASE frames' = [frames EXCEPT ![side] = Append(@, held[side]["out"])]
             /\ Hold(side, "out", 0) /\ Step(side, "out", "read") /\ UNCHANGED <<tcp, ws>>
    <3>1. Append(frames[side], held[side]["out"]) \in Seq(Nat)
      BY <1>5
    <3>2. frames' \in [Sides -> Seq(Nat)]
      BY <2>1, <3>1
    <3>3. held' \in [Sides -> [Loops -> Nat]]
      BY <1>5, <2>1, HoldEffect
    <3>4. pc' \in [Sides -> [Loops -> {"read", "write", "done"}]]
      BY <1>5, <2>1, StepEffect
    <3>5. QED
      BY <1>8, <2>1, <3>2, <3>3, <3>4 DEF WriteFrame
  <2>2. CASE End(side, "out") /\ UNCHANGED <<frames, held>>
    BY <1>5, <1>6, <1>8, <2>2 DEF WriteFrame
  <2>3. QED
    BY <1>8, <2>1, <2>2 DEF WriteFrame
<1>9. ASSUME NEW side \in Sides, ReadFrame(side)
      PROVE  Shape'
  <2> DEFINE o == Other(side)
  <2>1. o \in Sides
    BY OtherSide
  <2>2. CASE frames[o] # <<>> /\ Hold(side, "in", Head(frames[o]))
             /\ frames' = [frames EXCEPT ![o] = Tail(@)] /\ Step(side, "in", "write")
             /\ UNCHANGED <<tcp, ws>>
    <3> HIDE DEF o
    <3>1. Head(frames[o]) \in Nat /\ Tail(frames[o]) \in Seq(Nat)
      BY <2>1, <2>2
    <3>2. frames' \in [Sides -> Seq(Nat)]
      BY <2>1, <2>2, <3>1
    <3>3. held' \in [Sides -> [Loops -> Nat]]
      BY <1>5, <2>2, <3>1, HoldEffect
    <3>4. pc' \in [Sides -> [Loops -> {"read", "write", "done"}]]
      BY <1>5, <2>2, StepEffect
    <3>5. QED
      BY <1>9, <2>2, <3>2, <3>3, <3>4 DEF ReadFrame
  <2>3. CASE End(side, "in") /\ UNCHANGED <<held, frames>>
    BY <1>5, <1>6, <1>9, <2>3 DEF ReadFrame
  <2>4. QED
    BY <1>9, <2>2, <2>3 DEF ReadFrame
<1>10. ASSUME NEW side \in Sides, WriteTCP(side)
       PROVE  Shape'
  <2>1. CASE Hold(side, "in", 0) /\ Step(side, "in", "read") /\ UNCHANGED <<tcp, ws>>
             /\ \/ received' = [received EXCEPT ![side] = Append(@, held[side]["in"])]
                \/ UNCHANGED received
    <3>1. Append(received[side], held[side]["in"]) \in Seq(Nat)
      BY <1>5
    <3>2. received' \in [Sides -> Seq(Nat)]
      BY <2>1, <3>1
    <3>3. held' \in [Sides -> [Loops -> Nat]]
      BY <1>5, <2>1, HoldEffect
    <3>4. pc' \in [Sides -> [Loops -> {"read", "write", "done"}]]
      BY <1>5, <2>1, StepEffect
    <3>5. QED
      BY <1>10, <2>1, <3>2, <3>3, <3>4 DEF WriteTCP
  <2>2. CASE End(side, "in") /\ UNCHANGED <<received, held>>
    BY <1>5, <1>6, <1>10, <2>2 DEF WriteTCP
  <2>3. QED
    BY <1>10, <2>1, <2>2 DEF WriteTCP
<1>11. ASSUME NEW side \in Sides, Kill(side)
       PROVE  Shape'
  BY <1>11 DEF Kill
<1>12. ASSUME NEW side \in Sides, NEW loop \in Loops, Break(side, loop)
       PROVE  Shape'
  BY <1>6, <1>12 DEF Break
<1>13. QED
  BY <1>2, <1>3, <1>4, <1>7, <1>8, <1>9, <1>10, <1>11, <1>12 DEF Next, Out, In

-----------------------------------------------------------------------------
(***************************************************************************)
(* The pipeline from one side to the other: how many chunks have left the  *)
(* endpoint's connection, the out loop, the WebSocket and the in loop.     *)
(***************************************************************************)
One(chunk) == IF chunk = 0 THEN 0 ELSE 1
Passed(side) == sent[side] - Len(tcpIn[side])
Framed(side) == Passed(side) - One(held[side]["out"])
Taken(side) == Framed(side) - Len(frames[side])
Given(side) == Taken(side) - One(held[Other(side)]["in"])

\* Every place holds the numbers that follow those of the next one; nothing leaves the
\* last one but to an endpoint, or to one that has closed.
Pipeline(side) ==
  LET o == Other(side) IN
  /\ Run(Passed(side), tcpIn[side])
  /\ held[side]["out"] # 0 => held[side]["out"] = Passed(side)
  /\ Run(Taken(side), frames[side])
  /\ held[o]["in"] # 0 => held[o]["in"] = Taken(side)
  /\ Run(0, received[o])
  /\ Len(received[o]) <= Given(side)
  /\ endpoint[o] # "closed" => Len(received[o]) = Given(side)

\* A loop holds a chunk between its read and its write.
Busy(side, loop) ==
  /\ pc[side][loop] = "read" => held[side][loop] = 0
  /\ pc[side][loop] = "write" => held[side][loop] # 0

Pipelines == /\ \A side \in Sides : Pipeline(side)
             /\ \A side \in Sides, loop \in Loops : Busy(side, loop)

LEMMA Counts ==
  ASSUME Shape, NEW side \in Sides
  PROVE  /\ Passed(side) \in Int /\ Framed(side) \in Int
         /\ Taken(side) \in Int /\ Given(side) \in Int
         /\ Given(side) <= Taken(side) /\ Taken(side) <= Framed(side)
         /\ Framed(side) <= Passed(side) /\ Passed(side) <= sent[side]
         /\ Len(received[Other(side)]) \in Nat
         /\ Len(tcpIn[side]) \in Nat /\ Len(frames[side]) \in Nat
<1>1. Len(tcpIn[side]) \in Nat /\ Len(frames[side]) \in Nat /\ sent[side] \in Nat
  BY DEF Shape
<1>2. One(held[side]["out"]) \in {0, 1} /\ One(held[Other(side)]["in"]) \in {0, 1}
  BY DEF One
<1>3. Len(received[Other(side)]) \in Nat
  BY OtherSide DEF Shape
<1>4. Passed(side) \in Int /\ Passed(side) <= sent[side]
  BY <1>1 DEF Passed
<1>5. Framed(side) \in Int /\ Framed(side) <= Passed(side)
  BY <1>2, <1>4 DEF Framed
<1>6. Taken(side) \in Int /\ Taken(side) <= Framed(side)
  BY <1>1, <1>5 DEF Taken
<1>7. Given(side) \in Int /\ Given(side) <= Taken(side)
  BY <1>2, <1>6 DEF Given
<1>8. QED
  BY <1>1, <1>3, <1>4, <1>5, <1>6, <1>7

\* A step that leaves the places of a direction alone keeps its pipeline.
Places(side) == <<sent[side], tcpIn[side], held[side]["out"], frames[side],
                  held[Other(side)]["in"], received[Other(side)]>>

LEMMA PipelineSame ==
  ASSUME NEW side \in Sides, Pipeline(side), UNCHANGED Places(side),
         endpoint'[Other(side)] # "closed" => endpoint[Other(side)] # "closed"
  PROVE  Pipeline(side)'
BY DEF Pipeline, Places, Passed, Framed, Taken, Given, One

LEMMA PipelinesInit == Init => Pipelines
<1> SUFFICES ASSUME Init PROVE Pipelines
  OBVIOUS
<1>1. Shape
  BY ShapeInit
<1>2. ASSUME NEW side \in Sides
      PROVE  Pipeline(side)
  <2>1. Other(side) \in Sides
    BY OtherSide
  <2>2. /\ sent[side] = 0 /\ tcpIn[side] = <<>> /\ frames[side] = <<>>
        /\ held[side]["out"] = 0 /\ held[Other(side)]["in"] = 0
        /\ received[Other(side)] = <<>>
    BY <2>1 DEF Init, Loops
  <2>3. /\ sent[side] = 0 /\ Len(tcpIn[side]) = 0 /\ Len(frames[side]) = 0
        /\ Len(received[Other(side)]) = 0
    BY <2>2, EmptySeq
  <2>4. One(held[side]["out"]) = 0 /\ One(held[Other(side)]["in"]) = 0
    BY <2>2 DEF One
  <2>5. Passed(side) = 0
    BY <2>3 DEF Passed
  <2>6. Taken(side) = 0
    BY <2>3, <2>4, <2>5 DEF Taken, Framed
  <2>7. Given(side) = 0
    BY <2>4, <2>6 DEF Given
  <2>8. Run(0, <<>>)
    BY RunEmpty
  <2>9. QED
    BY <2>2, <2>3, <2>5, <2>6, <2>7, <2>8 DEF Pipeline
<1>3. \A side \in Sides, loop \in Loops : Busy(side, loop)
  BY DEF Init, Busy
<1>4. QED
  BY <1>2, <1>3 DEF Pipelines

-----------------------------------------------------------------------------
(***************************************************************************)
(* One lemma per action that moves a chunk.                                *)
(***************************************************************************)
LEMMA WriteKeeps ==
  ASSUME Shape, Shape', Pipelines, NEW side \in Sides, Write(side)
  PROVE  Pipelines'
<1>1. UNCHANGED <<endpoint, received, frames, pc, held>>
  BY DEF Write
<1>2. ASSUME NEW d \in Sides, d # side
      PROVE  Pipeline(d)'
  <2>1. UNCHANGED Places(d)
    BY <1>2 DEF Write, Places, Shape
  <2>2. QED
    BY <1>1, <2>1, PipelineSame DEF Pipelines
<1>3. Pipeline(side)'
  <2>1. Pipeline(side)
    BY DEF Pipelines
  <2>2. sent'[side] = sent[side] + 1 /\ tcpIn'[side] = Append(tcpIn[side], sent[side] + 1)
    BY DEF Write, Shape
  <2>3. /\ Run(Passed(side), tcpIn[side]) /\ Passed(side) \in Int
        /\ sent[side] + 1 \in Nat /\ sent[side] + 1 = Passed(side) + Len(tcpIn[side]) + 1
        /\ Len(tcpIn[side]) \in Nat
    BY <2>1, Counts DEF Pipeline, Passed, Shape
  <2>4. /\ Run(Passed(side), tcpIn'[side])
        /\ Len(tcpIn'[side]) = Len(tcpIn[side]) + 1
    BY <2>2, <2>3, RunAppend
  <2>5. Passed(side)' = Passed(side)
    BY <2>2, <2>3, <2>4 DEF Passed
  <2>6. Framed(side)' = Framed(side) /\ Taken(side)' = Taken(side) /\ Given(side)' = Given(side)
    BY <1>1, <2>5 DEF Framed, Taken, Given
  <2>7. QED
    BY <1>1, <2>1, <2>4, <2>5, <2>6 DEF Pipeline
<1>4. QED
  BY <1>1, <1>2, <1>3 DEF Pipelines, Busy

\* A step that moves nothing and lets no loop go on.
LEMMA EndKeeps ==
  ASSUME Shape, Pipelines, UNCHANGED <<sent, received, tcpIn, frames, held>>,
         \A side \in Sides : endpoint'[side] # "closed" => endpoint[side] # "closed",
         \A side \in Sides, loop \in Loops : pc'[side][loop] \in {pc[side][loop], "done"}
  PROVE  Pipelines'
<1>1. ASSUME NEW d \in Sides
      PROVE  Pipeline(d)'
  <2>1. UNCHANGED Places(d)
    BY DEF Places
  <2>2. QED
    BY <2>1, PipelineSame, OtherSide DEF Pipelines
<1>2. \A side \in Sides, loop \in Loops : Busy(side, loop)'
  BY DEF Pipelines, Busy
<1>3. QED
  BY <1>1, <1>2 DEF Pipelines

LEMMA EndStepKeeps ==
  ASSUME Shape, Pipelines, NEW side \in Sides, NEW loop \in Loops, End(side, loop),
         UNCHANGED <<ends, data>>
  PROVE  Pipelines'
<1>1. UNCHANGED <<sent, received, tcpIn, frames, held, endpoint>>
  BY DEF ends, data
<1>2. \A s \in Sides, l \in Loops : pc'[s][l] \in {pc[s][l], "done"}
  BY EndEffect, StepEffect
<1>3. QED
  BY <1>1, <1>2, EndKeeps

LEMMA ReadTCPKeeps ==
  ASSUME Shape, Shape', Pipelines, NEW side \in Sides, ReadTCP(side)
  PROVE  Pipelines'
<1> "out" \in Loops /\ "in" \in Loops
  BY DEF Loops
<1>1. CASE tcpIn[side] # <<>> /\ Hold(side, "out", Head(tcpIn[side]))
           /\ tcpIn' = [tcpIn EXCEPT ![side] = Tail(@)] /\ Step(side, "out", "write")
  <2>1. UNCHANGED <<sent, endpoint, received, frames>> /\ pc[side]["out"] = "read"
    BY DEF ReadTCP, ends
  <2>2. Pipeline(side) /\ held[side]["out"] = 0
    BY <2>1 DEF Pipelines, Busy
  <2>3. Run(Passed(side), tcpIn[side]) /\ Passed(side) \in Int
    BY <2>2, Counts DEF Pipeline
  <2>4. /\ Head(tcpIn[side]) = Passed(side) + 1 /\ Head(tcpIn[side]) \in Nat
        /\ Run(Passed(side) + 1, Tail(tcpIn[side]))
        /\ Len(Tail(tcpIn[side])) = Len(tcpIn[side]) - 1
        /\ Len(tcpIn[side]) \in Nat
    BY <1>1, <2>3, RunTail
  <2>5. tcpIn'[side] = Tail(tcpIn[side]) /\ \A d \in Sides : d # side => tcpIn'[d] = tcpIn[d]
    BY <1>1 DEF Shape
  <2>6. \A s \in Sides, l \in Loops :
          held'[s][l] = IF s = side /\ l = "out" THEN Head(tcpIn[side]) ELSE held[s][l]
    BY <1>1, <2>4, HoldEffect
  <2>7. \A s \in Sides, l \in Loops :
          pc'[s][l] = IF s = side /\ l = "out" THEN "write" ELSE pc[s][l]
    BY <1>1, StepEffect
  <2>8. Passed(side) >= 0
    BY <2>2, Counts DEF Pipeline
  <2>9. held'[side]["out"] = Passed(side) + 1 /\ held'[side]["out"] # 0
    BY <2>3, <2>4, <2>6, <2>8
  <2>10. held'[Other(side)]["in"] = held[Other(side)]["in"]
    BY <2>6, OtherSide
  <2>11. Passed(side)' = Passed(side) + 1
    BY <2>1, <2>4, <2>5 DEF Passed, Shape
  <2>12. Framed(side)' = Framed(side)
    BY <2>2, <2>3, <2>9, <2>11 DEF Framed, One
  <2>13. Taken(side)' = Taken(side) /\ Given(side)' = Given(side)
    BY <2>1, <2>10, <2>12 DEF Taken, Given
  <2>14. Pipeline(side)'
    BY <2>1, <2>2, <2>4, <2>5, <2>9, <2>10, <2>11, <2>13 DEF Pipeline
  <2>15. ASSUME NEW d \in Sides, d # side
         PROVE  Pipeline(d)'
    <3>1. UNCHANGED Places(d)
      BY <2>1, <2>5, <2>6, <2>15, OtherSide DEF Places
    <3>2. QED
      BY <2>1, <3>1, PipelineSame DEF Pipelines
  <2>16. \A s \in Sides, l \in Loops : Busy(s, l)'
    BY <2>6, <2>7, <2>9 DEF Pipelines, Busy
  <2>17. QED
    BY <2>14, <2>15, <2>16 DEF Pipelines
<1>2. CASE End(side, "out") /\ UNCHANGED <<held, tcpIn>>
  BY <1>2, EndStepKeeps DEF ReadTCP, data, ends
<1>3. QED
  BY <1>1, <1>2 DEF ReadTCP

LEMMA WriteFrameKeeps ==
  ASSUME Shape, Shape', Pipelines, NEW side \in Sides, WriteFrame(side)
  PROVE  Pipelines'
<1> "out" \in Loops /\ "in" \in Loops
  BY DEF Loops
<1>1. CASE frames' = [frames EXCEPT ![side] = Append(@, held[side]["out"])]
           /\ Hold(side, "out", 0) /\ Step(side, "out", "read")
  <2>1. UNCHANGED <<sent, endpoint, received, tcpIn>> /\ pc[side]["out"] = "write"
    BY DEF WriteFrame, ends
  <2>2. Pipeline(side) /\ held[side]["out"] # 0 /\ held[side]["out"] = Passed(side)
    BY <2>1 DEF Pipelines, Busy, Pipeline
  <2>3. Run(Taken(side), frames[side]) /\ Taken(side) \in Int /\ Len(frames[side]) \in Nat
        /\ Passed(side) \in Int
    BY <2>2, Counts DEF Pipeline
  <2>4. Framed(side) = Passed(side) - 1
    BY <2>2, <2>3 DEF Framed, One
  <2>5. held[side]["out"] \in Nat /\ held[side]["out"] = Taken(side) + Len(frames[side]) + 1
    BY <2>2, <2>3, <2>4 DEF Taken, Shape
  <2>6. /\ frames'[side] = Append(frames[side], held[side]["out"])
        /\ \A d \in Sides : d # side => frames'[d] = frames[d]
    BY <1>1 DEF Shape
  <2>7. Run(Taken(side), frames'[side]) /\ Len(frames'[side]) = Len(frames[side]) + 1
    BY <2>3, <2>5, <2>6, RunAppend
  <2>8. \A s \in Sides, l \in Loops :
          held'[s][l] = IF s = side /\ l = "out" THEN 0 ELSE held[s][l]
    BY <1>1, HoldEffect
  <2>9. \A s \in Sides, l \in Loops :
          pc'[s][l] = IF s = side /\ l = "out" THEN "read" ELSE pc[s][l]
    BY <1>1, StepEffect
  <2>10. held'[side]["out"] = 0 /\ held'[Other(side)]["in"] = held[Other(side)]["in"]
    BY <2>8, OtherSide
  <2>11. Passed(side)' = Passed(side)
    BY <2>1 DEF Passed
  <2>12. Framed(side)' = Framed(side) + 1
    BY <2>3, <2>4, <2>10, <2>11 DEF Framed, One
  <2>13. Taken(side)' = Taken(side)
    BY <2>3, <2>4, <2>7, <2>12 DEF Taken
  <2>14. Given(side)' = Given(side)
    BY <2>10, <2>13 DEF Given
  <2>15. Pipeline(side)'
    BY <2>1, <2>2, <2>7, <2>10, <2>11, <2>13, <2>14 DEF Pipeline
  <2>16. ASSUME NEW d \in Sides, d # side
         PROVE  Pipeline(d)'
    <3>1. UNCHANGED Places(d)
      BY <2>1, <2>6, <2>8, <2>16, OtherSide DEF Places
    <3>2. QED
      BY <2>1, <3>1, PipelineSame DEF Pipelines
  <2>17. \A s \in Sides, l \in Loops : Busy(s, l)'
    BY <2>8, <2>9 DEF Pipelines, Busy
  <2>18. QED
    BY <2>15, <2>16, <2>17 DEF Pipelines
<1>2. CASE End(side, "out") /\ UNCHANGED <<frames, held>>
  BY <1>2, EndStepKeeps DEF WriteFrame, data, ends
<1>3. QED
  BY <1>1, <1>2 DEF WriteFrame

\* The in loops move chunks of the other direction.
LEMMA ReadFrameKeeps ==
  ASSUME Shape, Shape', Pipelines, NEW side \in Sides, ReadFrame(side)
  PROVE  Pipelines'
<1> "out" \in Loops /\ "in" \in Loops
  BY DEF Loops
<1> DEFINE o == Other(side)
<1>1. o \in Sides /\ o # side /\ Other(o) = side
  BY OtherSide
<1>2. CASE frames[o] # <<>> /\ Hold(side, "in", Head(frames[o]))
           /\ frames' = [frames EXCEPT ![o] = Tail(@)] /\ Step(side, "in", "write")
  <2> HIDE DEF o
  <2>1. UNCHANGED <<sent, endpoint, received, tcpIn>> /\ pc[side]["in"] = "read"
    BY DEF ReadFrame, ends
  <2>2. Pipeline(o) /\ held[side]["in"] = 0
    BY <1>1, <2>1 DEF Pipelines, Busy
  <2>3. Run(Taken(o), frames[o]) /\ Taken(o) \in Int /\ Framed(o) \in Int
        /\ Given(o) \in Int /\ Given(o) <= Taken(o) /\ 0 <= Given(o)
    BY <1>1, <2>2, Counts DEF Pipeline
  <2>4. /\ Head(frames[o]) = Taken(o) + 1 /\ Head(frames[o]) \in Nat
        /\ Run(Taken(o) + 1, Tail(frames[o]))
        /\ Len(Tail(frames[o])) = Len(frames[o]) - 1
        /\ Len(frames[o]) \in Nat
    BY <1>2, <2>3, RunTail
  <2>5. frames'[o] = Tail(frames[o]) /\ \A d \in Sides : d # o => frames'[d] = frames[d]
    BY <1>1, <1>2 DEF Shape
  <2>6. \A s \in Sides, l \in Loops :
          held'[s][l] = IF s = side /\ l = "in" THEN Head(frames[o]) ELSE held[s][l]
    BY <1>2, <2>4, HoldEffect
  <2>7. \A s \in Sides, l \in Loops :
          pc'[s][l] = IF s = side /\ l = "in" THEN "write" ELSE pc[s][l]
    BY <1>2, StepEffect
  <2>8. held'[side]["in"] = Taken(o) + 1 /\ held'[side]["in"] # 0
    BY <2>3, <2>4, <2>6
  <2>9. held'[o]["out"] = held[o]["out"]
    BY <1>1, <2>6
  <2>10. Passed(o)' = Passed(o)
    BY <2>1 DEF Passed
  <2>11. Framed(o)' = Framed(o)
    BY <2>9, <2>10 DEF Framed
  <2>12. Taken(o)' = Taken(o) + 1
    BY <2>3, <2>4, <2>5, <2>11 DEF Taken
  <2>13. Given(o)' = Given(o)
    BY <1>1, <2>2, <2>3, <2>8, <2>12 DEF Given, One
  <2>14. Pipeline(o)'
    BY <1>1, <2>1, <2>2, <2>4, <2>5, <2>8, <2>9, <2>10, <2>12, <2>13 DEF Pipeline
  <2>15. ASSUME NEW d \in Sides, d # o
         PROVE  Pipeline(d)'
    <3>1. Other(d) # side
      BY <1>1, <2>15, OtherSide
    <3>2. UNCHANGED Places(d)
      BY <2>1, <2>5, <2>6, <2>15, <3>1, OtherSide DEF Places
    <3>3. QED
      BY <2>1, <3>2, PipelineSame DEF Pipelines
  <2>16. \A s \in Sides, l \in Loops : Busy(s, l)'
    BY <2>6, <2>7, <2>8 DEF Pipelines, Busy
  <2>17. QED
    BY <2>14, <2>15, <2>16 DEF Pipelines
<1>3. CASE End(side, "in") /\ UNCHANGED <<held, frames>>
  BY <1>3, EndStepKeeps DEF ReadFrame, data, ends
<1>4. QED
  BY <1>2, <1>3 DEF ReadFrame

LEMMA WriteTCPKeeps ==
  ASSUME Shape, Shape', Pipelines, NEW side \in Sides, WriteTCP(side)
  PROVE  Pipelines'
<1> "out" \in Loops /\ "in" \in Loops
  BY DEF Loops
<1> DEFINE o == Other(side)
<1>1. o \in Sides /\ o # side /\ Other(o) = side
  BY OtherSide
<1>2. CASE /\ Hold(side, "in", 0) /\ Step(side, "in", "read")
           /\ \/ /\ endpoint[side] # "closed"
                 /\ received' = [received EXCEPT ![side] = Append(@, held[side]["in"])]
              \/ endpoint[side] = "closed" /\ UNCHANGED received
  <2> HIDE DEF o
  <2>1. UNCHANGED <<sent, endpoint, frames, tcpIn>> /\ pc[side]["in"] = "write"
    BY DEF WriteTCP, ends
  <2>2. Pipeline(o) /\ held[side]["in"] # 0 /\ held[side]["in"] = Taken(o)
    BY <1>1, <2>1 DEF Pipelines, Busy, Pipeline
  <2>3. /\ Run(0, received[side]) /\ Len(received[side]) \in Nat
        /\ Taken(o) \in Int /\ Given(o) \in Int /\ Len(received[side]) <= Given(o)
        /\ endpoint[side] # "closed" => Len(received[side]) = Given(o)
    BY <1>1, <2>2, Counts DEF Pipeline
  <2>4. Given(o) = Taken(o) - 1
    BY <1>1, <2>2, <2>3 DEF Given, One
  <2>5. \A s \in Sides, l \in Loops :
          held'[s][l] = IF s = side /\ l = "in" THEN 0 ELSE held[s][l]
    BY <1>2, HoldEffect
  <2>6. \A s \in Sides, l \in Loops :
          pc'[s][l] = IF s = side /\ l = "in" THEN "read" ELSE pc[s][l]
    BY <1>2, StepEffect
  <2>7. held'[side]["in"] = 0 /\ held'[o]["out"] = held[o]["out"]
    BY <1>1, <2>5
  <2>8. Passed(o)' = Passed(o)
    BY <2>1 DEF Passed
  <2>9. Taken(o)' = Taken(o)
    BY <2>1, <2>7, <2>8 DEF Taken, Framed
  <2>10. Given(o)' = Given(o) + 1
    BY <1>1, <2>3, <2>4, <2>7, <2>9 DEF Given, One
  <2>11. /\ Run(0, received'[side]) /\ Len(received'[side]) <= Given(o)'
         /\ endpoint'[side] # "closed" => Len(received'[side]) = Given(o)'
    <3>1. CASE endpoint[side] # "closed"
               /\ received' = [received EXCEPT ![side] = Append(@, held[side]["in"])]
      <4>1. received'[side] = Append(received[side], held[side]["in"])
        BY <3>1 DEF Shape
      <4>2. held[side]["in"] \in Nat
        BY DEF Shape
      <4>3. held[side]["in"] = 0 + Len(received[side]) + 1 /\ 0 \in Int
        BY <2>2, <2>3, <2>4, <3>1
      <4>4. /\ Run(0, Append(received[side], held[side]["in"]))
            /\ Len(Append(received[side], held[side]["in"])) = Len(received[side]) + 1
        BY <2>3, <4>2, <4>3, RunAppend
      <4>5. QED
        BY <2>3, <2>10, <3>1, <4>1, <4>4
    <3>2. CASE endpoint[side] = "closed" /\ UNCHANGED received
      BY <2>1, <2>3, <2>10, <3>2
    <3>3. QED
      BY <1>2, <3>1, <3>2
  <2>12. Pipeline(o)'
    BY <1>1, <2>1, <2>2, <2>7, <2>8, <2>9, <2>11 DEF Pipeline
  <2>13. ASSUME NEW d \in Sides, d # o
         PROVE  Pipeline(d)'
    <3>1. Other(d) # side /\ Other(d) \in Sides
      BY <1>1, <2>13, OtherSide
    <3>2. received'[Other(d)] = received[Other(d)]
      BY <1>2, <3>1 DEF Shape
    <3>3. UNCHANGED Places(d)
      BY <2>1, <2>5, <3>1, <3>2 DEF Places
    <3>4. QED
      BY <2>1, <3>3, PipelineSame DEF Pipelines
  <2>14. \A s \in Sides, l \in Loops : Busy(s, l)'
    BY <2>5, <2>6 DEF Pipelines, Busy
  <2>15. QED
    BY <2>12, <2>13, <2>14 DEF Pipelines
<1>3. CASE End(side, "in") /\ UNCHANGED <<received, held>>
  BY <1>3, EndStepKeeps DEF WriteTCP, data, ends
<1>4. QED
  BY <1>2, <1>3 DEF WriteTCP

LEMMA PipelinesStep ==
  ASSUME Shape, Shape', Pipelines, [Next]_vars
  PROVE  Pipelines'
<1>1. CASE UNCHANGED vars
  BY <1>1, EndKeeps DEF vars
<1>2. ASSUME NEW side \in Sides, Write(side)
      PROVE  Pipelines'
  BY <1>2, WriteKeeps
<1>3. ASSUME NEW side \in Sides, Shut(side) \/ Close(side)
      PROVE  Pipelines'
  <2>1. UNCHANGED <<sent, received, tcpIn, frames, held, pc>>
    BY <1>3 DEF Shut, Close, data
  <2>2. \A s \in Sides : endpoint'[s] # "closed" => endpoint[s] # "closed"
    BY <1>3 DEF Shut, Close, Shape
  <2>3. QED
    BY <2>1, <2>2, EndKeeps
<1>4. ASSUME NEW side \in Sides, Stall(side)
      PROVE  Pipelines'
  BY <1>4, EndKeeps DEF Stall, data
<1>5. ASSUME NEW side \in Sides, Out(side)
      PROVE  Pipelines'
  BY <1>5, ReadTCPKeeps, WriteFrameKeeps DEF Out
<1>6. ASSUME NEW side \in Sides, In(side)
      PROVE  Pipelines'
  BY <1>6, ReadFrameKeeps, WriteTCPKeeps DEF In
<1>7. ASSUME NEW side \in Sides, Kill(side)
      PROVE  Pipelines'
  <2>1. UNCHANGED <<sent, endpoint, received, tcpIn, frames, held>>
    BY <1>7 DEF Kill, data, ends
  <2>2. \A s \in Sides, l \in Loops : pc'[s][l] \in {pc[s][l], "done"}
    BY <1>7 DEF Kill, Shape
  <2>3. QED
    BY <2>1, <2>2, EndKeeps
<1>8. ASSUME NEW side \in Sides, NEW loop \in Loops, Break(side, loop)
      PROVE  Pipelines'
  BY <1>8, EndStepKeeps DEF Break
<1>9. QED
  BY <1>1, <1>2, <1>3, <1>4, <1>5, <1>6, <1>7, <1>8 DEF Next

\* The inductive invariant, for any number of chunks, any window and any faults.
THEOREM PipelinesHold == Spec => [](Shape /\ Pipelines)
<1>1. Init => Shape /\ Pipelines
  BY ShapeInit, PipelinesInit
<1>2. Shape /\ Pipelines /\ [Next]_vars => Shape' /\ Pipelines'
  BY ShapeStep, PipelinesStep
<1>3. QED
  BY <1>1, <1>2, PTL DEF Spec

-----------------------------------------------------------------------------
(***************************************************************************)
(* What follows from it.                                                   *)
(***************************************************************************)

\* What an endpoint is delivered is a prefix of what the other one wrote, however the
\* connection ends.
THEOREM InOrderHolds == Spec => []InOrder
<1>1. ASSUME Shape, Pipelines, NEW side \in Sides
      PROVE  /\ received[side] = FirstChunks(Len(received[side]))
             /\ Len(received[side]) <= sent[Other(side)]
  <2> DEFINE o == Other(side)
  <2>1. o \in Sides /\ Other(o) = side
    BY OtherSide
  <2> HIDE DEF o
  <2>2. Run(0, received[side]) /\ Len(received[side]) <= Given(o)
    BY <1>1, <2>1 DEF Pipelines, Pipeline
  <2>3. received[side] = FirstChunks(Len(received[side]))
    BY <2>2, RunIsFirst
  <2>4. /\ Given(o) \in Int /\ Taken(o) \in Int /\ Framed(o) \in Int /\ Passed(o) \in Int
        /\ Given(o) <= Taken(o) /\ Taken(o) <= Framed(o) /\ Framed(o) <= Passed(o)
        /\ Passed(o) <= sent[o] /\ Len(received[side]) \in Nat
    BY <1>1, <2>1, Counts
  <2>5. sent[o] \in Nat
    BY <1>1, <2>1 DEF Shape
  <2>6. Len(received[side]) <= sent[o]
    BY <2>2, <2>4, <2>5
  <2>7. QED
    BY <2>3, <2>6 DEF o
<1>2. Shape /\ Pipelines => InOrder
  BY <1>1 DEF InOrder
<1>3. QED
  BY <1>2, PipelinesHold, PTL

LEMMA RunOne ==
  ASSUME NEW a \in Int, NEW x \in Nat, x = a + 1
  PROVE  Run(a, <<x>>) /\ Len(<<x>>) = 1
BY DEF Run

LEMMA HeldIsRun ==
  ASSUME NEW side \in Sides, NEW loop \in Loops, NEW a \in Int,
         held[side][loop] \in Nat, held[side][loop] # 0 => held[side][loop] = a + 1
  PROVE  Run(a, HeldBy(side, loop)) /\ Len(HeldBy(side, loop)) = One(held[side][loop])
<1>1. CASE held[side][loop] = 0
  BY <1>1, RunEmpty DEF HeldBy, One
<1>2. CASE held[side][loop] # 0
  <2>1. Run(a, <<held[side][loop]>>) /\ Len(<<held[side][loop]>>) = 1
    BY <1>2, RunOne
  <2>2. QED
    BY <1>2, <2>1 DEF HeldBy, One
<1>3. QED
  BY <1>1, <1>2

\* The places of a direction, put together, hold the rest of what was written.
LEMMA InFlightIsRun ==
  ASSUME Shape, Pipelines, NEW side \in Sides
  PROVE  /\ Run(Given(side), InFlight(side))
         /\ Len(InFlight(side)) = sent[side] - Given(side)
<1> "out" \in Loops /\ "in" \in Loops
  BY DEF Loops
<1> DEFINE o == Other(side)
           a == HeldBy(o, "in")
           b == frames[side]
           c == HeldBy(side, "out")
           d == tcpIn[side]
<1>1. o \in Sides
  BY OtherSide
<1>2. /\ Given(side) \in Int /\ Taken(side) \in Int /\ Framed(side) \in Int
      /\ Passed(side) \in Int /\ sent[side] \in Nat
      /\ Len(b) \in Nat /\ Len(d) \in Nat
  BY Counts DEF Shape
<1>3. One(held[o]["in"]) \in {0, 1} /\ One(held[side]["out"]) \in {0, 1}
  BY DEF One
<1>4. Run(Given(side), a) /\ Given(side) + Len(a) = Taken(side)
  <2>1. held[o]["in"] \in Nat /\ Given(side) = Taken(side) - One(held[o]["in"])
    BY <1>1 DEF Shape, Given
  <2>2. held[o]["in"] # 0 => held[o]["in"] = Taken(side)
    BY DEF Pipelines, Pipeline
  <2>3. held[o]["in"] # 0 => held[o]["in"] = Given(side) + 1
    BY <1>2, <2>1, <2>2 DEF One
  <2>4. Run(Given(side), a) /\ Len(a) = One(held[o]["in"])
    BY <1>1, <1>2, <2>1, <2>3, HeldIsRun
  <2>5. QED
    BY <1>2, <1>3, <2>1, <2>4
<1>5. Run(Taken(side), b) /\ Taken(side) + Len(b) = Framed(side)
  BY <1>2 DEF Pipelines, Pipeline, Taken
<1>6. Run(Framed(side), c) /\ Framed(side) + Len(c) = Passed(side)
  <2>1. held[side]["out"] \in Nat /\ Framed(side) = Passed(side) - One(held[side]["out"])
    BY DEF Shape, Framed
  <2>2. held[side]["out"] # 0 => held[side]["out"] = Passed(side)
    BY DEF Pipelines, Pipeline
  <2>3. held[side]["out"] # 0 => held[side]["out"] = Framed(side) + 1
    BY <1>2, <2>1, <2>2 DEF One
  <2>4. Run(Framed(side), c) /\ Len(c) = One(held[side]["out"])
    BY <1>2, <2>1, <2>3, HeldIsRun
  <2>5. QED
    BY <1>2, <1>3, <2>1, <2>4
<1>7. Run(Passed(side), d) /\ Passed(side) + Len(d) = sent[side]
  BY <1>2 DEF Pipelines, Pipeline, Passed
<1>8. Len(a) \in Nat /\ Len(c) \in Nat
  BY <1>4, <1>6 DEF Run
<1> DEFINE ab == a \o b
           abc == ab \o c
<1>9. InFlight(side) = abc \o d
  BY DEF InFlight
<1> HIDE DEF a, b, c, d, o
<1>10. Run(Given(side), ab) /\ Len(ab) = Len(a) + Len(b)
  BY <1>2, <1>4, <1>5, RunConcat
<1> HIDE DEF ab
<1>11. Len(ab) \in Nat /\ Given(side) + Len(ab) = Framed(side)
  BY <1>2, <1>4, <1>5, <1>8, <1>10
<1>12. Run(Given(side) + Len(ab), c)
  BY <1>6, <1>11
<1>13. Run(Given(side), abc) /\ Len(abc) = Len(ab) + Len(c)
  BY <1>2, <1>10, <1>12, RunConcat
<1> HIDE DEF abc
<1>14. Len(abc) \in Nat /\ Given(side) + Len(abc) = Passed(side)
  BY <1>2, <1>6, <1>8, <1>11, <1>13
<1>15. Run(Given(side) + Len(abc), d)
  BY <1>7, <1>14
<1>16. Run(Given(side), abc \o d) /\ Len(abc \o d) = Len(abc) + Len(d)
  <2>1. Given(side) \in Int /\ Run(Given(side), abc)
    BY <1>2, <1>13
  <2>2. QED
    BY <2>1, <1>15, RunConcat
<1>17. Len(abc \o d) = sent[side] - Given(side)
  BY <1>2, <1>7, <1>14, <1>16
<1>18. QED
  BY <1>9, <1>16, <1>17

\* As long as nothing was closed, what was written and not yet delivered is on its way.
THEOREM NothingLostHolds == Spec => []NothingLost
<1>1. ASSUME Shape, Pipelines, NEW side \in Sides, endpoint[Other(side)] # "closed"
      PROVE  received[Other(side)] \o InFlight(side) = FirstChunks(sent[side])
  <2> DEFINE r == received[Other(side)]
             f == InFlight(side)
  <2>1. Run(0, r) /\ Len(r) = Given(side)
    BY <1>1 DEF Pipelines, Pipeline
  <2>2. Run(Given(side), f) /\ Len(f) = sent[side] - Given(side)
    BY <1>1, InFlightIsRun
  <2>3. Given(side) \in Int /\ sent[side] \in Nat
    BY <1>1, Counts DEF Shape
  <2> HIDE DEF r, f
  <2>4. Run(0 + Len(r), f) /\ 0 \in Int
    BY <2>1, <2>2, <2>3
  <2>5. Run(0, r \o f) /\ Len(r \o f) = Len(r) + Len(f)
    BY <2>1, <2>4, RunConcat
  <2>6. Len(r \o f) = sent[side]
    BY <2>1, <2>2, <2>3, <2>5
  <2>7. r \o f = FirstChunks(sent[side])
    BY <2>5, <2>6, RunIsFirst
  <2>8. QED
    BY <2>7 DEF r, f
<1>2. Shape /\ Pipelines => NothingLost
  BY <1>1, OtherSide DEF NothingLost
<1>3. QED
  BY <1>2, PipelinesHold, PTL

\* Every place holds chunks of the endpoint it comes from.
THEOREM TypeCorrect == Spec => []TypeOK
<1>1. ASSUME Shape, Pipelines, NEW side \in Sides
      PROVE  /\ tcpIn[side] \in Seq(Chunks(side))
             /\ frames[side] \in Seq(Chunks(side))
             /\ received[Other(side)] \in Seq(Chunks(side))
             /\ held[side]["out"] \in Chunks(side) \cup {0}
             /\ held[Other(side)]["in"] \in Chunks(side) \cup {0}
  <2> "out" \in Loops /\ "in" \in Loops /\ Other(side) \in Sides
    BY OtherSide DEF Loops
  <2> DEFINE n == MaxChunks[side]
  <2>1. n \in Nat /\ sent[side] \in Nat /\ sent[side] <= n
    BY <1>1, BoundAssumption DEF Shape
  <2>2. /\ Passed(side) \in Int /\ Framed(side) \in Int
        /\ Taken(side) \in Int /\ Given(side) \in Int
        /\ Given(side) <= Taken(side) /\ Taken(side) <= Framed(side)
        /\ Framed(side) <= Passed(side) /\ Passed(side) <= sent[side]
        /\ Len(received[Other(side)]) \in Nat
        /\ Len(tcpIn[side]) \in Nat /\ Len(frames[side]) \in Nat
    BY <1>1, Counts
  <2>3. Pipeline(side)
    BY <1>1 DEF Pipelines
  <2> HIDE DEF n
  <2>4. 0 <= Given(side)
    BY <2>2, <2>3 DEF Pipeline
  <2>5. Passed(side) \in Nat /\ Taken(side) \in Nat /\ Passed(side) <= n /\ Taken(side) <= n
    BY <2>1, <2>2, <2>4
  <2>6. tcpIn[side] \in Seq(1 .. n)
    <3>1. Run(Passed(side), tcpIn[side]) /\ Passed(side) + Len(tcpIn[side]) <= n
      BY <2>1, <2>2, <2>3 DEF Pipeline, Passed
    <3>2. QED
      BY <2>1, <2>5, <3>1, RunWithin
  <2>7. frames[side] \in Seq(1 .. n)
    <3>1. Taken(side) + Len(frames[side]) = Framed(side)
      BY <2>2 DEF Taken
    <3>2. Run(Taken(side), frames[side]) /\ Taken(side) + Len(frames[side]) <= n
      BY <2>1, <2>2, <2>3, <3>1 DEF Pipeline
    <3>3. QED
      BY <2>1, <2>5, <3>2, RunWithin
  <2>8. received[Other(side)] \in Seq(1 .. n)
    <3>1. Run(0, received[Other(side)]) /\ Len(received[Other(side)]) <= Given(side)
      BY <2>3 DEF Pipeline
    <3>2. 0 \in Nat /\ 0 + Len(received[Other(side)]) <= n
      BY <2>1, <2>2, <3>1
    <3>3. QED
      BY <2>1, <3>1, <3>2, RunWithin
  <2>9. /\ held[side]["out"] \in Nat /\ held[Other(side)]["in"] \in Nat
    BY <1>1 DEF Shape
  <2>10. /\ held[side]["out"] # 0 => held[side]["out"] = Passed(side)
         /\ held[Other(side)]["in"] # 0 => held[Other(side)]["in"] = Taken(side)
    BY <2>3 DEF Pipeline
  <2>11. /\ held[side]["out"] \in 1 .. n \cup {0}
         /\ held[Other(side)]["in"] \in 1 .. n \cup {0}
    BY <2>1, <2>5, <2>9, <2>10
  <2>12. QED
    BY <2>6, <2>7, <2>8, <2>11 DEF Chunks, n
<1>2. ASSUME Shape, Pipelines, NEW side \in Sides
      PROVE  /\ sent[side] \in 0 .. MaxChunks[side]
             /\ endpoint[side] \in {"open", "shut", "closed"}
             /\ stalled[side] \in BOOLEAN
             /\ pc[side] \in [Loops -> {"read", "write", "done"}]
             /\ tcp[side] \in BOOLEAN /\ ws[side] \in BOOLEAN
  <2>1. MaxChunks[side] \in Nat
    BY BoundAssumption
  <2>2. QED
    BY <1>2, <2>1 DEF Shape
<1>3. ASSUME Shape, Pipelines
      PROVE  TypeOK
  <2> SUFFICES ASSUME NEW side \in Sides
               PROVE  /\ tcpIn[side] \in Seq(Chunks(side))
                      /\ frames[side] \in Seq(Chunks(side))
                      /\ received[side] \in Seq(Chunks(Other(side)))
                      /\ held[side]["out"] \in Chunks(side) \cup {0}
                      /\ held[side]["in"] \in Chunks(Other(side)) \cup {0}
    BY <1>2, <1>3 DEF TypeOK
  <2>1. Other(side) \in Sides /\ Other(Other(side)) = side
    BY OtherSide
  <2>2. /\ received[Other(Other(side))] \in Seq(Chunks(Other(side)))
        /\ held[Other(Other(side))]["in"] \in Chunks(Other(side)) \cup {0}
    BY <1>1, <1>3, <2>1
  <2>3. QED
    BY <1>1, <1>3, <2>1, <2>2
<1>4. QED
  BY <1>3, PipelinesHold, PTL

-----------------------------------------------------------------------------
(***************************************************************************)
(* The goroutines never wait for each other.                               *)
(***************************************************************************)

\* Both sockets of a side are closed together, and before a loop is over.
Sockets ==
  \A side \in Sides :
    /\ tcp[side] = ws[side]
    /\ \A loop \in Loops : Over(side, loop) => ~tcp[side]

\* A step of a loop that does not end, and one that does.
LEMMA SocketsLabel ==
  ASSUME Shape, Sockets, NEW side \in Sides, NEW loop \in Loops,
         NEW label \in {"read", "write"}, Step(side, loop, label), UNCHANGED <<tcp, ws>>
  PROVE  Sockets'
BY StepEffect DEF Sockets, Over

LEMMA SocketsEnd ==
  ASSUME Shape, Sockets, NEW side \in Sides, NEW loop \in Loops, End(side, loop)
  PROVE  Sockets'
<1>1. \A s \in Sides, l \in Loops :
        pc'[s][l] = IF s = side /\ l = loop THEN "done" ELSE pc[s][l]
  BY EndEffect, StepEffect
<1>2. /\ tcp' = [tcp EXCEPT ![side] = FALSE] /\ ws' = [ws EXCEPT ![side] = FALSE]
      /\ tcp \in [Sides -> BOOLEAN] /\ ws \in [Sides -> BOOLEAN]
  BY DEF End, Shape
<1>3. \A s \in Sides : IF s = side THEN ~tcp'[s] /\ ~ws'[s]
                       ELSE tcp'[s] = tcp[s] /\ ws'[s] = ws[s]
  BY <1>2
<1>4. ASSUME NEW s \in Sides
      PROVE  /\ tcp'[s] = ws'[s]
             /\ \A l \in Loops : Over(s, l)' => ~tcp'[s]
  <2>1. CASE s = side
    <3>1. ~tcp'[s] /\ ~ws'[s] /\ tcp'[s] \in BOOLEAN /\ ws'[s] \in BOOLEAN
      BY <1>2, <1>3, <2>1
    <3>2. QED
      BY <3>1
  <2>2. CASE s # side
    BY <1>1, <1>3, <2>2 DEF Sockets, Over
  <2>3. QED
    BY <2>1, <2>2
<1>5. QED
  BY <1>4 DEF Sockets

LEMMA SocketsStep ==
  ASSUME Shape, Sockets, [Next]_vars
  PROVE  Sockets'
<1> "out" \in Loops /\ "in" \in Loops
  BY DEF Loops
<1>1. CASE UNCHANGED <<pc, tcp, ws>>
  BY <1>1 DEF Sockets, Over
<1>2. ASSUME NEW side \in Sides, Write(side) \/ Shut(side) \/ Close(side) \/ Stall(side)
      PROVE  Sockets'
  BY <1>1, <1>2 DEF Write, Shut, Close, Stall
<1>3. ASSUME NEW side \in Sides, Out(side)
      PROVE  Sockets'
  BY <1>3, SocketsLabel, SocketsEnd DEF Out, ReadTCP, WriteFrame
<1>4. ASSUME NEW side \in Sides, In(side)
      PROVE  Sockets'
  BY <1>4, SocketsLabel, SocketsEnd DEF In, ReadFrame, WriteTCP
<1>5. ASSUME NEW side \in Sides, Kill(side)
      PROVE  Sockets'
  BY <1>5 DEF Kill, Sockets, Over, Shape
<1>6. ASSUME NEW side \in Sides, NEW loop \in Loops, Break(side, loop)
      PROVE  Sockets'
  BY <1>6, SocketsEnd DEF Break
<1>7. QED
  BY <1>1, <1>2, <1>3, <1>4, <1>5, <1>6 DEF Next, vars

LEMMA SocketsHold == Spec => []Sockets
<1>1. Init => Sockets
  BY DEF Init, Sockets, Over
<1>2. Shape /\ Sockets /\ [Next]_vars => Sockets'
  BY SocketsStep
<1>3. QED
  BY <1>1, <1>2, PipelinesHold, PTL DEF Spec

\* A direction whose two loops wait in their reads, with nothing in flight, has
\* delivered everything.
LEMMA EmptyIsCaughtUp ==
  ASSUME Shape, Pipelines, NEW side \in Sides,
         pc[side]["out"] = "read", tcpIn[side] = <<>>,
         pc[Other(side)]["in"] = "read", frames[side] = <<>>,
         endpoint[Other(side)] # "closed"
  PROVE  CaughtUp(side)
<1>1. Other(side) \in Sides /\ "out" \in Loops /\ "in" \in Loops
  BY OtherSide DEF Loops
<1>2. held[side]["out"] = 0 /\ held[Other(side)]["in"] = 0
  BY <1>1 DEF Pipelines, Busy
<1>3. Len(tcpIn[side]) = 0 /\ Len(frames[side]) = 0 /\ sent[side] \in Nat
  BY EmptySeq DEF Shape
<1>4. Given(side) = sent[side]
  BY <1>2, <1>3 DEF Given, Taken, Framed, Passed, One
<1>5. QED
  BY <1>4 DEF Pipelines, Pipeline, CaughtUp

\* When no goroutine can go on, either the tunnel is open and both directions are caught
\* up, or it is closed but for a side whose endpoint does not read: for every window.
THEOREM NeverStuckHolds == Spec => []NeverStuck
<1>1. ASSUME Shape, Pipelines, Sockets,
             \A side \in Sides : OutWaits(side) /\ InWaits(side)
      PROVE  \/ \A side \in Sides :
                  tcp[side] /\ ws[side] /\ (Reads(Other(side)) => CaughtUp(side))
             \/ \A side \in Sides : Gone(side) \/ Stays(side)
  <2> "out" \in Loops /\ "in" \in Loops
    BY DEF Loops
  <2>1. CASE \A side \in Sides, loop \in Loops : ~Over(side, loop)
    <3>1. ASSUME NEW side \in Sides
          PROVE  tcp[side] /\ ws[side]
      BY <1>1, <2>1 DEF InWaits, Sockets, Over
    <3>2. ASSUME NEW side \in Sides, Reads(Other(side))
          PROVE  CaughtUp(side)
      <4>1. Other(side) \in Sides /\ Other(Other(side)) = side
        BY OtherSide
      <4>2. pc[Other(side)]["in"] = "read" /\ frames[side] = <<>>
        BY <1>1, <2>1, <3>2, <4>1 DEF InWaits, Reads
      <4>3. Len(frames[side]) = 0 /\ Window > 0
        BY <4>2, BoundAssumption, EmptySeq
      <4>4. pc[side]["out"] = "read" /\ tcpIn[side] = <<>>
        BY <1>1, <2>1, <4>3, BoundAssumption DEF OutWaits
      <4>5. QED
        BY <1>1, <3>2, <4>2, <4>4, EmptyIsCaughtUp DEF Reads
    <3>3. QED
      BY <3>1, <3>2
  <2>2. CASE \E side \in Sides, loop \in Loops : Over(side, loop)
    <3>1. PICK side \in Sides : \E loop \in Loops : Over(side, loop)
      BY <2>2
    <3>2. ASSUME NEW s \in Sides, ~tcp[s]
          PROVE  Gone(s)
      BY <1>1, <3>2 DEF OutWaits, InWaits, Sockets, Gone, Loops
    <3>3. Gone(side)
      BY <1>1, <3>1, <3>2 DEF Sockets
    <3>4. Gone(Other(side)) \/ Stays(Other(side))
      <4>1. Other(side) \in Sides /\ Other(Other(side)) = side
        BY OtherSide
      <4>2. CASE Over(Other(side), "in")
        BY <1>1, <3>2, <4>1, <4>2 DEF Sockets
      <4>3. CASE ~Over(Other(side), "in")
        BY <1>1, <3>3, <4>1, <4>3 DEF InWaits, Gone, Sockets, Stays
      <4>4. QED
        BY <4>2, <4>3
    <3>5. \A s \in Sides : s = side \/ s = Other(side)
      BY DEF Sides, Other
    <3>6. QED
      BY <3>3, <3>4, <3>5
  <2>3. QED
    BY <2>1, <2>2
<1>2. Shape /\ Pipelines /\ Sockets => NeverStuck
  BY <1>1 DEF NeverStuck
<1>3. QED
  BY <1>2, PipelinesHold, SocketsHold, PTL

-----------------------------------------------------------------------------
(***************************************************************************)
(* The tunnel is a connection.                                             *)
(***************************************************************************)

\* No socket holds more than its window.
Windows ==
  \A side \in Sides : Len(tcpIn[side]) <= Window /\ Len(frames[side]) <= Window

LEMMA LongerQueue ==
  ASSUME NEW q \in Seq(Nat), NEW x \in Nat, Len(q) < Window
  PROVE  Len(Append(q, x)) <= Window
<1>1. Len(q) \in Nat /\ Window \in Nat /\ Len(Append(q, x)) = Len(q) + 1
  BY BoundAssumption
<1>2. QED
  BY <1>1

LEMMA ShorterQueue ==
  ASSUME NEW q \in Seq(Nat), q # <<>>, Len(q) <= Window
  PROVE  Len(Tail(q)) <= Window
<1>1. Len(q) \in Nat /\ Window \in Nat /\ Len(Tail(q)) = Len(q) - 1
  BY BoundAssumption, EmptySeq
<1>2. QED
  BY <1>1

LEMMA WindowsStep ==
  ASSUME Shape, Windows, [Next]_vars
  PROVE  Windows'
<1> "out" \in Loops /\ "in" \in Loops
  BY DEF Loops
<1>1. CASE UNCHANGED <<tcpIn, frames>>
  BY <1>1 DEF Windows
<1>2. ASSUME NEW side \in Sides, Write(side)
      PROVE  Windows'
  <2>1. sent[side] + 1 \in Nat /\ tcpIn[side] \in Seq(Nat)
    BY DEF Shape
  <2>2. Len(Append(tcpIn[side], sent[side] + 1)) <= Window
    BY <1>2, <2>1, LongerQueue DEF Write
  <2>3. \A s \in Sides : tcpIn'[s] = IF s = side THEN Append(tcpIn[side], sent[side] + 1)
                                    ELSE tcpIn[s]
    BY <1>2 DEF Write, Shape
  <2>4. frames' = frames
    BY <1>2 DEF Write
  <2>5. QED
    BY <2>2, <2>3, <2>4 DEF Windows
<1>3. ASSUME NEW side \in Sides, ReadTCP(side)
      PROVE  Windows'
  <2>1. CASE tcpIn[side] # <<>> /\ tcpIn' = [tcpIn EXCEPT ![side] = Tail(@)]
    <3>1. tcpIn[side] \in Seq(Nat) /\ Len(tcpIn[side]) <= Window
      BY DEF Shape, Windows
    <3>2. Len(Tail(tcpIn[side])) <= Window
      BY <2>1, <3>1, ShorterQueue
    <3>3. \A s \in Sides : tcpIn'[s] = IF s = side THEN Tail(tcpIn[side]) ELSE tcpIn[s]
      BY <2>1 DEF Shape
    <3>4. frames' = frames
      BY <1>3 DEF ReadTCP
    <3>5. QED
      BY <3>2, <3>3, <3>4 DEF Windows
  <2>2. CASE UNCHANGED tcpIn
    BY <1>1, <1>3, <2>2 DEF ReadTCP
  <2>3. QED
    BY <1>3, <2>1, <2>2 DEF ReadTCP
<1>4. ASSUME NEW side \in Sides, WriteFrame(side)
      PROVE  Windows'
  <2>1. CASE /\ Len(frames[side]) < Window
             /\ frames' = [frames EXCEPT ![side] = Append(@, held[side]["out"])]
    <3>1. frames[side] \in Seq(Nat) /\ held[side]["out"] \in Nat
      BY DEF Shape
    <3>2. Len(Append(frames[side], held[side]["out"])) <= Window
      BY <2>1, <3>1, LongerQueue
    <3>3. \A s \in Sides : frames'[s] = IF s = side THEN Append(frames[side], held[side]["out"])
                                       ELSE frames[s]
      BY <2>1 DEF Shape
    <3>4. tcpIn' = tcpIn
      BY <1>4 DEF WriteFrame
    <3>5. QED
      BY <3>2, <3>3, <3>4 DEF Windows
  <2>2. CASE UNCHANGED frames
    BY <1>1, <1>4, <2>2 DEF WriteFrame
  <2>3. QED
    BY <1>4, <2>1, <2>2 DEF WriteFrame
<1>5. ASSUME NEW side \in Sides, ReadFrame(side)
      PROVE  Windows'
  <2> DEFINE o == Other(side)
  <2>1. o \in Sides
    BY OtherSide
  <2>2. CASE frames[o] # <<>> /\ frames' = [frames EXCEPT ![o] = Tail(@)]
    <3> HIDE DEF o
    <3>1. frames[o] \in Seq(Nat) /\ Len(frames[o]) <= Window
      BY <2>1 DEF Shape, Windows
    <3>2. Len(Tail(frames[o])) <= Window
      BY <2>2, <3>1, ShorterQueue
    <3>3. \A s \in Sides : frames'[s] = IF s = o THEN Tail(frames[o]) ELSE frames[s]
      BY <2>2 DEF Shape
    <3>4. tcpIn' = tcpIn
      BY <1>5 DEF ReadFrame
    <3>5. QED
      BY <3>2, <3>3, <3>4 DEF Windows
  <2>3. CASE UNCHANGED frames
    BY <1>1, <1>5, <2>3 DEF ReadFrame
  <2>4. QED
    BY <1>5, <2>2, <2>3 DEF ReadFrame
<1>6. ASSUME NEW side \in Sides,
             Shut(side) \/ Close(side) \/ Stall(side) \/ WriteTCP(side) \/ Kill(side)
      PROVE  Windows'
  BY <1>1, <1>6 DEF Shut, Close, Stall, WriteTCP, Kill, data
<1>7. ASSUME NEW side \in Sides, NEW loop \in Loops, Break(side, loop)
      PROVE  Windows'
  BY <1>1, <1>7 DEF Break, data
<1>8. QED
  BY <1>1, <1>2, <1>3, <1>4, <1>5, <1>6, <1>7 DEF Next, Out, In, vars

LEMMA WindowsHold == Spec => []Windows
<1>1. Init => Windows
  <2>1. Len(<<>>) = 0 /\ Window \in Nat
    BY EmptySeq, BoundAssumption
  <2>2. QED
    BY <2>1 DEF Init, Windows
<1>2. Shape /\ Windows /\ [Next]_vars => Windows'
  BY WindowsStep
<1>3. QED
  BY <1>1, <1>2, PipelinesHold, PTL DEF Spec

\* What is between the two endpoints is in two sockets and in two loops.
LEMMA OnTheWay ==
  ASSUME Shape, Pipelines, Windows, NEW side \in Sides, endpoint[Other(side)] # "closed"
  PROVE  sent[side] - Len(received[Other(side)]) <= Len(tcpIn[side]) + Window + 2
<1>1. /\ Passed(side) \in Int /\ Framed(side) \in Int
      /\ Taken(side) \in Int /\ Given(side) \in Int
      /\ Len(tcpIn[side]) \in Nat /\ Len(frames[side]) \in Nat
      /\ sent[side] \in Nat /\ Window \in Nat
  BY Counts, BoundAssumption DEF Shape
<1>2. One(held[side]["out"]) \in {0, 1} /\ One(held[Other(side)]["in"]) \in {0, 1}
  BY DEF One
<1>3. Passed(side) = sent[side] - Len(tcpIn[side])
  BY DEF Passed
<1>4. Framed(side) >= Passed(side) - 1
  BY <1>1, <1>2 DEF Framed
<1>5. Taken(side) >= Framed(side) - Window
  BY <1>1 DEF Taken, Windows
<1>6. Given(side) >= Taken(side) - 1
  BY <1>1, <1>2 DEF Given
<1>7. Len(received[Other(side)]) = Given(side)
  BY DEF Pipelines, Pipeline
<1>8. QED
  BY <1>1, <1>3, <1>4, <1>5, <1>6, <1>7

LEMMA ConnectionStep ==
  ASSUME Shape, Pipelines, Windows, [Next]_vars
  PROVE  [Ends!Next]_(Ends!vars)
<1> USE DEF Ends!vars
<1>1. Ends!Sides = Sides /\ \A side \in Sides : Ends!Other(side) = Other(side)
  BY DEF Ends!Sides, Sides, Ends!Other, Other
<1>2. ASSUME NEW side \in Sides, Write(side)
      PROVE  Ends!Write(side)
  <2> DEFINE r == received[Other(side)]
  <2>1. CASE endpoint[Other(side)] = "closed"
    BY <1>1, <1>2, <2>1 DEF Write, Ends!Write
  <2>2. CASE endpoint[Other(side)] # "closed"
    <3>1. sent[side] - Len(r) <= Len(tcpIn[side]) + Window + 2
      BY <2>2, OnTheWay
    <3>2. Len(tcpIn[side]) < Window
      BY <1>2 DEF Write
    <3>3. /\ Len(r) \in Nat /\ Len(tcpIn[side]) \in Nat
          /\ sent[side] \in Nat /\ Window \in Nat
      BY Counts, BoundAssumption DEF Shape
    <3> HIDE DEF r
    <3>4. sent[side] - Len(r) < 2 * Window + 2
      BY <3>1, <3>2, <3>3
    <3> USE DEF r
    <3>5. QED
      BY <1>1, <1>2, <3>4 DEF Write, Ends!Write
  <2>3. QED
    BY <2>1, <2>2
<1>3. ASSUME NEW side \in Sides, Shut(side) \/ Close(side) \/ Stall(side)
      PROVE  Ends!Shut(side) \/ Ends!Close(side) \/ Ends!Stall(side)
  BY <1>3 DEF Shut, Close, Stall, data, Ends!Shut, Ends!Close, Ends!Stall
<1>4. ASSUME NEW side \in Sides, WriteTCP(side)
      PROVE  Ends!Deliver(side) \/ UNCHANGED Ends!vars
  <2> DEFINE o == Other(side)
  <2>1. o \in Sides /\ Other(o) = side /\ "in" \in Loops
    BY OtherSide DEF Loops
  <2> HIDE DEF o
  <2>2. CASE /\ endpoint[side] # "closed" /\ ~stalled[side]
             /\ received' = [received EXCEPT ![side] = Append(@, held[side]["in"])]
    <3>1. held[side]["in"] # 0 /\ held[side]["in"] = Taken(o)
      BY <1>4, <2>1 DEF WriteTCP, Pipelines, Busy, Pipeline
    <3>2. Len(received[side]) = Given(o)
      BY <2>1, <2>2 DEF Pipelines, Pipeline
    <3>3. /\ Taken(o) \in Int /\ Framed(o) \in Int /\ Passed(o) \in Int
          /\ Taken(o) <= Framed(o) /\ Framed(o) <= Passed(o) /\ Passed(o) <= sent[o]
          /\ sent[o] \in Nat
      BY <2>1, Counts DEF Shape
    <3>4. Given(o) = Taken(o) - 1
      BY <2>1, <3>1 DEF Given, One
    <3>5. held[side]["in"] = Len(received[side]) + 1 /\ Len(received[side]) < sent[o]
      BY <3>1, <3>2, <3>3, <3>4
    <3>6. received' = [received EXCEPT ![side] = Append(@, Len(@) + 1)]
      BY <2>2, <3>5
    <3>7. UNCHANGED <<sent, endpoint, stalled>>
      BY <1>4 DEF WriteTCP, ends
    <3>8. QED
      BY <1>1, <2>2, <3>5, <3>6, <3>7 DEF Ends!Deliver, o
  <2>3. CASE UNCHANGED received
    BY <1>4, <2>3 DEF WriteTCP, ends
  <2>4. QED
    BY <1>4, <2>2, <2>3 DEF WriteTCP
<1>5. ASSUME NEW side \in Sides, Out(side) \/ ReadFrame(side) \/ Kill(side)
      PROVE  UNCHANGED Ends!vars
  BY <1>5 DEF Out, ReadTCP, WriteFrame, ReadFrame, Kill, ends, data
<1>6. ASSUME NEW side \in Sides, NEW loop \in Loops, Break(side, loop)
      PROVE  UNCHANGED Ends!vars
  BY <1>6 DEF Break, ends, data
<1>7. CASE UNCHANGED vars
  BY <1>7 DEF vars
<1>8. QED
  BY <1>1, <1>2, <1>3, <1>4, <1>5, <1>6, <1>7 DEF Next, In, Ends!Next

\* The three sockets and four goroutines implement a connection that holds 2 * Window + 2
\* chunks, whatever the window: a step of the tunnel is a step of the connection or changes
\* nothing that the endpoints see.
THEOREM ConnectionImplemented == Spec => ImplementsConnection
<1>1. Init => Ends!Init
  BY DEF Init, Ends!Init, Ends!Sides, Sides
<1>2. Shape /\ Pipelines /\ Windows /\ [Next]_vars => [Ends!Next]_(Ends!vars)
  BY ConnectionStep
<1>3. QED
  BY <1>1, <1>2, PipelinesHold, WindowsHold, PTL DEF Spec, ImplementsConnection, Ends!Spec

=============================================================================
