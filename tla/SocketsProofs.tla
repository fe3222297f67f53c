----------------------------- MODULE SocketsProofs -----------------------------
(***************************************************************************)
(* The safety invariants of Sockets, for any number of connections and     *)
(* descriptors and any calls that fail: a running connection keeps its     *)
(* descriptor, a freed one is over and leaves nothing, CLOSE is the last   *)
(* of a connection, and sockets_open is the number of connections.         *)
(***************************************************************************)
EXTENDS ConnectionMap, FiniteSetTheorems, TLAPS

-------------------------------------------------------------------------------
(* Sequences. *)

QueueBlock == [kind : {"accept", "open", "data", "close"}, conn : Conn, fd : Fd \cup {0, -1}]

LEMMA AppendAt ==
  ASSUME NEW S, NEW q \in Seq(S), NEW b \in S
  PROVE  /\ Append(q, b) \in Seq(S) /\ Len(q) \in Nat
         /\ DOMAIN q = 1..Len(q) /\ DOMAIN Append(q, b) = 1..Len(q) + 1
         /\ Len(Append(q, b)) = Len(q) + 1
         /\ \A i \in 1..Len(q) : Append(q, b)[i] = q[i] /\ q[i] \in S
         /\ Append(q, b)[Len(q) + 1] = b
OBVIOUS

LEMMA TailAt ==
  ASSUME NEW S, NEW q \in Seq(S), q # <<>>
  PROVE  /\ Tail(q) \in Seq(S) /\ Len(q) \in Nat /\ Len(q) > 0
         /\ DOMAIN q = 1..Len(q) /\ DOMAIN Tail(q) = 1..Len(q) - 1
         /\ Len(Tail(q)) = Len(q) - 1
         /\ \A i \in 1..Len(q) - 1 : Tail(q)[i] = q[i + 1]
         /\ \A i \in 1..Len(q) : q[i] \in S
         /\ Head(q) = q[1]
OBVIOUS

LEMMA NotEmpty ==
  ASSUME NEW S, NEW q \in Seq(S), Len(q) # 0
  PROVE  q # <<>>
OBVIOUS

LEMMA ConcatAt ==
  ASSUME NEW S, NEW p \in Seq(S), NEW q \in Seq(S)
  PROVE  /\ p \o q \in Seq(S) /\ Len(p \o q) = Len(p) + Len(q)
         /\ Len(p) \in Nat /\ Len(q) \in Nat
         /\ \A i \in 1..Len(p) : (p \o q)[i] = p[i]
         /\ \A i \in Len(p) + 1..Len(p) + Len(q) : (p \o q)[i] = q[i - Len(p)]
OBVIOUS

-------------------------------------------------------------------------------
(***************************************************************************)
(* What a thread has to do: clearing follows closing, and only that.       *)
(***************************************************************************)
Shape(q) ==
  \A i \in 1..Len(q) :
    /\ q[i] = "close" => i < Len(q) /\ q[i + 1] = "clear"
    /\ q[i] = "fclose" => i < Len(q) /\ q[i + 1] = "null"
    /\ q[i] = "clear" /\ i > 1 => q[i - 1] = "close"

\* It does not begin with the clearing.
Fresh(q) == q # <<>> => q[1] # "clear"

LEMMA ShapeTail ==
  ASSUME NEW q \in Seq(Step), q # <<>>, Shape(q)
  PROVE  /\ Tail(q) \in Seq(Step) /\ Shape(Tail(q))
         /\ q[1] # "close" => Fresh(Tail(q))
         /\ q[1] = "close" => Tail(q) # <<>> /\ Tail(q)[1] = "clear"
         /\ q[1] = "fclose" => Tail(q) # <<>> /\ Tail(q)[1] = "null"
<1>1. /\ Tail(q) \in Seq(Step) /\ Len(q) \in Nat /\ Len(q) > 0 /\ Len(Tail(q)) = Len(q) - 1
      /\ \A i \in 1..Len(q) - 1 : Tail(q)[i] = q[i + 1]
  BY TailAt
<1>2. Shape(Tail(q))
  <2> SUFFICES ASSUME NEW i \in 1..Len(Tail(q))
               PROVE  /\ Tail(q)[i] = "close" => i < Len(Tail(q)) /\ Tail(q)[i + 1] = "clear"
                      /\ Tail(q)[i] = "fclose" => i < Len(Tail(q)) /\ Tail(q)[i + 1] = "null"
                      /\ Tail(q)[i] = "clear" /\ i > 1 => Tail(q)[i - 1] = "close"
    BY DEF Shape
  <2>1. i + 1 \in 1..Len(q) /\ Tail(q)[i] = q[i + 1]
    BY <1>1
  <2>2. /\ q[i + 1] = "close" => i + 1 < Len(q) /\ q[i + 1 + 1] = "clear"
        /\ q[i + 1] = "fclose" => i + 1 < Len(q) /\ q[i + 1 + 1] = "null"
        /\ q[i + 1] = "clear" => q[i + 1 - 1] = "close"
    BY <2>1 DEF Shape
  <2> QED
    BY <1>1, <2>1, <2>2
<1>3. ASSUME Tail(q) # <<>> PROVE 2 \in 1..Len(q) /\ 1 \in 1..Len(q) - 1 /\ Tail(q)[1] = q[2]
  BY <1>1, <1>3
<1>4. q[1] # "close" => Fresh(Tail(q))
  <2>1. 2 \in 1..Len(q) /\ q[2] = "clear" => q[1] = "close"
    BY DEF Shape
  <2> QED
    BY <1>3, <2>1 DEF Fresh
<1>5. q[1] = "close" => Tail(q) # <<>> /\ Tail(q)[1] = "clear"
  <2>1. 1 \in 1..Len(q)
    BY <1>1
  <2>2. q[1] = "close" => 1 < Len(q) /\ q[1 + 1] = "clear"
    BY <2>1 DEF Shape
  <2>3. ASSUME 1 < Len(q) PROVE Tail(q) # <<>> /\ Tail(q)[1] = q[2]
    <3>1. 1 \in 1..Len(q) - 1 /\ Len(Tail(q)) # 0 /\ 1 + 1 = 2
      BY <1>1, <2>3
    <3>2. Tail(q)[1] = q[2]
      BY <1>1, <3>1
    <3>3. Tail(q) # <<>>
      BY <1>1, <3>1, NotEmpty
    <3> QED
      BY <3>2, <3>3
  <2> QED
    BY <2>2, <2>3
<1>6. q[1] = "fclose" => Tail(q) # <<>> /\ Tail(q)[1] = "null"
  <2>1. 1 \in 1..Len(q)
    BY <1>1
  <2>2. q[1] = "fclose" => 1 < Len(q) /\ q[1 + 1] = "null"
    BY <2>1 DEF Shape
  <2>3. ASSUME 1 < Len(q) PROVE Tail(q) # <<>> /\ Tail(q)[1] = q[2]
    <3>1. 1 \in 1..Len(q) - 1 /\ Len(Tail(q)) # 0 /\ 1 + 1 = 2
      BY <1>1, <2>3
    <3>2. Tail(q)[1] = q[2]
      BY <1>1, <3>1
    <3>3. Tail(q) # <<>>
      BY <1>1, <3>1, NotEmpty
    <3> QED
      BY <3>2, <3>3
  <2> QED
    BY <2>2, <2>3
<1> QED
  BY <1>1, <1>2, <1>4, <1>5, <1>6

LEMMA ShapeConcat ==
  ASSUME NEW p \in Seq(Step), NEW q \in Seq(Step), Shape(p), Shape(q), Fresh(p), Fresh(q)
  PROVE  p \o q \in Seq(Step) /\ Shape(p \o q) /\ Fresh(p \o q)
<1>1. /\ p \o q \in Seq(Step) /\ Len(p \o q) = Len(p) + Len(q)
      /\ Len(p) \in Nat /\ Len(q) \in Nat
      /\ \A i \in 1..Len(p) : (p \o q)[i] = p[i]
      /\ \A i \in Len(p) + 1..Len(p) + Len(q) : (p \o q)[i] = q[i - Len(p)]
  BY ConcatAt
<1>2. Shape(p \o q)
  <2> SUFFICES ASSUME NEW i \in 1..Len(p \o q)
               PROVE  /\ (p \o q)[i] = "close" => i < Len(p \o q) /\ (p \o q)[i + 1] = "clear"
                      /\ (p \o q)[i] = "fclose" => i < Len(p \o q) /\ (p \o q)[i + 1] = "null"
                      /\ (p \o q)[i] = "clear" /\ i > 1 => (p \o q)[i - 1] = "close"
    BY DEF Shape
  <2>1. CASE i \in 1..Len(p)
    <3>1. /\ p[i] = "close" => i < Len(p) /\ p[i + 1] = "clear"
          /\ p[i] = "fclose" => i < Len(p) /\ p[i + 1] = "null"
          /\ p[i] = "clear" /\ i > 1 => p[i - 1] = "close"
      BY <2>1 DEF Shape
    <3> QED
      BY <1>1, <2>1, <3>1
  <2>2. CASE i \in Len(p) + 1..Len(p) + Len(q)
    <3> DEFINE k == i - Len(p)
    <3>1. k \in 1..Len(q) /\ (p \o q)[i] = q[k]
      BY <1>1, <2>2
    <3>2. /\ q[k] = "close" => k < Len(q) /\ q[k + 1] = "clear"
          /\ q[k] = "fclose" => k < Len(q) /\ q[k + 1] = "null"
          /\ q[k] = "clear" /\ k > 1 => q[k - 1] = "close"
      BY <3>1 DEF Shape
    <3>3. q[1] # "clear"
      BY <1>1, <3>1 DEF Fresh
    <3>4. ASSUME q[k] = "close" PROVE i < Len(p \o q) /\ (p \o q)[i + 1] = "clear"
      <4>1. i + 1 \in Len(p) + 1..Len(p) + Len(q) /\ i + 1 - Len(p) = k + 1 /\ i < Len(p) + Len(q)
        BY <1>1, <2>2, <3>2, <3>4
      <4> QED
        BY <1>1, <3>2, <3>4, <4>1
    <3>5. ASSUME q[k] = "clear" PROVE (p \o q)[i - 1] = "close"
      <4>1. k # 1
        BY <3>3, <3>5
      <4>2. i - 1 \in Len(p) + 1..Len(p) + Len(q) /\ i - 1 - Len(p) = k - 1 /\ k > 1
        BY <1>1, <2>2, <3>1, <4>1
      <4> QED
        BY <1>1, <3>2, <3>5, <4>2
    <3>6. ASSUME q[k] = "fclose" PROVE i < Len(p \o q) /\ (p \o q)[i + 1] = "null"
      <4>1. i + 1 \in Len(p) + 1..Len(p) + Len(q) /\ i + 1 - Len(p) = k + 1 /\ i < Len(p) + Len(q)
        BY <1>1, <2>2, <3>2, <3>6
      <4> QED
        BY <1>1, <3>2, <3>6, <4>1
    <3> QED
      BY <3>1, <3>4, <3>5, <3>6
  <2> QED
    BY <1>1, <2>1, <2>2
<1>3. Fresh(p \o q)
  <2>1. CASE p = <<>>
    <3>1. p \o q = q
      BY <2>1
    <3> QED
      BY <3>1
  <2>2. CASE p # <<>>
    <3>1. 1 \in 1..Len(p)
      BY <1>1, <2>2
    <3> QED
      BY <1>1, <2>2, <3>1 DEF Fresh
  <2> QED
    BY <2>1, <2>2
<1> QED
  BY <1>1, <1>2, <1>3

LEMMA SingleShape ==
  ASSUME NEW step \in Step \ {"close", "clear", "fclose"}
  PROVE  <<step>> \in Seq(Step) /\ Shape(<<step>>) /\ Fresh(<<step>>)
<1>1. <<step>> \in Seq(Step) /\ Len(<<step>>) = 1 /\ <<step>>[1] = step
  OBVIOUS
<1> QED
  BY <1>1 DEF Shape, Fresh

LEMMA OneToFour ==
  ASSUME NEW i \in 1..4
  PROVE  i = 1 \/ i = 2 \/ i = 3 \/ i = 4
OBVIOUS

LEMMA FourShape ==
  ASSUME NEW q, Len(q) = 4, q[1] = "close", q[2] = "clear", q[3] = "fclose", q[4] = "null"
  PROVE  Shape(q)
<1> SUFFICES ASSUME NEW i \in 1..4
             PROVE  /\ q[i] = "close" => i < 4 /\ q[i + 1] = "clear"
                    /\ q[i] = "fclose" => i < 4 /\ q[i + 1] = "null"
                    /\ q[i] = "clear" /\ i > 1 => q[i - 1] = "close"
  BY DEF Shape
<1>1. 1 + 1 = 2 /\ 2 - 1 = 1 /\ 3 + 1 = 4
  OBVIOUS
<1>2. CASE i = 1
  BY <1>1, <1>2
<1>3. CASE i = 2
  BY <1>1, <1>3
<1>4. CASE i = 3
  BY <1>1, <1>4
<1>5. CASE i = 4
  BY <1>5
<1> QED
  BY <1>2, <1>3, <1>4, <1>5, OneToFour

LEMMA StopAt ==
  /\ Stop \in Seq(Step) /\ Len(Stop) = 4
  /\ Stop[1] = "close" /\ Stop[2] = "clear" /\ Stop[3] = "fclose" /\ Stop[4] = "null"
BY DEF Stop, RecordClose, Step

\* The lists of steps that are begun.
LEMMA BegunShape ==
  ASSUME NEW p \in {<<>>, <<"wait">>, <<"record", "lines", "wait">>, RecordClose, Stop,
                    <<"reply">>, <<"record out">>, <<"bye">>}
  PROVE  p \in Seq(Step) /\ Shape(p) /\ Fresh(p)
<1>1. CASE p = <<>>
  BY <1>1 DEF Shape, Fresh
<1>2. CASE p \in {<<"wait">>, <<"reply">>, <<"record out">>, <<"bye">>}
  <2>1. {"wait", "reply", "record out", "bye"} \subseteq Step \ {"close", "clear", "fclose"}
    BY DEF Step
  <2> QED
    BY <1>2, <2>1, SingleShape
<1>3. CASE p = <<"record", "lines", "wait">>
  BY <1>3 DEF Shape, Fresh, Step
<1>4. CASE p = RecordClose
  BY <1>4 DEF Shape, Fresh, Step, RecordClose
<1>5. CASE p = Stop
  <2>1. Fresh(Stop)
    BY StopAt DEF Fresh
  <2>2. Shape(Stop)
    BY StopAt, FourShape
  <2> QED
    BY <1>5, <2>1, <2>2, StopAt
<1> QED
  BY <1>1, <1>2, <1>3, <1>4, <1>5

-------------------------------------------------------------------------------
(***************************************************************************)
(* The inductive invariant.                                                *)
(***************************************************************************)
\* A connection goes from nothing to a channel, to its cleanup, to being freed.
LifeInv ==
  \A c \in Conn :
    /\ sock[c].mem = "none" => sock[c].channel = "NULL"
    /\ sock[c].channel = "NULL" => \A t \in Threads : thread[c][t] = <<>>
    /\ clean[c].at # "none" => sock[c].channel = "closed" /\ thread[c]["read"] = <<>>
    /\ sock[c].mem = "freed" => clean[c].at # "none"

\* Each is accepted once.
AcceptInv ==
  main.at = "count" =>
    main.conn \in Conn /\ sock[main.conn].channel = "NULL" /\ sock[main.conn].mem = "live"

OnceInv ==
  /\ \A i \in 1..Len(handlerQ) :
       handlerQ[i].kind = "accept" => sock[handlerQ[i].conn].mem = "none"
  /\ \A i, j \in 1..Len(handlerQ) :
       handlerQ[i].kind = "accept" /\ handlerQ[j].kind = "accept"
       /\ handlerQ[i].conn = handlerQ[j].conn => i = j

\* A connection stopped in time was told of, and nothing comes after its cleanup.
EarlyInv ==
  "early" \in hist \/
    \A c \in Conn : sock[c].channel = "closed" =>
      ~Unopened(c) /\ (clean[c].at # "none" => thread[c]["write"] = <<>>)

\* Closing comes before clearing, and both before the channel is reopened.
ShapeInv ==
  \A c \in Conn :
    /\ \A t \in Threads : Shape(thread[c][t])
    /\ sock[c].channel = "open" =>
         sock[c].socketfd \in Fd /\ \A t \in Threads : Fresh(thread[c][t])

\* A descriptor is that of the connection that has it, or is closed and not
\* cleared yet.
OwnerInv ==
  "overlap" \in hist \/
    /\ \A c \in Conn : sock[c].socketfd \in Fd =>
         \/ owner[sock[c].socketfd] = c
         \/ \E t \in Threads : ~Fresh(thread[c][t])
    /\ \A i \in 1..Len(handlerQ) :
         handlerQ[i].kind = "accept" /\ handlerQ[i].fd \in Fd => owner[handlerQ[i].fd] = handlerQ[i].conn

SocketsInv ==
  /\ TypeOK
  /\ LifeInv
  /\ AcceptInv
  /\ OnceInv
  /\ EarlyInv
  /\ ShapeInv
  /\ OwnerInv
  /\ CloseIsLast

LEMMA InvImplies == SocketsInv => DescriptorKept /\ FreedIsOver
<1> SUFFICES ASSUME SocketsInv PROVE DescriptorKept /\ FreedIsOver
  OBVIOUS
<1>1. DescriptorKept
  BY DEF SocketsInv, ShapeInv, OwnerInv, DescriptorKept
<1>2. FreedIsOver
  <2> SUFFICES ASSUME "early" \notin hist, NEW c \in Conn, sock[c].mem = "freed"
               PROVE  ~Unopened(c) /\ \A t \in Threads : thread[c][t] = <<>>
    BY DEF FreedIsOver
  <2>1. clean[c].at # "none" /\ sock[c].channel = "closed" /\ thread[c]["read"] = <<>>
    BY DEF SocketsInv, LifeInv
  <2>2. ~Unopened(c) /\ thread[c]["write"] = <<>>
    BY <2>1 DEF SocketsInv, EarlyInv
  <2> QED
    BY <2>1, <2>2 DEF Threads
<1> QED
  BY <1>1, <1>2

LEMMA CreatedType ==
  ASSUME NEW fd \in Fd \cup {0, -1}
  PROVE  /\ Created(fd) \in SocketState /\ Created(fd).mem = "live" /\ Created(fd).channel = "NULL"
         /\ Created(fd).socketfd = fd
BY DEF Created, SocketState

LEMMA FdNat == 0 \notin Fd /\ -1 \notin Fd
BY SocketsAssumption

LEMMA InitSockets == Init => SocketsInv
<1> SUFFICES ASSUME Init PROVE SocketsInv
  OBVIOUS
<1>1. [Created(0) EXCEPT !.mem = "none"] \in SocketState
      /\ [Created(0) EXCEPT !.mem = "none"].channel = "NULL"
      /\ [Created(0) EXCEPT !.mem = "none"].socketfd = 0
      /\ [Created(0) EXCEPT !.mem = "none"].mem = "none"
  BY DEF Created, SocketState
<1>2. \A c \in Conn : /\ sock[c].channel = "NULL" /\ sock[c].socketfd = 0 /\ sock[c].mem = "none"
                      /\ clean[c].at = "none" /\ \A t \in Threads : thread[c][t] = <<>>
  BY <1>1 DEF Init
<1>3. TypeOK
  <2>1. handlerQ \in Seq(QueueBlock) /\ <<>> \in Seq(Step)
    BY DEF Init
  <2>2. main \in [conn : Conn \cup {NoConn}, at : {"none", "count", "banner"}, seen : Int]
    BY DEF Init, Idle
  <2>3. thread \in [Conn -> [Threads -> Seq(Step)]] /\ sock \in [Conn -> SocketState]
    BY <1>1, <2>1 DEF Init
  <2>4. clean \in [Conn -> [at : {"none", "count", "done"}, seen : Int]]
    BY DEF Init
  <2>5. owner \in [Fd -> Conn \cup {NoConn}]
    BY DEF Init
  <2>6. server \in {"created", "listening", "deaf"} /\ open \in Int /\ hist \subseteq History
    BY DEF Init
  <2>8. dead \in BOOLEAN
    BY Zenon DEF Init
  <2>7. handlerQ \in Seq([kind : {"accept", "open", "data", "close"}, conn : Conn, fd : Fd \cup {0, -1}])
    BY <2>1 DEF QueueBlock
  <2> QED
    BY <2>2, <2>3, <2>4, <2>5, <2>6, <2>7, <2>8 DEF TypeOK
<1>4. LifeInv /\ EarlyInv
  BY <1>2 DEF LifeInv, EarlyInv
<1>5. handlerQ = <<>> /\ Len(handlerQ) = 0 /\ main.at = "none"
  BY DEF Init, Idle
<1>6. AcceptInv /\ OnceInv /\ CloseIsLast
  BY <1>5 DEF AcceptInv, OnceInv, CloseIsLast
<1>7. ShapeInv
  BY <1>2 DEF ShapeInv, Shape
<1>8. OwnerInv
  BY <1>2, <1>5, FdNat DEF OwnerInv
<1> QED
  BY <1>3, <1>4, <1>6, <1>7, <1>8 DEF SocketsInv

-------------------------------------------------------------------------------
(* The handler queue. *)

LEMMA QueueAt ==
  ASSUME TypeOK
  PROVE  /\ handlerQ \in Seq(QueueBlock) /\ Len(handlerQ) \in Nat
         /\ \A i \in 1..Len(handlerQ) : handlerQ[i] \in QueueBlock
<1>1. handlerQ \in Seq(QueueBlock)
  BY DEF TypeOK, QueueBlock
<1> QED
  BY <1>1

\* What is appended comes before the cleanup, or is CLOSE itself.
LEMMA AppendLast ==
  ASSUME TypeOK, CloseIsLast, NEW b \in QueueBlock, handlerQ' = Append(handlerQ, b),
         b.kind = "close" => b = Block("close", b.conn),
         b.kind # "close" => clean'[b.conn].at = "none",
         \A d \in Conn : clean'[d].at = "none" <=>
           (clean[d].at = "none" /\ ~(b.kind = "close" /\ b.conn = d))
  PROVE  CloseIsLast'
<1>0. handlerQ \in Seq(QueueBlock)
  BY DEF TypeOK, QueueBlock
<1>1. /\ Len(handlerQ) \in Nat /\ Len(handlerQ') = Len(handlerQ) + 1
      /\ DOMAIN handlerQ' = 1..Len(handlerQ) + 1 /\ DOMAIN handlerQ = 1..Len(handlerQ)
      /\ \A i \in 1..Len(handlerQ) : handlerQ'[i] = handlerQ[i] /\ handlerQ[i] \in QueueBlock
      /\ handlerQ'[Len(handlerQ) + 1] = b
  BY <1>0, AppendAt
<1> SUFFICES ASSUME NEW i \in DOMAIN handlerQ', clean'[handlerQ'[i].conn].at # "none",
                    handlerQ'[i].kind # "close"
             PROVE  \E j \in i+1..Len(handlerQ') : handlerQ'[j] = Block("close", handlerQ'[i].conn)
  BY DEF CloseIsLast
<1>2. i \in 1..Len(handlerQ) /\ handlerQ'[i] = handlerQ[i] /\ handlerQ[i].conn \in Conn
  BY <1>1 DEF QueueBlock
<1>3. CASE clean[handlerQ[i].conn].at # "none"
  <2>1. PICK j \in i+1..Len(handlerQ) : handlerQ[j] = Block("close", handlerQ[i].conn)
    BY <1>1, <1>2, <1>3 DEF CloseIsLast
  <2> QED
    BY <1>1, <1>2, <2>1
<1>4. CASE clean[handlerQ[i].conn].at = "none"
  <2>1. b = Block("close", handlerQ[i].conn)
    BY <1>2, <1>4
  <2> QED
    BY <1>1, <1>2, <2>1
<1> QED
  BY <1>3, <1>4

LEMMA TailLast ==
  ASSUME TypeOK, CloseIsLast, handlerQ # <<>>, handlerQ' = Tail(handlerQ), clean' = clean
  PROVE  CloseIsLast'
<1>1. /\ Len(handlerQ) \in Nat /\ Len(handlerQ') = Len(handlerQ) - 1
      /\ DOMAIN handlerQ' = 1..Len(handlerQ) - 1 /\ DOMAIN handlerQ = 1..Len(handlerQ)
      /\ \A i \in 1..Len(handlerQ) - 1 : handlerQ'[i] = handlerQ[i + 1]
  BY TailAt DEF TypeOK
<1> SUFFICES ASSUME NEW i \in DOMAIN handlerQ', clean[handlerQ'[i].conn].at # "none",
                    handlerQ'[i].kind # "close"
             PROVE  \E j \in i+1..Len(handlerQ') : handlerQ'[j] = Block("close", handlerQ'[i].conn)
  BY DEF CloseIsLast
<1>2. i + 1 \in 1..Len(handlerQ) /\ handlerQ'[i] = handlerQ[i + 1]
  BY <1>1
<1>3. PICK j \in i + 1 + 1..Len(handlerQ) : handlerQ[j] = Block("close", handlerQ[i + 1].conn)
  BY <1>1, <1>2 DEF CloseIsLast
<1>4. j - 1 \in i+1..Len(handlerQ') /\ j - 1 \in 1..Len(handlerQ) - 1 /\ j - 1 + 1 = j
  BY <1>1, <1>2, <1>3
<1> QED
  BY <1>1, <1>2, <1>3, <1>4

\* No block of these kinds is queued in addition.
QueueLess(kinds) ==
  /\ handlerQ' \in Seq(QueueBlock)
  /\ \E k \in {0, 1} : \A i \in 1..Len(handlerQ') :
       handlerQ'[i].kind \in kinds =>
         i + k \in 1..Len(handlerQ) /\ handlerQ'[i] = handlerQ[i + k]

LEMMA LessIfSame ==
  ASSUME TypeOK, handlerQ' = handlerQ, NEW kinds
  PROVE  QueueLess(kinds)
<1>1. handlerQ \in Seq(QueueBlock) /\ \A i \in 1..Len(handlerQ) : i + 0 = i
  BY QueueAt
<1> QED
  BY <1>1 DEF QueueLess

LEMMA LessIfTail ==
  ASSUME TypeOK, handlerQ # <<>>, handlerQ' = Tail(handlerQ), NEW kinds
  PROVE  QueueLess(kinds)
<1>1. handlerQ \in Seq(QueueBlock)
  BY QueueAt
<1>2. /\ handlerQ' \in Seq(QueueBlock) /\ Len(handlerQ) \in Nat /\ Len(handlerQ') = Len(handlerQ) - 1
      /\ \A i \in 1..Len(handlerQ) - 1 : handlerQ'[i] = handlerQ[i + 1]
  BY <1>1, TailAt
<1>3. \A i \in 1..Len(handlerQ') : i + 1 \in 1..Len(handlerQ) /\ handlerQ'[i] = handlerQ[i + 1]
  BY <1>2
<1> QED
  BY <1>2, <1>3 DEF QueueLess

LEMMA LessIfOther ==
  ASSUME TypeOK, NEW b \in QueueBlock, NEW kinds, b.kind \notin kinds, handlerQ' = Append(handlerQ, b)
  PROVE  QueueLess(kinds)
<1>1. handlerQ \in Seq(QueueBlock)
  BY QueueAt
<1>2. /\ handlerQ' \in Seq(QueueBlock) /\ Len(handlerQ) \in Nat /\ Len(handlerQ') = Len(handlerQ) + 1
      /\ \A i \in 1..Len(handlerQ) : handlerQ'[i] = handlerQ[i]
      /\ handlerQ'[Len(handlerQ) + 1] = b
  BY <1>1, AppendAt
<1>3. \A i \in 1..Len(handlerQ') :
        handlerQ'[i].kind \in kinds =>
          i + 0 \in 1..Len(handlerQ) /\ handlerQ'[i] = handlerQ[i + 0]
  <2> SUFFICES ASSUME NEW i \in 1..Len(handlerQ'), handlerQ'[i].kind \in kinds
               PROVE  i + 0 \in 1..Len(handlerQ) /\ handlerQ'[i] = handlerQ[i + 0]
    OBVIOUS
  <2>1. i # Len(handlerQ) + 1
    BY <1>2
  <2>2. i \in 1..Len(handlerQ) /\ i + 0 = i
    BY <1>2, <2>1
  <2> QED
    BY <1>2, <2>2
<1> QED
  BY <1>2, <1>3 DEF QueueLess

LEMMA LessOnce ==
  ASSUME OnceInv, NEW kinds, "accept" \in kinds, QueueLess(kinds), TypeOK,
         \A i \in 1..Len(handlerQ) : handlerQ[i].kind = "accept" /\ sock[handlerQ[i].conn].mem = "none"
           => sock'[handlerQ[i].conn].mem = "none"
  PROVE  OnceInv'
<1>1. PICK k \in {0, 1} : \A i \in 1..Len(handlerQ') :
        handlerQ'[i].kind \in kinds =>
          i + k \in 1..Len(handlerQ) /\ handlerQ'[i] = handlerQ[i + k]
  BY DEF QueueLess
<1>2. \A i \in 1..Len(handlerQ') : handlerQ'[i].kind = "accept" =>
        i + k \in 1..Len(handlerQ) /\ handlerQ'[i] = handlerQ[i + k]
  BY <1>1
<1>3. \A i \in 1..Len(handlerQ') : handlerQ'[i].kind = "accept" => sock'[handlerQ'[i].conn].mem = "none"
  BY <1>2 DEF OnceInv
<1>4. ASSUME NEW i \in 1..Len(handlerQ'), NEW j \in 1..Len(handlerQ'),
             handlerQ'[i].kind = "accept", handlerQ'[j].kind = "accept",
             handlerQ'[i].conn = handlerQ'[j].conn
      PROVE  i = j
  <2>1. i + k = j + k
    BY <1>2, <1>4 DEF OnceInv
  <2>2. i \in Int /\ j \in Int /\ k \in Int
    OBVIOUS
  <2> QED
    BY <2>1, <2>2
<1> QED
  BY <1>3, <1>4 DEF OnceInv

LEMMA LessOpen ==
  ASSUME NEW kinds, "open" \in kinds, QueueLess(kinds), TypeOK, NEW d \in Conn,
         main'.conn = d => main.conn = d, Unopened(d)'
  PROVE  Unopened(d)
<1>1. CASE main'.conn = d
  BY <1>1 DEF Unopened
<1>2. CASE \E i \in DOMAIN handlerQ' : handlerQ'[i] = Block("open", d)
  <2>1. PICK k \in {0, 1} : \A i \in 1..Len(handlerQ') :
          handlerQ'[i].kind \in kinds =>
            i + k \in 1..Len(handlerQ) /\ handlerQ'[i] = handlerQ[i + k]
    BY DEF QueueLess
  <2>2. DOMAIN handlerQ' = 1..Len(handlerQ') /\ DOMAIN handlerQ = 1..Len(handlerQ)
    BY QueueAt DEF QueueLess
  <2>3. PICK i \in 1..Len(handlerQ') : handlerQ'[i] = Block("open", d)
    BY <1>2, <2>2
  <2>4. Block("open", d).kind = "open"
    BY DEF Block
  <2>5. i + k \in 1..Len(handlerQ) /\ handlerQ[i + k] = Block("open", d)
    BY <2>1, <2>3, <2>4
  <2> QED
    BY <2>2, <2>5 DEF Unopened
<1> QED
  BY <1>1, <1>2 DEF Unopened

LEMMA LessOwned ==
  ASSUME NEW kinds, "accept" \in kinds, QueueLess(kinds), TypeOK, owner' = owner,
         \A i \in 1..Len(handlerQ) : handlerQ[i].kind = "accept" /\ handlerQ[i].fd \in Fd
           => owner[handlerQ[i].fd] = handlerQ[i].conn
  PROVE  \A i \in 1..Len(handlerQ') : handlerQ'[i].kind = "accept" /\ handlerQ'[i].fd \in Fd
           => owner'[handlerQ'[i].fd] = handlerQ'[i].conn
BY DEF QueueLess

-------------------------------------------------------------------------------
(***************************************************************************)
(* The threads.  Most steps leave thread t of connection c with less to do *)
(* or begin a list, and change neither its channel nor the queue.          *)
(***************************************************************************)
ThreadSet(c, t, q) ==
  /\ thread' \in [Conn -> [Threads -> Seq(Step)]]
  /\ thread'[c][t] = q
  /\ \A d \in Conn, u \in Threads : d # c \/ u # t => thread'[d][u] = thread[d][u]

LEMMA ThreadUpdate ==
  ASSUME TypeOK, NEW c \in Conn, NEW t \in Threads, NEW q \in Seq(Step),
         thread' = [thread EXCEPT ![c][t] = q]
  PROVE  /\ thread' \in [Conn -> [Threads -> Seq(Step)]]
         /\ thread'[c][t] = q
         /\ \A d \in Conn, u \in Threads : d # c \/ u # t => thread'[d][u] = thread[d][u]
<1>1. thread \in [Conn -> [Threads -> Seq(Step)]]
  BY DEF TypeOK
<1> DEFINE Steps == Seq(Step)
           row == [thread[c] EXCEPT ![t] = q]
<1>2. thread \in [Conn -> [Threads -> Steps]] /\ q \in Steps
  BY <1>1
<1> HIDE DEF Steps
<1>3. row \in [Threads -> Steps] /\ row[t] = q /\ \A u \in Threads \ {t} : row[u] = thread[c][u]
  BY <1>2
<1>4. thread' = [thread EXCEPT ![c] = row]
  BY <1>2
<1> HIDE DEF row
<1>5. /\ thread' \in [Conn -> [Threads -> Steps]] /\ thread'[c] = row
      /\ \A d \in Conn \ {c} : thread'[d] = thread[d]
  BY <1>2, <1>3, <1>4
<1>6. \A d \in Conn, u \in Threads : d # c \/ u # t => thread'[d][u] = thread[d][u]
  BY <1>3, <1>5
<1> QED
  BY <1>3, <1>5, <1>6 DEF Steps

LEMMA ThreadUpdated ==
  ASSUME TypeOK, NEW c \in Conn, NEW t \in Threads, NEW q \in Seq(Step),
         thread' = [thread EXCEPT ![c][t] = q]
  PROVE  ThreadSet(c, t, q)
BY ThreadUpdate DEF ThreadSet

LEMMA HeadIs ==
  ASSUME TypeOK, NEW c \in Conn, NEW t \in Threads, NEW step, At(c, t, step)
  PROVE  /\ thread[c][t] \in Seq(Step) /\ thread[c][t] # <<>> /\ thread[c][t][1] = step
         /\ Fresh(thread[c][t]) <=> step # "clear"
<1>1. thread[c][t] \in Seq(Step) /\ thread[c][t] # <<>> /\ Head(thread[c][t]) = step
  BY DEF At, TypeOK
<1>2. Head(thread[c][t]) = thread[c][t][1]
  BY <1>1, TailAt
<1> QED
  BY <1>1, <1>2 DEF Fresh

\* What is left to do after Does, and after skipping a step.
LEMMA DoesLeaves ==
  ASSUME SocketsInv, NEW c \in Conn, NEW t \in Threads, NEW step \in Step \ {"close"}, At(c, t, step),
         NEW p \in {<<>>, <<"wait">>, <<"record", "lines", "wait">>, RecordClose, Stop}
  PROVE  /\ p \o Tail(thread[c][t]) \in Seq(Step)
         /\ Shape(p \o Tail(thread[c][t])) /\ Fresh(p \o Tail(thread[c][t]))
<1>1. thread[c][t] \in Seq(Step) /\ thread[c][t] # <<>> /\ thread[c][t][1] = step
  BY HeadIs DEF SocketsInv
<1>2. Shape(thread[c][t])
  BY DEF SocketsInv, ShapeInv
<1>3. Tail(thread[c][t]) \in Seq(Step) /\ Shape(Tail(thread[c][t])) /\ Fresh(Tail(thread[c][t]))
  BY <1>1, <1>2, ShapeTail
<1>4. p \in Seq(Step) /\ Shape(p) /\ Fresh(p)
  BY BegunShape
<1> QED
  BY <1>3, <1>4, ShapeConcat

LEMMA Moves ==
  ASSUME SocketsInv, NEW c \in Conn, NEW t \in Threads, thread[c][t] # <<>>,
         thread' \in [Conn -> [Threads -> Seq(Step)]],
         \A d \in Conn, u \in Threads : d # c => thread'[d][u] = thread[d][u],
         \A u \in Threads : \/ thread'[c][u] = thread[c][u]
                            \/ /\ Shape(thread'[c][u]) /\ Fresh(thread'[c][u])
                               /\ u = t \/ clean[c].at = "none"
                               /\ Fresh(thread[c][u]) \/ sock'[c].socketfd = 0,
         sock' \in [Conn -> SocketState],
         \A d \in Conn : /\ sock'[d].mem = sock[d].mem /\ sock'[d].channel = sock[d].channel
                         /\ \/ sock'[d].socketfd = sock[d].socketfd
                            \/ sock'[d].socketfd = 0 /\ sock[d].channel # "open",
         UNCHANGED <<server, owner, clean, main, open>>,
         QueueLess({"accept", "open"}), CloseIsLast',
         dead' \in BOOLEAN, hist \subseteq hist', hist' \subseteq History
  PROVE  SocketsInv'
<1>1. TypeOK'
  BY DEF SocketsInv, TypeOK, QueueLess, QueueBlock
<1>2. TypeOK /\ owner' = owner /\ clean' = clean /\ main' = main
  BY DEF SocketsInv
<1>3. LifeInv'
  <2>1. sock[c].channel # "NULL" /\ (clean[c].at # "none" => t # "read") /\ "read" \in Threads
    BY DEF SocketsInv, LifeInv, Threads
  <2> SUFFICES ASSUME NEW d \in Conn
               PROVE  /\ sock'[d].mem = "none" => sock'[d].channel = "NULL"
                      /\ sock'[d].channel = "NULL" => \A u \in Threads : thread'[d][u] = <<>>
                      /\ clean'[d].at # "none" => sock'[d].channel = "closed" /\ thread'[d]["read"] = <<>>
                      /\ sock'[d].mem = "freed" => clean'[d].at # "none"
    BY DEF LifeInv
  <2>2. /\ sock[d].mem = "none" => sock[d].channel = "NULL"
        /\ sock[d].channel = "NULL" => \A u \in Threads : thread[d][u] = <<>>
        /\ clean[d].at # "none" => sock[d].channel = "closed" /\ thread[d]["read"] = <<>>
        /\ sock[d].mem = "freed" => clean[d].at # "none"
    BY DEF SocketsInv, LifeInv
  <2> QED
    BY <1>2, <2>1, <2>2
<1>4. AcceptInv'
  BY <1>2 DEF SocketsInv, AcceptInv
<1>5. OnceInv'
  <2>1. \A i \in 1..Len(handlerQ) : handlerQ[i].conn \in Conn
    BY <1>2, QueueAt DEF QueueBlock
  <2> QED
    BY <1>2, <2>1, LessOnce DEF SocketsInv
<1>6. EarlyInv'
  <2> SUFFICES ASSUME "early" \notin hist', NEW d \in Conn, sock'[d].channel = "closed"
               PROVE  ~Unopened(d)' /\ (clean'[d].at # "none" => thread'[d]["write"] = <<>>)
    BY DEF EarlyInv
  <2>1. ~Unopened(d) /\ (clean[d].at # "none" => thread[d]["write"] = <<>>)
    BY DEF SocketsInv, EarlyInv
  <2>2. ~Unopened(d)'
    BY <1>2, <2>1, LessOpen
  <2>3. "write" \in Threads
    BY DEF Threads
  <2> QED
    BY <1>2, <2>1, <2>2, <2>3
<1>7. ShapeInv'
  <2> SUFFICES ASSUME NEW d \in Conn
               PROVE  /\ \A u \in Threads : Shape(thread'[d][u])
                      /\ sock'[d].channel = "open" =>
                           sock'[d].socketfd \in Fd /\ \A u \in Threads : Fresh(thread'[d][u])
    BY DEF ShapeInv
  <2>1. /\ \A u \in Threads : Shape(thread[d][u])
        /\ sock[d].channel = "open" =>
             sock[d].socketfd \in Fd /\ \A u \in Threads : Fresh(thread[d][u])
    BY DEF SocketsInv, ShapeInv
  <2>2. \A u \in Threads : \/ thread'[d][u] = thread[d][u]
                           \/ Shape(thread'[d][u]) /\ Fresh(thread'[d][u])
    OBVIOUS
  <2> QED
    BY <2>1, <2>2
<1>8. OwnerInv'
  <2> SUFFICES ASSUME "overlap" \notin hist'
               PROVE  /\ \A d \in Conn : sock'[d].socketfd \in Fd =>
                           \/ owner'[sock'[d].socketfd] = d
                           \/ \E u \in Threads : ~Fresh(thread'[d][u])
                      /\ \A i \in 1..Len(handlerQ') :
                           handlerQ'[i].kind = "accept" /\ handlerQ'[i].fd \in Fd
                             => owner'[handlerQ'[i].fd] = handlerQ'[i].conn
    BY DEF OwnerInv
  <2>1. /\ \A d \in Conn : sock[d].socketfd \in Fd =>
             \/ owner[sock[d].socketfd] = d
             \/ \E u \in Threads : ~Fresh(thread[d][u])
        /\ \A i \in 1..Len(handlerQ) :
             handlerQ[i].kind = "accept" /\ handlerQ[i].fd \in Fd
               => owner[handlerQ[i].fd] = handlerQ[i].conn
    BY DEF SocketsInv, OwnerInv
  <2>2. \A i \in 1..Len(handlerQ') :
          handlerQ'[i].kind = "accept" /\ handlerQ'[i].fd \in Fd
            => owner'[handlerQ'[i].fd] = handlerQ'[i].conn
    BY <1>2, <2>1, LessOwned
  <2>3. ASSUME NEW d \in Conn, sock'[d].socketfd \in Fd
        PROVE  \/ owner'[sock'[d].socketfd] = d
               \/ \E u \in Threads : ~Fresh(thread'[d][u])
    <3>1. sock'[d].socketfd = sock[d].socketfd /\ sock'[d].socketfd # 0
      BY <2>3, FdNat
    <3>2. CASE owner[sock[d].socketfd] = d
      BY <1>2, <3>1, <3>2
    <3>3. CASE \E u \in Threads : ~Fresh(thread[d][u])
      <4>1. PICK u \in Threads : ~Fresh(thread[d][u])
        BY <3>3
      <4>2. thread'[d][u] = thread[d][u]
        BY <3>1, <4>1
      <4> QED
        BY <4>1, <4>2
    <3> QED
      BY <2>1, <2>3, <3>1, <3>2, <3>3
  <2> QED
    BY <2>2, <2>3
<1> QED
  BY <1>1, <1>3, <1>4, <1>5, <1>6, <1>7, <1>8 DEF SocketsInv

\* One thread moves, and nothing is queued.
LEMMA MovesAlone ==
  ASSUME SocketsInv, NEW c \in Conn, NEW t \in Threads, NEW step, At(c, t, step),
         NEW q \in Seq(Step), Shape(q), Fresh(q),
         thread' = [thread EXCEPT ![c][t] = q],
         sock' \in [Conn -> SocketState],
         \A d \in Conn : /\ sock'[d].mem = sock[d].mem /\ sock'[d].channel = sock[d].channel
                         /\ d # c \/ step # "clear" => sock'[d].socketfd = sock[d].socketfd,
         step = "clear" => sock'[c].socketfd = 0,
         UNCHANGED <<server, owner, clean, handlerQ, main, open>>,
         dead' \in BOOLEAN, hist \subseteq hist', hist' \subseteq History
  PROVE  SocketsInv'
<1>1. /\ thread' \in [Conn -> [Threads -> Seq(Step)]]
      /\ thread'[c][t] = q
      /\ \A d \in Conn, u \in Threads : d # c \/ u # t => thread'[d][u] = thread[d][u]
  <2>1. TypeOK
    BY DEF SocketsInv
  <2>2. ThreadSet(c, t, q)
    BY <2>1, ThreadUpdated, Zenon
  <2> QED
    BY <2>2 DEF ThreadSet
<1>2. thread[c][t] # <<>> /\ (Fresh(thread[c][t]) <=> step # "clear")
  BY HeadIs DEF SocketsInv
<1>3. sock[c].channel = "open" => step # "clear"
  BY <1>2 DEF SocketsInv, ShapeInv
<1>4. QueueLess({"accept", "open"})
  BY LessIfSame DEF SocketsInv
<1>5. CloseIsLast'
  BY DEF SocketsInv, CloseIsLast
<1>6. \A u \in Threads : \/ thread'[c][u] = thread[c][u]
                         \/ /\ Shape(thread'[c][u]) /\ Fresh(thread'[c][u])
                            /\ u = t \/ clean[c].at = "none"
                            /\ Fresh(thread[c][u]) \/ sock'[c].socketfd = 0
  BY <1>1, <1>2
<1>7. \A d \in Conn : /\ sock'[d].mem = sock[d].mem /\ sock'[d].channel = sock[d].channel
                      /\ \/ sock'[d].socketfd = sock[d].socketfd
                         \/ sock'[d].socketfd = 0 /\ sock[d].channel # "open"
  BY <1>3
<1> QED
  BY <1>1, <1>2, <1>4, <1>5, <1>6, <1>7, Moves

LEMMA NotedGrows ==
  ASSUME TypeOK, NEW what \in History, NEW happens, hist' = Noted(what, happens)
  PROVE  hist \subseteq hist' /\ hist' \subseteq History
BY DEF Noted, TypeOK

LEMMA DeadType ==
  ASSUME TypeOK, NEW c \in Conn, MayBeDead(c) \/ UsesLog(c)
  PROVE  dead' \in BOOLEAN
<1>1. dead \in BOOLEAN
  BY DEF TypeOK
<1> QED
  BY <1>1, Zenon DEF MayBeDead, UsesLog

LEMMA DoesMoves ==
  ASSUME SocketsInv, NEW c \in Conn, NEW t \in Threads, NEW step \in Step \ {"close"}, At(c, t, step),
         NEW p \in {<<>>, <<"wait">>, <<"record", "lines", "wait">>, RecordClose, Stop},
         Does(c, t, p),
         sock' \in [Conn -> SocketState],
         \A d \in Conn : /\ sock'[d].mem = sock[d].mem /\ sock'[d].channel = sock[d].channel
                         /\ d # c \/ step # "clear" => sock'[d].socketfd = sock[d].socketfd,
         step = "clear" => sock'[c].socketfd = 0,
         UNCHANGED <<server, owner, clean, handlerQ, main, open>>,
         dead' \in BOOLEAN, hist \subseteq hist', hist' \subseteq History
  PROVE  SocketsInv'
<1> DEFINE q == p \o Tail(thread[c][t])
<1>1. q \in Seq(Step) /\ Shape(q) /\ Fresh(q)
  BY DoesLeaves
<1>2. thread' = [thread EXCEPT ![c][t] = q]
  BY DEF Does
<1> HIDE DEF q
<1> QED
  BY <1>1, <1>2, MovesAlone

LEMMA Waits ==
  ASSUME SocketsInv, NEW c \in Conn, ReadData(c) \/ ReadEnds(c) \/ ReadStopped(c)
  PROVE  SocketsInv'
<1>1. "read" \in Threads /\ "wait" \in Step \ {"close"}
  BY DEF Threads, Step
<1>2. At(c, "read", "wait")
  BY DEF ReadData, ReadEnds, ReadStopped
<1>3. PICK p \in {<<>>, <<"record", "lines", "wait">>, Stop} : Does(c, "read", p)
  BY DEF ReadData, ReadEnds, ReadStopped
<1>4. UNCHANGED <<server, owner, sock, clean, handlerQ, main, open, dead, hist>>
  BY DEF ReadData, ReadEnds, ReadStopped
<1>5. sock \in [Conn -> SocketState] /\ dead \in BOOLEAN /\ hist \subseteq History
  BY DEF SocketsInv, TypeOK
<1> QED
  BY <1>1, <1>2, <1>3, <1>4, <1>5, DoesMoves

LEMMA Completes ==
  ASSUME SocketsInv, NEW c \in Conn, RecordOutDone(c) \/ ReplyDone(c) \/ ByeDone(c)
  PROVE  SocketsInv'
<1>1. "write" \in Threads /\ {"record out", "reply", "bye"} \subseteq Step \ {"close", "clear"}
  BY DEF Threads, Step
<1>2. PICK step \in {"record out", "reply", "bye"} : At(c, "write", step)
  BY DEF RecordOutDone, ReplyDone, ByeDone
<1>3. PICK p \in {<<>>, Stop} : Does(c, "write", p)
  BY DEF RecordOutDone, ReplyDone, ByeDone
<1>4. UNCHANGED <<server, owner, sock, clean, handlerQ, main, open, dead, hist>>
  BY DEF RecordOutDone, ReplyDone, ByeDone
<1>5. sock \in [Conn -> SocketState] /\ dead \in BOOLEAN /\ hist \subseteq History
  BY DEF SocketsInv, TypeOK
<1>6. step # "clear" /\ step \in Step \ {"close"}
  BY <1>1
<1> QED
  BY <1>1, <1>2, <1>3, <1>4, <1>5, <1>6, DoesMoves

LEMMA Records ==
  ASSUME SocketsInv, NEW c \in Conn, Record(c)
  PROVE  SocketsInv'
<1>1. "read" \in Threads /\ "record" \in Step \ {"close"} /\ "overlap" \in History
  BY DEF Threads, Step, History
<1>2. At(c, "read", "record")
  BY DEF Record
<1>3. PICK p \in {<<>>, RecordClose} : Does(c, "read", p)
  BY DEF Record
<1>4. UNCHANGED <<server, owner, sock, clean, handlerQ, main, open>>
  BY DEF Record
<1>5. sock \in [Conn -> SocketState] /\ TypeOK
  BY DEF SocketsInv, TypeOK
<1>6. dead' \in BOOLEAN
  BY <1>5, DeadType DEF Record
<1>7. hist \subseteq hist' /\ hist' \subseteq History
  BY <1>1, <1>5, NotedGrows DEF Record
<1> QED
  BY <1>1, <1>2, <1>3, <1>4, <1>5, <1>6, <1>7, DoesMoves

LEMMA SocketFields ==
  ASSUME TypeOK, NEW c \in Conn
  PROVE  sock[c] \in SocketState
BY DEF TypeOK

LEMMA Clears ==
  ASSUME SocketsInv, NEW c \in Conn, NEW t \in Threads, StopClear(c, t)
  PROVE  SocketsInv'
<1>1. "clear" \in Step \ {"close"} /\ "overlap" \in History /\ TypeOK
  BY DEF Step, History, SocketsInv
<1>2. /\ sock' \in [Conn -> SocketState]
      /\ \A d \in Conn : /\ sock'[d].mem = sock[d].mem /\ sock'[d].channel = sock[d].channel
                         /\ d # c => sock'[d].socketfd = sock[d].socketfd
      /\ sock'[c].socketfd = 0
  <2>1. sock' = [sock EXCEPT ![c].socketfd = 0] /\ sock \in [Conn -> SocketState]
    BY <1>1 DEF StopClear, TypeOK
  <2> QED
    BY <2>1 DEF SocketState
<1>3. dead' \in BOOLEAN
  BY <1>1, DeadType DEF StopClear
<1>4. hist \subseteq hist' /\ hist' \subseteq History
  BY <1>1, NotedGrows DEF StopClear
<1>5. At(c, t, "clear") /\ Does(c, t, <<>>) /\ UNCHANGED <<server, owner, clean, handlerQ, main, open>>
  BY DEF StopClear
<1> QED
  BY <1>1, <1>2, <1>3, <1>4, <1>5, DoesMoves

\* A step that is skipped takes the one behind it along.
LEMMA SkipMoves ==
  ASSUME SocketsInv, NEW c \in Conn, NEW t \in Threads, NEW step \in {"close", "fclose"}, At(c, t, step),
         NEW q, q = Tail(Tail(thread[c][t])), thread' = [thread EXCEPT ![c][t] = q],
         sock' \in [Conn -> SocketState],
         \A d \in Conn : /\ sock'[d].mem = sock[d].mem /\ sock'[d].channel = sock[d].channel
                         /\ sock'[d].socketfd = sock[d].socketfd,
         UNCHANGED <<server, owner, clean, handlerQ, main, open>>,
         dead' \in BOOLEAN, hist \subseteq hist', hist' \subseteq History
  PROVE  SocketsInv'
<1> DEFINE r == Tail(thread[c][t])
<1>1. thread[c][t] \in Seq(Step) /\ thread[c][t] # <<>> /\ thread[c][t][1] = step
  BY HeadIs DEF SocketsInv
<1>2. Shape(thread[c][t])
  BY DEF SocketsInv, ShapeInv
<1>3. r \in Seq(Step) /\ Shape(r) /\ r # <<>> /\ r[1] # "close"
  BY <1>1, <1>2, ShapeTail
<1>4. q = Tail(r)
  OBVIOUS
<1> HIDE DEF r
<1>5. q \in Seq(Step) /\ Shape(q) /\ Fresh(q)
  BY <1>3, <1>4, ShapeTail
<1>6. step # "clear" /\ \A d \in Conn : d # c \/ step # "clear" => sock'[d].socketfd = sock[d].socketfd
  OBVIOUS
<1>7. /\ \A d \in Conn : /\ sock'[d].mem = sock[d].mem /\ sock'[d].channel = sock[d].channel
                         /\ d # c \/ step # "clear" => sock'[d].socketfd = sock[d].socketfd
      /\ step = "clear" => sock'[c].socketfd = 0
  BY <1>6
<1> QED
  BY <1>5, <1>7, MovesAlone

LEMMA RecordCloses ==
  ASSUME SocketsInv, NEW c \in Conn, NEW t \in Threads, RecordFclose(c, t) \/ RecordNull(c, t)
  PROVE  SocketsInv'
<1>1. "overlap" \in History /\ TypeOK /\ {"fclose", "null"} \subseteq Step \ {"close"}
  BY DEF History, SocketsInv, Step
<1>2. /\ sock' \in [Conn -> SocketState]
      /\ \A d \in Conn : /\ sock'[d].mem = sock[d].mem /\ sock'[d].channel = sock[d].channel
                         /\ sock'[d].socketfd = sock[d].socketfd
  <2>1. sock \in [Conn -> SocketState]
    BY <1>1 DEF TypeOK
  <2>2. \/ sock' = [sock EXCEPT ![c].log = "closed"]
        \/ sock' = [sock EXCEPT ![c].record = FALSE]
        \/ sock' = sock
    BY DEF RecordFclose, RecordNull
  <2>3. CASE sock' = [sock EXCEPT ![c].log = "closed"]
    BY <2>1, <2>3 DEF SocketState
  <2>4. CASE sock' = [sock EXCEPT ![c].record = FALSE]
    BY <2>1, <2>4 DEF SocketState
  <2>5. CASE sock' = sock
    BY <2>1, <2>5
  <2> QED
    BY <2>2, <2>3, <2>4, <2>5
<1>3. dead' \in BOOLEAN
  BY <1>1, DeadType DEF RecordFclose, RecordNull
<1>4. hist \subseteq hist' /\ hist' \subseteq History
  BY <1>1, NotedGrows DEF RecordFclose, RecordNull
<1>5. UNCHANGED <<server, owner, clean, handlerQ, main, open>>
  BY DEF RecordFclose, RecordNull
<1>6. PICK step \in {"fclose", "null"} : At(c, t, step)
  BY DEF RecordFclose, RecordNull
<1>7. step # "clear" /\ step \in Step \ {"close"}
  BY <1>1
<1>8. CASE Does(c, t, <<>>)
  BY <1>1, <1>2, <1>3, <1>4, <1>5, <1>6, <1>7, <1>8, DoesMoves
<1>9. CASE At(c, t, "fclose") /\ thread' = [thread EXCEPT ![c][t] = Tail(Tail(@))]
  <2>1. At(c, t, "fclose") /\ thread' = [thread EXCEPT ![c][t] = Tail(Tail(thread[c][t]))]
    BY <1>9
  <2> QED
    BY <1>2, <1>3, <1>4, <1>5, <2>1, SkipMoves
<1> QED
  BY <1>8, <1>9 DEF RecordFclose, RecordNull

-------------------------------------------------------------------------------
(* Steps in which no thread moves. *)
LEMMA Still ==
  ASSUME SocketsInv, thread' = thread, owner' = owner,
         sock' \in [Conn -> SocketState],
         \A d \in Conn : /\ sock'[d].channel = sock[d].channel /\ sock'[d].socketfd = sock[d].socketfd
                         /\ \/ sock'[d].mem = sock[d].mem
                            \/ sock'[d].mem = "freed" /\ clean'[d].at # "none",
         clean' \in [Conn -> [at : {"none", "count", "done"}, seen : Int]],
         \A d \in Conn : /\ clean[d].at # "none" => clean'[d].at # "none"
                         /\ clean'[d].at # "none" /\ clean[d].at = "none" =>
                              sock[d].channel = "closed" /\ \A u \in Threads : thread[d][u] = <<>>,
         main' \in [conn : Conn \cup {NoConn}, at : {"none", "count", "banner"}, seen : Int],
         main'.at = "count" => main' = main,
         \A d \in Conn : main'.conn = d => main.conn = d,
         QueueLess({"accept", "open"}), CloseIsLast',
         server' \in {"created", "listening", "deaf"}, open' \in Int,
         dead' \in BOOLEAN, hist \subseteq hist', hist' \subseteq History
  PROVE  SocketsInv'
<1>1. TypeOK'
  BY DEF SocketsInv, TypeOK, QueueLess, QueueBlock
<1>2. TypeOK
  BY DEF SocketsInv
<1>3. ASSUME NEW d \in Conn
      PROVE  /\ sock[d].mem = "none" => sock[d].channel = "NULL"
             /\ sock[d].channel = "NULL" => \A u \in Threads : thread[d][u] = <<>>
             /\ clean[d].at # "none" => sock[d].channel = "closed" /\ thread[d]["read"] = <<>>
             /\ sock[d].mem = "freed" => clean[d].at # "none"
  BY DEF SocketsInv, LifeInv
<1>4. "read" \in Threads /\ "write" \in Threads
  BY DEF Threads
<1>5. ASSUME NEW d \in Conn, clean'[d].at # "none"
      PROVE  sock[d].channel = "closed" /\ thread[d]["read"] = <<>>
  BY <1>3, <1>4, <1>5
<1>6. LifeInv'
  BY <1>3, <1>5 DEF LifeInv
<1>7. AcceptInv'
  BY <1>5 DEF SocketsInv, AcceptInv
<1>8. OnceInv'
  <2>1. \A i \in 1..Len(handlerQ) : handlerQ[i].conn \in Conn
    BY <1>2, QueueAt DEF QueueBlock
  <2>2. \A d \in Conn : sock[d].mem = "none" => sock'[d].mem = "none"
    BY <1>3, <1>5
  <2> QED
    BY <1>2, <2>1, <2>2, LessOnce DEF SocketsInv
<1>9. EarlyInv'
  <2> SUFFICES ASSUME "early" \notin hist', NEW d \in Conn, sock'[d].channel = "closed"
               PROVE  ~Unopened(d)' /\ (clean'[d].at # "none" => thread'[d]["write"] = <<>>)
    BY DEF EarlyInv
  <2>1. ~Unopened(d) /\ (clean[d].at # "none" => thread[d]["write"] = <<>>)
    BY DEF SocketsInv, EarlyInv
  <2>2. ~Unopened(d)'
    BY <1>2, <2>1, LessOpen
  <2> QED
    BY <1>4, <2>1, <2>2
<1>10. ShapeInv'
  BY DEF SocketsInv, ShapeInv
<1>11. OwnerInv'
  <2> SUFFICES ASSUME "overlap" \notin hist'
               PROVE  /\ \A d \in Conn : sock'[d].socketfd \in Fd =>
                           \/ owner'[sock'[d].socketfd] = d
                           \/ \E u \in Threads : ~Fresh(thread'[d][u])
                      /\ \A i \in 1..Len(handlerQ') :
                           handlerQ'[i].kind = "accept" /\ handlerQ'[i].fd \in Fd
                             => owner'[handlerQ'[i].fd] = handlerQ'[i].conn
    BY DEF OwnerInv
  <2>1. /\ \A d \in Conn : sock[d].socketfd \in Fd =>
             \/ owner[sock[d].socketfd] = d
             \/ \E u \in Threads : ~Fresh(thread[d][u])
        /\ \A i \in 1..Len(handlerQ) :
             handlerQ[i].kind = "accept" /\ handlerQ[i].fd \in Fd
               => owner[handlerQ[i].fd] = handlerQ[i].conn
    BY DEF SocketsInv, OwnerInv
  <2>2. \A i \in 1..Len(handlerQ') :
          handlerQ'[i].kind = "accept" /\ handlerQ'[i].fd \in Fd
            => owner'[handlerQ'[i].fd] = handlerQ'[i].conn
    BY <1>2, <2>1, LessOwned
  <2> QED
    BY <2>1, <2>2
<1> QED
  BY <1>1, <1>6, <1>7, <1>8, <1>9, <1>10, <1>11 DEF SocketsInv

LEMMA BlockIs ==
  ASSUME NEW kind \in {"accept", "open", "data", "close"}, NEW c \in Conn
  PROVE  Block(kind, c) \in QueueBlock /\ Block(kind, c).kind = kind /\ Block(kind, c).conn = c
BY DEF Block, QueueBlock

LEMMA Starting ==
  ASSUME SocketsInv, EmailzStart
  PROVE  SocketsInv'
<1>1. /\ UNCHANGED <<owner, sock, thread, clean, handlerQ, main, open, dead, hist>>
      /\ server' \in {"created", "listening", "deaf"}
  BY DEF EmailzStart
<1>2. TypeOK
  BY DEF SocketsInv
<1>3. QueueLess({"accept", "open"}) /\ CloseIsLast'
  BY <1>1, <1>2, LessIfSame DEF SocketsInv, CloseIsLast
<1>4. /\ sock \in [Conn -> SocketState] /\ open \in Int /\ hist \subseteq History
      /\ clean \in [Conn -> [at : {"none", "count", "done"}, seen : Int]]
      /\ main \in [conn : Conn \cup {NoConn}, at : {"none", "count", "banner"}, seen : Int]
  BY <1>2 DEF TypeOK
<1>5. dead \in BOOLEAN
  BY <1>2 DEF TypeOK
<1> QED
  BY <1>1, <1>3, <1>4, <1>5, Still

LEMMA Runs1 ==
  ASSUME SocketsInv, NEW c \in Conn, RunOpen(c) \/ RunData(c) \/ RunClose(c)
  PROVE  SocketsInv'
<1>1. /\ UNCHANGED <<server, owner, thread, clean, main, open>>
      /\ handlerQ # <<>> /\ handlerQ' = Tail(handlerQ)
      /\ MayBeDead(c)
  BY DEF RunOpen, RunData, RunClose, Runs
<1>2. TypeOK
  BY DEF SocketsInv
<1>3. QueueLess({"accept", "open"}) /\ CloseIsLast'
  BY <1>1, <1>2, LessIfTail, TailLast DEF SocketsInv
<1>4. /\ sock \in [Conn -> SocketState] /\ open \in Int /\ hist \subseteq History
      /\ clean \in [Conn -> [at : {"none", "count", "done"}, seen : Int]]
      /\ main \in [conn : Conn \cup {NoConn}, at : {"none", "count", "banner"}, seen : Int]
      /\ server \in {"created", "listening", "deaf"}
  BY <1>2 DEF TypeOK
<1>5. dead' \in BOOLEAN
  BY <1>1, <1>2, DeadType
<1>6. hist \subseteq hist' /\ hist' \subseteq History
  <2>1. "stale" \in History
    BY DEF History
  <2>2. hist' = hist \/ hist' = Noted("stale", sock[c].mem = "freed")
    BY DEF RunOpen, RunData, RunClose
  <2> QED
    BY <1>2, <1>4, <2>1, <2>2, NotedGrows
<1>7. /\ sock' \in [Conn -> SocketState]
      /\ \A d \in Conn : /\ sock'[d].channel = sock[d].channel /\ sock'[d].socketfd = sock[d].socketfd
                         /\ sock'[d].mem = sock[d].mem
  <2>1. CASE sock' = [sock EXCEPT ![c].handlers = @ \cup {"smtp", "data"}]
    <3> DEFINE both == sock[c].handlers \cup {"smtp", "data"}
               row == [sock[c] EXCEPT !.handlers = both]
    <3>1. sock' = [sock EXCEPT ![c] = row]
      BY <1>4, <2>1
    <3>2. sock[c] \in SocketState /\ both \in SUBSET Handler
      BY <1>4 DEF SocketState, Handler
    <3> HIDE DEF both
    <3>3. /\ row \in SocketState /\ row.channel = sock[c].channel
          /\ row.socketfd = sock[c].socketfd /\ row.mem = sock[c].mem
      BY <3>2 DEF SocketState
    <3> HIDE DEF row
    <3> QED
      BY <1>4, <3>1, <3>3
  <2>2. CASE sock' = sock
    BY <1>4, <2>2
  <2> QED
    BY <2>1, <2>2 DEF RunOpen, RunData, RunClose
<1> QED
  BY <1>1, <1>3, <1>4, <1>5, <1>6, <1>7, Still

LEMMA Cleans ==
  ASSUME SocketsInv, NEW c \in Conn, Cleanup(c)
  PROVE  SocketsInv'
<1>1. /\ sock[c].channel = "closed" /\ (\A u \in Threads : thread[c][u] = <<>>) /\ clean[c].at = "none"
      /\ handlerQ' = Append(handlerQ, Block("close", c))
      /\ clean' = [clean EXCEPT ![c] = [at |-> "count", seen |-> open]]
      /\ hist' = Noted("raced", main.at = "count" \/ \E d \in Conn : clean[d].at = "count")
      /\ UNCHANGED <<server, owner, sock, thread, main, open, dead>>
  BY DEF Cleanup, OperationsOver
<1>2. TypeOK /\ CloseIsLast
  BY DEF SocketsInv
<1>3. Block("close", c) \in QueueBlock /\ Block("close", c).kind = "close" /\ Block("close", c).conn = c
  BY BlockIs
<1>4. /\ sock \in [Conn -> SocketState] /\ open \in Int /\ hist \subseteq History
      /\ clean \in [Conn -> [at : {"none", "count", "done"}, seen : Int]]
      /\ main \in [conn : Conn \cup {NoConn}, at : {"none", "count", "banner"}, seen : Int]
      /\ server \in {"created", "listening", "deaf"}
  BY <1>2 DEF TypeOK
<1>5. dead \in BOOLEAN
  BY <1>2 DEF TypeOK
<1>6. clean' \in [Conn -> [at : {"none", "count", "done"}, seen : Int]]
      /\ clean'[c].at = "count" /\ \A d \in Conn : d # c => clean'[d] = clean[d]
  BY <1>1, <1>4
<1>7. QueueLess({"accept", "open"})
  BY <1>1, <1>2, <1>3, LessIfOther
<1>8. CloseIsLast'
  BY <1>1, <1>2, <1>3, <1>6, AppendLast
<1>9. hist \subseteq hist' /\ hist' \subseteq History
  <2>1. "raced" \in History
    BY DEF History
  <2> QED
    BY <1>1, <1>2, <2>1, NotedGrows
<1> QED
  BY <1>1, <1>4, <1>5, <1>6, <1>7, <1>8, <1>9, Still

LEMMA Destroys ==
  ASSUME SocketsInv, NEW c \in Conn, SocketDestroy(c)
  PROVE  SocketsInv'
<1>1. /\ clean[c].at = "count"
      /\ open' = clean[c].seen - 1
      /\ clean' = [clean EXCEPT ![c] = [at |-> "done", seen |-> 0]]
      /\ sock' = [sock EXCEPT ![c].mem = "freed", ![c].handlers = @ \ Handler]
      /\ UNCHANGED <<server, owner, thread, handlerQ, main, dead, hist>>
  BY DEF SocketDestroy, OneLess
<1>2. TypeOK
  BY DEF SocketsInv
<1>3. /\ sock \in [Conn -> SocketState] /\ hist \subseteq History
      /\ clean \in [Conn -> [at : {"none", "count", "done"}, seen : Int]]
      /\ main \in [conn : Conn \cup {NoConn}, at : {"none", "count", "banner"}, seen : Int]
      /\ server \in {"created", "listening", "deaf"}
  BY <1>2 DEF TypeOK
<1>4. dead \in BOOLEAN
  BY <1>2 DEF TypeOK
<1>5. /\ clean' \in [Conn -> [at : {"none", "count", "done"}, seen : Int]] /\ open' \in Int
      /\ clean'[c].at = "done" /\ \A d \in Conn : d # c => clean'[d] = clean[d]
  BY <1>1, <1>3
<1>6. /\ sock' \in [Conn -> SocketState]
      /\ \A d \in Conn : /\ sock'[d].channel = sock[d].channel /\ sock'[d].socketfd = sock[d].socketfd
                         /\ d # c => sock'[d].mem = sock[d].mem
      /\ sock'[c].mem = "freed"
  <2> DEFINE s == [sock[c] EXCEPT !.mem = "freed", !.handlers = @ \ Handler]
  <2>1. sock[c] \in SocketState /\ sock' = [sock EXCEPT ![c] = s]
    BY <1>1, <1>3
  <2>2. sock[c].handlers \ Handler \in SUBSET Handler
    BY <2>1 DEF SocketState
  <2>3. s \in SocketState /\ s.mem = "freed" /\ s.channel = sock[c].channel /\ s.socketfd = sock[c].socketfd
    BY <2>1, <2>2 DEF SocketState
  <2> HIDE DEF s
  <2> QED
    BY <1>3, <2>1, <2>3
<1>7. QueueLess({"accept", "open"})
  BY <1>1, <1>2, LessIfSame
<1>8. CloseIsLast'
  <2>1. \A i \in DOMAIN handlerQ : handlerQ[i].conn \in Conn
    BY <1>2, QueueAt DEF QueueBlock
  <2>2. \A d \in Conn : clean'[d].at # "none" => clean[d].at # "none"
    BY <1>1, <1>5
  <2> QED
    BY <1>1, <2>1, <2>2 DEF SocketsInv, CloseIsLast
<1> QED
  BY <1>1, <1>3, <1>4, <1>5, <1>6, <1>7, <1>8, Still

LEMMA ReadsLines ==
  ASSUME SocketsInv, NEW c \in Conn, ReadLines(c)
  PROVE  SocketsInv'
<1>1. /\ "read" \in Threads /\ "write" \in Threads /\ "lines" \in Step \ {"close"} /\ "lines" # "clear"
      /\ \A u \in Threads : u # "read" => u = "write"
  BY DEF Threads, Step
<1>2. /\ At(c, "read", "lines")
      /\ UNCHANGED <<server, owner, sock, clean, main, open, dead, hist>>
  BY DEF ReadLines
<1>3. sock \in [Conn -> SocketState] /\ TypeOK /\ hist \subseteq History /\ CloseIsLast
  BY DEF SocketsInv, TypeOK
<1>4. dead \in BOOLEAN
  BY <1>3 DEF TypeOK
<1>5. thread[c]["read"] \in Seq(Step) /\ thread[c]["read"] # <<>> /\ Fresh(thread[c]["read"])
  BY <1>1, <1>2, <1>3, HeadIs
<1>6. clean[c].at = "none"
  BY <1>5 DEF SocketsInv, LifeInv
<1>7. CASE (Does(c, "read", <<>>) \/ Does(c, "read", Stop)) /\ UNCHANGED handlerQ
  <2>1. PICK p \in {<<>>, Stop} : Does(c, "read", p)
    BY <1>7
  <2> QED
    BY <1>1, <1>2, <1>3, <1>4, <1>7, <2>1, DoesMoves
<1>8. CASE handlerQ' = Append(handlerQ, Block("data", c)) /\ Does(c, "read", <<>>)
  <2> DEFINE q == <<>> \o Tail(thread[c]["read"])
  <2>1. q \in Seq(Step) /\ Shape(q) /\ Fresh(q)
    BY <1>1, <1>2, DoesLeaves
  <2>2. thread' = [thread EXCEPT ![c]["read"] = q]
    BY <1>8 DEF Does
  <2> HIDE DEF q
  <2>3. /\ thread' \in [Conn -> [Threads -> Seq(Step)]] /\ thread'[c]["read"] = q
        /\ \A d \in Conn, u \in Threads : d # c \/ u # "read" => thread'[d][u] = thread[d][u]
    <3>1. TypeOK /\ "read" \in Threads /\ q \in Seq(Step)
      BY <1>1, <1>3, <2>1
    <3>2. ThreadSet(c, "read", q)
      BY <2>2, <3>1, ThreadUpdated, Zenon
    <3> QED
      BY <3>2 DEF ThreadSet
  <2>4. Block("data", c) \in QueueBlock /\ Block("data", c).kind = "data" /\ Block("data", c).conn = c
    BY BlockIs
  <2>5. QueueLess({"accept", "open"})
    BY <1>3, <1>8, <2>4, LessIfOther
  <2>6. CloseIsLast'
    BY <1>2, <1>3, <1>6, <1>8, <2>4, AppendLast
  <2>7. \A u \in Threads : \/ thread'[c][u] = thread[c][u]
                           \/ /\ Shape(thread'[c][u]) /\ Fresh(thread'[c][u])
                              /\ u = "read" \/ clean[c].at = "none"
                              /\ Fresh(thread[c][u]) \/ sock'[c].socketfd = 0
    BY <1>5, <1>6, <2>1, <2>3
  <2>8. \A d \in Conn, u \in Threads : d # c => thread'[d][u] = thread[d][u]
    BY <2>3
  <2> QED
    BY <1>1, <1>2, <1>3, <1>4, <1>5, <2>3, <2>5, <2>6, <2>7, <2>8, Moves
<1>9. CASE /\ thread[c]["write"] = <<>> /\ UNCHANGED handlerQ
           /\ thread' = [thread EXCEPT ![c]["read"] = Tail(@), ![c]["write"] = <<Answer(c)>>]
  <2> DEFINE q == Tail(thread[c]["read"])
             p == <<Answer(c)>>
  <2>1. q \in Seq(Step) /\ Shape(q) /\ Fresh(q)
    <3>1. Shape(thread[c]["read"]) /\ thread[c]["read"][1] = "lines"
      BY <1>1, <1>2, <1>3, HeadIs DEF SocketsInv, ShapeInv
    <3> QED
      BY <1>5, <3>1, ShapeTail
  <2>2. p \in Seq(Step) /\ Shape(p) /\ Fresh(p)
    BY BegunShape DEF Answer
  <2>3. Fresh(thread[c]["write"])
    BY <1>9 DEF Fresh
  <2>4. thread' = [thread EXCEPT ![c]["read"] = q, ![c]["write"] = p]
    BY <1>9
  <2> HIDE DEF q, p
  <2>5. /\ thread' \in [Conn -> [Threads -> Seq(Step)]]
        /\ thread'[c]["read"] = q /\ thread'[c]["write"] = p
        /\ \A d \in Conn, u \in Threads : d # c => thread'[d][u] = thread[d][u]
    <3>1. thread \in [Conn -> [Threads -> Seq(Step)]]
      BY <1>3 DEF TypeOK
    <3> QED
      BY <1>1, <2>1, <2>2, <2>4, <3>1
  <2>6. QueueLess({"accept", "open"}) /\ CloseIsLast'
    BY <1>2, <1>3, <1>9, LessIfSame DEF CloseIsLast
  <2>7. \A u \in Threads : \/ thread'[c][u] = thread[c][u]
                           \/ /\ Shape(thread'[c][u]) /\ Fresh(thread'[c][u])
                              /\ u = "read" \/ clean[c].at = "none"
                              /\ Fresh(thread[c][u]) \/ sock'[c].socketfd = 0
    BY <1>1, <1>5, <1>6, <2>1, <2>2, <2>3, <2>5
  <2> QED
    BY <1>1, <1>2, <1>3, <1>4, <1>5, <2>5, <2>6, <2>7, Moves
<1> QED
  BY <1>7, <1>8, <1>9 DEF ReadLines

-------------------------------------------------------------------------------
(* Closing the descriptor. *)
LEMMA Overlaps ==
  ASSUME TypeOK, NEW c \in Conn, NEW t \in Threads, ~Overlapping(c, t), At(c, t, "close")
  PROVE  \A u \in Threads : Fresh(thread[c][u])
<1> SUFFICES ASSUME NEW u \in Threads, ~Fresh(thread[c][u]) PROVE FALSE
  OBVIOUS
<1>1. thread[c][u] \in Seq(Step) /\ thread[c][u] # <<>> /\ thread[c][u][1] = "clear"
  BY DEF TypeOK, Fresh
<1>2. At(c, u, "clear")
  BY <1>1, TailAt DEF At
<1>3. u # t
  BY <1>2 DEF At
<1>4. u = Other(t)
  BY <1>3 DEF Other, Threads
<1> QED
  BY <1>2, <1>4 DEF Overlapping

LEMMA Closes ==
  ASSUME SocketsInv, NEW c \in Conn, NEW t \in Threads, StopClose(c, t)
  PROVE  SocketsInv'
<1>1. /\ At(c, t, "close") /\ MayBeDead(c)
      /\ hist' = Noted("overlap", Overlapping(c, t)) \cup Noted("early", Unopened(c))
      /\ UNCHANGED <<server, clean, handlerQ, main, open>>
  BY DEF StopClose
<1>2. TypeOK /\ CloseIsLast /\ sock \in [Conn -> SocketState]
      /\ thread \in [Conn -> [Threads -> Seq(Step)]] /\ owner \in [Fd -> Conn \cup {NoConn}]
  BY DEF SocketsInv, TypeOK
<1>3. dead' \in BOOLEAN
  BY <1>1, <1>2, DeadType
<1>4. /\ hist \subseteq hist' /\ hist' \subseteq History
      /\ "overlap" \notin hist' => ~Overlapping(c, t)
      /\ "early" \notin hist' => ~Unopened(c)
  BY <1>1, <1>2 DEF Noted, History, TypeOK
<1>5. CASE sock[c].socketfd = 0 /\ thread' = [thread EXCEPT ![c][t] = Tail(Tail(@))] /\ UNCHANGED <<sock, owner>>
  <2> DEFINE q == Tail(Tail(thread[c][t]))
  <2>1. q = Tail(Tail(thread[c][t])) /\ thread' = [thread EXCEPT ![c][t] = q]
    BY <1>5
  <2> HIDE DEF q
  <2> QED
    BY <1>1, <1>2, <1>3, <1>4, <1>5, <2>1, SkipMoves
<1>6. CASE /\ sock[c].socketfd # 0
           /\ sock' = [sock EXCEPT ![c].channel = "closed"]
           /\ owner' = Closed(sock[c].socketfd)
           /\ Does(c, t, <<>>)
  <2> DEFINE q == Tail(thread[c][t])
             fd == sock[c].socketfd
  <2>1. thread[c][t] \in Seq(Step) /\ thread[c][t] # <<>> /\ thread[c][t][1] = "close"
    BY <1>1, <1>2, HeadIs
  <2>2. q \in Seq(Step) /\ Shape(q) /\ ~Fresh(q)
    <3>1. Shape(thread[c][t])
      BY DEF SocketsInv, ShapeInv
    <3> QED
      BY <2>1, <3>1, ShapeTail DEF Fresh
  <2>3. thread' = [thread EXCEPT ![c][t] = q]
    <3>1. <<>> \o q = q
      BY <2>2
    <3> QED
      BY <1>6, <3>1 DEF Does
  <2> HIDE DEF q
  <2>4. /\ thread' \in [Conn -> [Threads -> Seq(Step)]] /\ thread'[c][t] = q
        /\ \A d \in Conn, u \in Threads : d # c \/ u # t => thread'[d][u] = thread[d][u]
    BY <1>2, <2>2, <2>3, ThreadUpdate
  <2>5. /\ sock' \in [Conn -> SocketState]
        /\ sock'[c].channel = "closed"
        /\ \A d \in Conn : /\ sock'[d].mem = sock[d].mem /\ sock'[d].socketfd = sock[d].socketfd
                           /\ d # c => sock'[d].channel = sock[d].channel
    BY <1>2, <1>6 DEF SocketState
  <2>6. /\ owner' \in [Fd -> Conn \cup {NoConn}]
        /\ \A f \in Fd : f # fd => owner'[f] = owner[f]
    BY <1>2, <1>6 DEF Closed
  <2>7. sock[c].channel # "NULL" /\ sock[c].mem # "none"
    BY <2>1 DEF SocketsInv, LifeInv
  <2>8. clean[c].at # "none" => t # "read" /\ sock[c].channel = "closed"
    BY <2>1 DEF SocketsInv, LifeInv
  <2>9. "read" \in Threads /\ "write" \in Threads /\ \A u \in Threads : u = "read" \/ u = "write"
    BY DEF Threads
  <2>10. TypeOK'
    BY <1>1, <1>2, <1>3, <1>4, <2>4, <2>5, <2>6 DEF TypeOK
  <2>11. LifeInv'
    <3> SUFFICES ASSUME NEW d \in Conn
                 PROVE  /\ sock'[d].mem = "none" => sock'[d].channel = "NULL"
                        /\ sock'[d].channel = "NULL" => \A u \in Threads : thread'[d][u] = <<>>
                        /\ clean'[d].at # "none" => sock'[d].channel = "closed" /\ thread'[d]["read"] = <<>>
                        /\ sock'[d].mem = "freed" => clean'[d].at # "none"
      BY DEF LifeInv
    <3>1. /\ sock[d].mem = "none" => sock[d].channel = "NULL"
          /\ sock[d].channel = "NULL" => \A u \in Threads : thread[d][u] = <<>>
          /\ clean[d].at # "none" => sock[d].channel = "closed" /\ thread[d]["read"] = <<>>
          /\ sock[d].mem = "freed" => clean[d].at # "none"
      BY DEF SocketsInv, LifeInv
    <3>2. CASE d = c
      BY <1>1, <2>4, <2>5, <2>7, <2>8, <2>9, <3>1, <3>2
    <3>3. CASE d # c
      BY <1>1, <2>4, <2>5, <2>9, <3>1, <3>3
    <3> QED
      BY <3>2, <3>3
  <2>12. AcceptInv'
    BY <1>1, <2>5, <2>7 DEF SocketsInv, AcceptInv
  <2>13. OnceInv'
    <3>1. \A i \in 1..Len(handlerQ) : handlerQ[i].conn \in Conn
      BY <1>2, QueueAt DEF QueueBlock
    <3> QED
      BY <1>1, <2>5, <3>1 DEF SocketsInv, OnceInv
  <2>14. EarlyInv'
    <3> SUFFICES ASSUME "early" \notin hist', NEW d \in Conn, sock'[d].channel = "closed"
                 PROVE  ~Unopened(d)' /\ (clean'[d].at # "none" => thread'[d]["write"] = <<>>)
      BY DEF EarlyInv
    <3>1. sock[d].channel = "closed" => ~Unopened(d) /\ (clean[d].at # "none" => thread[d]["write"] = <<>>)
      BY <1>4 DEF SocketsInv, EarlyInv
    <3>2. ~Unopened(d)'
      BY <1>1, <1>4, <2>5, <3>1 DEF Unopened
    <3>3. clean[d].at # "none" => thread'[d]["write"] = <<>>
      BY <2>1, <2>4, <2>5, <2>8, <2>9, <3>1
    <3> QED
      BY <1>1, <3>2, <3>3
  <2>15. ShapeInv'
    BY <2>2, <2>4, <2>5 DEF SocketsInv, ShapeInv
  <2>16. OwnerInv'
    <3> SUFFICES ASSUME "overlap" \notin hist'
                 PROVE  /\ \A d \in Conn : sock'[d].socketfd \in Fd =>
                             \/ owner'[sock'[d].socketfd] = d
                             \/ \E u \in Threads : ~Fresh(thread'[d][u])
                        /\ \A i \in 1..Len(handlerQ') :
                             handlerQ'[i].kind = "accept" /\ handlerQ'[i].fd \in Fd
                               => owner'[handlerQ'[i].fd] = handlerQ'[i].conn
      BY DEF OwnerInv
    <3>1. /\ \A d \in Conn : sock[d].socketfd \in Fd =>
               \/ owner[sock[d].socketfd] = d
               \/ \E u \in Threads : ~Fresh(thread[d][u])
          /\ \A i \in 1..Len(handlerQ) :
               handlerQ[i].kind = "accept" /\ handlerQ[i].fd \in Fd
                 => owner[handlerQ[i].fd] = handlerQ[i].conn
      BY <1>4 DEF SocketsInv, OwnerInv
    <3>2. \A u \in Threads : Fresh(thread[c][u])
      BY <1>1, <1>2, <1>4, Overlaps
    <3>3. fd \in Fd => owner[fd] = c
      BY <3>1, <3>2
    <3>4. ASSUME NEW d \in Conn, sock'[d].socketfd \in Fd
          PROVE  \/ owner'[sock'[d].socketfd] = d
                 \/ \E u \in Threads : ~Fresh(thread'[d][u])
      <4>1. CASE d = c
        BY <2>2, <2>4, <4>1
      <4>2. CASE d # c
        <5>1. sock[d].socketfd \in Fd /\ sock'[d].socketfd = sock[d].socketfd
          BY <2>5, <3>4
        <5>2. CASE owner[sock[d].socketfd] = d
          <6>1. sock[d].socketfd # fd
            BY <3>3, <4>2, <5>1, <5>2
          <6> QED
            BY <2>6, <5>1, <5>2, <6>1
        <5>3. CASE \E u \in Threads : ~Fresh(thread[d][u])
          BY <2>4, <4>2, <5>3
        <5> QED
          BY <3>1, <5>1, <5>2, <5>3
      <4> QED
        BY <4>1, <4>2
    <3>5. ASSUME NEW i \in 1..Len(handlerQ), handlerQ[i].kind = "accept", handlerQ[i].fd \in Fd
          PROVE  owner'[handlerQ[i].fd] = handlerQ[i].conn
      <4>1. handlerQ[i].conn # c
        BY <2>7, <3>5 DEF SocketsInv, OnceInv
      <4> QED
        BY <2>6, <3>1, <3>3, <3>5, <4>1
    <3> QED
      BY <1>1, <3>4, <3>5
  <2>17. CloseIsLast'
    BY <1>1, <1>2 DEF CloseIsLast
  <2> QED
    BY <2>10, <2>11, <2>12, <2>13, <2>14, <2>15, <2>16, <2>17 DEF SocketsInv
<1> QED
  BY <1>5, <1>6 DEF StopClose

-------------------------------------------------------------------------------
(* Accepting. *)
LEMMA Comes ==
  ASSUME SocketsInv, NEW c \in Conn, ListenerEvent(c)
  PROVE  SocketsInv'
<1>1. /\ sock[c].mem = "none" /\ \A i \in DOMAIN handlerQ : handlerQ[i].conn # c
      /\ UNCHANGED <<server, sock, thread, clean, main, open, dead, hist>>
  BY DEF ListenerEvent, Coming
<1>2. TypeOK /\ CloseIsLast /\ owner \in [Fd -> Conn \cup {NoConn}]
  BY DEF SocketsInv, TypeOK
<1>3. PICK b \in QueueBlock :
        /\ b.kind = "accept" /\ b.conn = c /\ handlerQ' = Append(handlerQ, b)
        /\ \/ b.fd \in Fd /\ owner[b.fd] = NoConn /\ owner' = [owner EXCEPT ![b.fd] = c]
           \/ b.fd = -1 /\ owner' = owner
  <2>1. CASE \E fd \in Lowest : /\ owner' = [owner EXCEPT ![fd] = c]
                                /\ handlerQ' = Append(handlerQ, [Block("accept", c) EXCEPT !.fd = fd])
    <3>1. PICK fd \in Lowest : /\ owner' = [owner EXCEPT ![fd] = c]
                               /\ handlerQ' = Append(handlerQ, [Block("accept", c) EXCEPT !.fd = fd])
      BY <2>1
    <3>2. fd \in Fd /\ owner[fd] = NoConn
      BY DEF Lowest, FreeFd
    <3>3. [Block("accept", c) EXCEPT !.fd = fd] = [kind |-> "accept", conn |-> c, fd |-> fd]
      BY DEF Block
    <3>4. [kind |-> "accept", conn |-> c, fd |-> fd] \in QueueBlock
      BY <3>2 DEF QueueBlock
    <3> QED
      BY <3>1, <3>2, <3>3, <3>4
  <2>2. CASE handlerQ' = Append(handlerQ, [Block("accept", c) EXCEPT !.fd = -1]) /\ UNCHANGED owner
    <3>1. [Block("accept", c) EXCEPT !.fd = -1] = [kind |-> "accept", conn |-> c, fd |-> -1]
      BY DEF Block
    <3>2. [kind |-> "accept", conn |-> c, fd |-> -1] \in QueueBlock
      BY DEF QueueBlock
    <3> QED
      BY <2>2, <3>1, <3>2
  <2> QED
    BY <2>1, <2>2 DEF ListenerEvent
<1>4. /\ handlerQ' \in Seq(QueueBlock) /\ Len(handlerQ) \in Nat /\ Len(handlerQ') = Len(handlerQ) + 1
      /\ \A i \in 1..Len(handlerQ) : handlerQ'[i] = handlerQ[i] /\ handlerQ[i] \in QueueBlock
      /\ handlerQ'[Len(handlerQ) + 1] = b
      /\ DOMAIN handlerQ = 1..Len(handlerQ)
  BY <1>2, <1>3, QueueAt, AppendAt
<1>5. /\ owner' \in [Fd -> Conn \cup {NoConn}]
      /\ \A f \in Fd : owner[f] # NoConn => owner'[f] = owner[f]
      /\ b.fd \in Fd => owner'[b.fd] = c
  BY <1>2, <1>3, FdNat
<1>6. \A d \in Conn : d # NoConn
  BY DEF Conn, NoConn
<1>7. TypeOK'
  BY <1>1, <1>2, <1>4, <1>5 DEF TypeOK, QueueBlock
<1>8. LifeInv' /\ AcceptInv' /\ ShapeInv'
  BY <1>1 DEF SocketsInv, LifeInv, AcceptInv, ShapeInv
<1>9. \A i \in 1..Len(handlerQ') : i \in 1..Len(handlerQ) \/ i = Len(handlerQ) + 1
  BY <1>4
<1>10. OnceInv'
  <2>1. \A i \in 1..Len(handlerQ') : handlerQ'[i].kind = "accept" => sock'[handlerQ'[i].conn].mem = "none"
    BY <1>1, <1>3, <1>4, <1>9 DEF SocketsInv, OnceInv
  <2>2. ASSUME NEW i \in 1..Len(handlerQ'), NEW j \in 1..Len(handlerQ'),
               handlerQ'[i].kind = "accept", handlerQ'[j].kind = "accept",
               handlerQ'[i].conn = handlerQ'[j].conn
        PROVE  i = j
    <3>1. CASE i \in 1..Len(handlerQ) /\ j \in 1..Len(handlerQ)
      BY <1>4, <2>2, <3>1 DEF SocketsInv, OnceInv
    <3>2. CASE i = Len(handlerQ) + 1 /\ j = Len(handlerQ) + 1
      BY <3>2
    <3>3. CASE i \in 1..Len(handlerQ) /\ j = Len(handlerQ) + 1
      BY <1>1, <1>3, <1>4, <2>2, <3>3
    <3>4. CASE i = Len(handlerQ) + 1 /\ j \in 1..Len(handlerQ)
      BY <1>1, <1>3, <1>4, <2>2, <3>4
    <3> QED
      BY <1>9, <3>1, <3>2, <3>3, <3>4
  <2> QED
    BY <2>1, <2>2 DEF OnceInv
<1>11. EarlyInv'
  <2>1. QueueLess({"open"})
    BY <1>2, <1>3, LessIfOther
  <2>2. \A d \in Conn : Unopened(d)' => Unopened(d)
    BY <1>1, <1>2, <2>1, LessOpen
  <2> QED
    BY <1>1, <2>2 DEF SocketsInv, EarlyInv
<1>12. OwnerInv'
  <2> SUFFICES ASSUME "overlap" \notin hist'
               PROVE  /\ \A d \in Conn : sock'[d].socketfd \in Fd =>
                           \/ owner'[sock'[d].socketfd] = d
                           \/ \E u \in Threads : ~Fresh(thread'[d][u])
                      /\ \A i \in 1..Len(handlerQ') :
                           handlerQ'[i].kind = "accept" /\ handlerQ'[i].fd \in Fd
                             => owner'[handlerQ'[i].fd] = handlerQ'[i].conn
    BY DEF OwnerInv
  <2>1. /\ \A d \in Conn : sock[d].socketfd \in Fd =>
             \/ owner[sock[d].socketfd] = d
             \/ \E u \in Threads : ~Fresh(thread[d][u])
        /\ \A i \in 1..Len(handlerQ) :
             handlerQ[i].kind = "accept" /\ handlerQ[i].fd \in Fd
               => owner[handlerQ[i].fd] = handlerQ[i].conn
    BY <1>1 DEF SocketsInv, OwnerInv
  <2>2. \A d \in Conn : sock[d].socketfd \in Fd =>
             \/ owner'[sock[d].socketfd] = d
             \/ \E u \in Threads : ~Fresh(thread[d][u])
    BY <1>5, <1>6, <2>1
  <2>3. ASSUME NEW i \in 1..Len(handlerQ'), handlerQ'[i].kind = "accept", handlerQ'[i].fd \in Fd
        PROVE  owner'[handlerQ'[i].fd] = handlerQ'[i].conn
    <3>1. CASE i \in 1..Len(handlerQ)
      <4>1. owner[handlerQ[i].fd] = handlerQ[i].conn /\ handlerQ[i].conn \in Conn
        BY <1>4, <2>1, <2>3, <3>1 DEF QueueBlock
      <4> QED
        BY <1>4, <1>5, <1>6, <2>3, <3>1, <4>1
    <3>2. CASE i = Len(handlerQ) + 1
      BY <1>3, <1>4, <1>5, <2>3, <3>2
    <3> QED
      BY <1>9, <3>1, <3>2
  <2> QED
    BY <1>1, <2>2, <2>3
<1>13. CloseIsLast'
  <2>1. clean[c].at = "none"
    BY <1>1 DEF SocketsInv, LifeInv
  <2> QED
    BY <1>1, <1>2, <1>3, <2>1, AppendLast
<1> QED
  BY <1>7, <1>8, <1>10, <1>11, <1>12, <1>13 DEF SocketsInv

LEMMA Accepts ==
  ASSUME SocketsInv, NEW c \in Conn, HandleAccept(c)
  PROVE  SocketsInv'
<1>1. /\ main = Idle /\ handlerQ # <<>> /\ Head(handlerQ).kind = "accept" /\ Head(handlerQ).conn = c
      /\ sock' = [sock EXCEPT ![c] = Created(Head(handlerQ).fd)]
      /\ main' = [conn |-> c, at |-> "count", seen |-> open]
      /\ handlerQ' = Tail(handlerQ)
      /\ hist' = Noted("raced", \E d \in Conn : clean[d].at = "count")
      /\ UNCHANGED <<server, owner, thread, clean, open, dead>>
  BY DEF HandleAccept, Runs
<1>2. TypeOK /\ CloseIsLast /\ sock \in [Conn -> SocketState]
  BY DEF SocketsInv, TypeOK
<1>3. /\ handlerQ' \in Seq(QueueBlock) /\ Len(handlerQ) \in Nat /\ Len(handlerQ) > 0
      /\ Len(handlerQ') = Len(handlerQ) - 1
      /\ \A i \in 1..Len(handlerQ) - 1 : handlerQ'[i] = handlerQ[i + 1]
      /\ \A i \in 1..Len(handlerQ) : handlerQ[i] \in QueueBlock
      /\ Head(handlerQ) = handlerQ[1]
  BY <1>1, <1>2, QueueAt, TailAt
<1>4. PICK fd \in Fd \cup {0, -1} : fd = handlerQ[1].fd
  BY <1>3 DEF QueueBlock
<1>5. 1 \in 1..Len(handlerQ) /\ handlerQ[1].kind = "accept" /\ handlerQ[1].conn = c
  BY <1>1, <1>3
<1>6. /\ sock' \in [Conn -> SocketState]
      /\ sock'[c].mem = "live" /\ sock'[c].channel = "NULL" /\ sock'[c].socketfd = fd
      /\ \A d \in Conn : d # c => sock'[d] = sock[d]
  <2>1. Created(fd) \in SocketState /\ sock' = [sock EXCEPT ![c] = Created(fd)]
    BY <1>1, <1>3, <1>4, CreatedType
  <2> QED
    BY <1>2, <2>1, CreatedType
<1>7. /\ sock[c].mem = "none" /\ clean[c].at = "none"
      /\ \A u \in Threads : thread[c][u] = <<>>
  <2>1. sock[c].mem = "none"
    BY <1>5 DEF SocketsInv, OnceInv
  <2> QED
    BY <2>1 DEF SocketsInv, LifeInv
<1>8. TypeOK'
  <2>1. hist' \subseteq History
    BY <1>1, <1>2, NotedGrows DEF History
  <2>2. main' \in [conn : Conn \cup {NoConn}, at : {"none", "count", "banner"}, seen : Int]
    BY <1>1, <1>2 DEF TypeOK
  <2> QED
    BY <1>1, <1>2, <1>3, <1>6, <2>1, <2>2 DEF TypeOK, QueueBlock
<1>9. LifeInv'
  BY <1>1, <1>6, <1>7 DEF SocketsInv, LifeInv
<1>10. AcceptInv'
  BY <1>1, <1>6 DEF AcceptInv
<1>11. ASSUME NEW i \in 1..Len(handlerQ')
       PROVE  i + 1 \in 1..Len(handlerQ) /\ i + 1 # 1 /\ handlerQ'[i] = handlerQ[i + 1]
  BY <1>3
<1>12. OnceInv'
  <2>1. ASSUME NEW i \in 1..Len(handlerQ'), handlerQ'[i].kind = "accept"
        PROVE  sock'[handlerQ'[i].conn].mem = "none"
    <3>1. handlerQ[i + 1].conn # c /\ sock[handlerQ[i + 1].conn].mem = "none"
      BY <1>5, <1>11, <2>1 DEF SocketsInv, OnceInv
    <3>2. handlerQ[i + 1].conn \in Conn
      BY <1>3, <1>11 DEF QueueBlock
    <3> QED
      BY <1>6, <1>11, <3>1, <3>2
  <2>2. ASSUME NEW i \in 1..Len(handlerQ'), NEW j \in 1..Len(handlerQ'),
               handlerQ'[i].kind = "accept", handlerQ'[j].kind = "accept",
               handlerQ'[i].conn = handlerQ'[j].conn
        PROVE  i = j
    <3>1. i + 1 = j + 1
      BY <1>11, <2>2 DEF SocketsInv, OnceInv
    <3>2. i \in Int /\ j \in Int
      OBVIOUS
    <3> QED
      BY <3>1, <3>2
  <2> QED
    BY <2>1, <2>2 DEF OnceInv
<1>13. EarlyInv'
  <2> SUFFICES ASSUME "early" \notin hist', NEW d \in Conn, sock'[d].channel = "closed"
               PROVE  ~Unopened(d)' /\ (clean'[d].at # "none" => thread'[d]["write"] = <<>>)
    BY DEF EarlyInv
  <2>1. d # c /\ sock[d].channel = "closed"
    BY <1>6
  <2>2. "early" \notin hist
    BY <1>1 DEF Noted
  <2>3. ~Unopened(d) /\ (clean[d].at # "none" => thread[d]["write"] = <<>>)
    BY <2>1, <2>2 DEF SocketsInv, EarlyInv
  <2>4. QueueLess({"open"}) /\ main'.conn # d
    BY <1>1, <1>2, <2>1, LessIfTail
  <2>5. ~Unopened(d)'
    BY <1>2, <2>3, <2>4, LessOpen
  <2> QED
    BY <1>1, <2>3, <2>5
<1>14. ShapeInv'
  BY <1>1, <1>6 DEF SocketsInv, ShapeInv
<1>15. OwnerInv'
  <2> SUFFICES ASSUME "overlap" \notin hist'
               PROVE  /\ \A d \in Conn : sock'[d].socketfd \in Fd =>
                           \/ owner'[sock'[d].socketfd] = d
                           \/ \E u \in Threads : ~Fresh(thread'[d][u])
                      /\ \A i \in 1..Len(handlerQ') :
                           handlerQ'[i].kind = "accept" /\ handlerQ'[i].fd \in Fd
                             => owner'[handlerQ'[i].fd] = handlerQ'[i].conn
    BY DEF OwnerInv
  <2>1. "overlap" \notin hist
    BY <1>1 DEF Noted
  <2>2. /\ \A d \in Conn : sock[d].socketfd \in Fd =>
             \/ owner[sock[d].socketfd] = d
             \/ \E u \in Threads : ~Fresh(thread[d][u])
        /\ \A i \in 1..Len(handlerQ) :
             handlerQ[i].kind = "accept" /\ handlerQ[i].fd \in Fd
               => owner[handlerQ[i].fd] = handlerQ[i].conn
    BY <2>1 DEF SocketsInv, OwnerInv
  <2>3. fd \in Fd => owner[fd] = c
    BY <1>4, <1>5, <2>2
  <2>4. ASSUME NEW d \in Conn, sock'[d].socketfd \in Fd
        PROVE  \/ owner'[sock'[d].socketfd] = d
               \/ \E u \in Threads : ~Fresh(thread'[d][u])
    <3>1. CASE d = c
      BY <1>1, <1>6, <2>3, <2>4, <3>1
    <3>2. CASE d # c
      BY <1>1, <1>6, <2>2, <2>4, <3>2
    <3> QED
      BY <3>1, <3>2
  <2>5. \A i \in 1..Len(handlerQ') : handlerQ'[i].kind = "accept" /\ handlerQ'[i].fd \in Fd
          => owner'[handlerQ'[i].fd] = handlerQ'[i].conn
    BY <1>1, <1>11, <2>2
  <2> QED
    BY <2>4, <2>5
<1>16. CloseIsLast'
  BY <1>1, <1>2, TailLast
<1> QED
  BY <1>8, <1>9, <1>10, <1>12, <1>13, <1>14, <1>15, <1>16 DEF SocketsInv

LEMMA Counts ==
  ASSUME SocketsInv, NEW c \in Conn, AcceptStarts(c)
  PROVE  SocketsInv'
<1>1. /\ main.conn = c /\ main.at = "count"
      /\ open' = main.seen + 1
      /\ main' = [conn |-> c, at |-> "banner", seen |-> 0]
      /\ UNCHANGED <<server, owner, clean, dead, hist>>
  BY DEF AcceptStarts
<1>2. /\ TypeOK /\ CloseIsLast /\ hist \subseteq History
      /\ sock \in [Conn -> SocketState] /\ thread \in [Conn -> [Threads -> Seq(Step)]]
      /\ main \in [conn : Conn \cup {NoConn}, at : {"none", "count", "banner"}, seen : Int]
      /\ clean \in [Conn -> [at : {"none", "count", "done"}, seen : Int]]
      /\ server \in {"created", "listening", "deaf"}
  BY DEF SocketsInv, TypeOK
<1>3. dead \in BOOLEAN
  BY <1>2 DEF TypeOK
<1>4. /\ open' \in Int
      /\ main' \in [conn : Conn \cup {NoConn}, at : {"none", "count", "banner"}, seen : Int]
      /\ main'.conn = c /\ main'.at = "banner"
  BY <1>1, <1>2
<1>5. sock[c].channel = "NULL" /\ sock[c].mem = "live"
  BY <1>1 DEF SocketsInv, AcceptInv
<1>6. clean[c].at = "none" /\ \A u \in Threads : thread[c][u] = <<>>
  BY <1>5 DEF SocketsInv, LifeInv
<1>7. CASE SocketStartFails(c)
  <2>1. UNCHANGED <<sock, thread, handlerQ>>
    BY <1>7 DEF SocketStartFails
  <2>2. QueueLess({"accept", "open"}) /\ CloseIsLast'
    BY <1>1, <1>2, <2>1, LessIfSame DEF CloseIsLast
  <2> QED
    BY <1>1, <1>2, <1>3, <1>4, <2>1, <2>2, Still
<1>8. CASE SocketStarts(c)
  <2>1. /\ sock[c].socketfd \in Fd
        /\ handlerQ' = Append(handlerQ, Block("open", c))
        /\ thread' = [thread EXCEPT ![c]["read"] = <<"wait">>]
    BY <1>8 DEF SocketStarts
  <2>2. /\ "read" \in Threads /\ "write" \in Threads /\ "wait" \in Step
        /\ \A u \in Threads : u # "read" => u = "write"
    BY DEF Threads, Step
  <2>3. /\ Block("open", c) \in QueueBlock /\ Block("open", c).kind = "open" /\ Block("open", c).conn = c
        /\ Block("open", c).kind # "close"
    BY BlockIs
  <2>4. /\ sock' \in [Conn -> SocketState]
        /\ sock'[c].mem = "live" /\ sock'[c].channel = "open"
        /\ \A d \in Conn : /\ sock'[d].socketfd = sock[d].socketfd /\ sock'[d].mem = sock[d].mem
                           /\ d # c => sock'[d].channel = sock[d].channel
    <3>1. PICK opened \in BOOLEAN :
            sock' = [sock EXCEPT ![c].channel = "open", ![c].record = opened,
                                 ![c].log = IF opened THEN "open" ELSE "none"]
      BY <1>8 DEF SocketStarts
    <3> DEFINE s == [sock[c] EXCEPT !.channel = "open", !.record = opened,
                                    !.log = IF opened THEN "open" ELSE "none"]
    <3>2. sock[c] \in SocketState /\ sock' = [sock EXCEPT ![c] = s]
      BY <1>2, <3>1
    <3>3. s \in SocketState /\ s.mem = sock[c].mem /\ s.channel = "open" /\ s.socketfd = sock[c].socketfd
      BY <3>2 DEF SocketState
    <3> HIDE DEF s
    <3> QED
      BY <1>2, <1>5, <3>2, <3>3
  <2>5. <<"wait">> \in Seq(Step) /\ Shape(<<"wait">>) /\ Fresh(<<"wait">>)
    BY BegunShape
  <2>6. /\ thread' \in [Conn -> [Threads -> Seq(Step)]]
        /\ thread'[c]["read"] = <<"wait">> /\ thread'[c]["write"] = <<>>
        /\ \A d \in Conn, u \in Threads : d # c => thread'[d][u] = thread[d][u]
    BY <1>2, <1>6, <2>1, <2>2, <2>5
  <2>7. Shape(<<>>) /\ Fresh(<<>>)
    BY BegunShape
  <2>8. QueueLess({"accept"})
    BY <1>2, <2>1, <2>3, LessIfOther
  <2>9. CloseIsLast'
    BY <1>1, <1>2, <1>6, <2>1, <2>3, AppendLast
  <2>10. TypeOK'
    BY <1>1, <1>2, <1>3, <1>4, <2>4, <2>6, <2>8 DEF TypeOK, QueueLess, QueueBlock
  <2>11. LifeInv'
    <3> SUFFICES ASSUME NEW d \in Conn
                 PROVE  /\ sock'[d].mem = "none" => sock'[d].channel = "NULL"
                        /\ sock'[d].channel = "NULL" => \A u \in Threads : thread'[d][u] = <<>>
                        /\ clean'[d].at # "none" => sock'[d].channel = "closed" /\ thread'[d]["read"] = <<>>
                        /\ sock'[d].mem = "freed" => clean'[d].at # "none"
      BY DEF LifeInv
    <3>1. /\ sock[d].mem = "none" => sock[d].channel = "NULL"
          /\ sock[d].channel = "NULL" => \A u \in Threads : thread[d][u] = <<>>
          /\ clean[d].at # "none" => sock[d].channel = "closed" /\ thread[d]["read"] = <<>>
          /\ sock[d].mem = "freed" => clean[d].at # "none"
      BY DEF SocketsInv, LifeInv
    <3>2. CASE d = c
      BY <1>1, <1>6, <2>4, <3>2
    <3>3. CASE d # c
      BY <1>1, <2>2, <2>4, <2>6, <3>1, <3>3
    <3> QED
      BY <3>2, <3>3
  <2>12. AcceptInv'
    BY <1>4 DEF AcceptInv
  <2>13. OnceInv'
    <3>1. \A i \in 1..Len(handlerQ) : handlerQ[i].conn \in Conn
      BY <1>2, QueueAt DEF QueueBlock
    <3> QED
      BY <1>2, <2>4, <2>8, <3>1, LessOnce DEF SocketsInv
  <2>14. EarlyInv'
    <3> SUFFICES ASSUME "early" \notin hist', NEW d \in Conn, sock'[d].channel = "closed"
                 PROVE  ~Unopened(d)' /\ (clean'[d].at # "none" => thread'[d]["write"] = <<>>)
      BY DEF EarlyInv
    <3>1. d # c /\ sock[d].channel = "closed"
      BY <2>4
    <3>2. ~Unopened(d) /\ (clean[d].at # "none" => thread[d]["write"] = <<>>)
      BY <1>1, <3>1 DEF SocketsInv, EarlyInv
    <3>3. ~Unopened(d)'
      <4>1. /\ Len(handlerQ) \in Nat
            /\ DOMAIN handlerQ = 1..Len(handlerQ) /\ DOMAIN handlerQ' = 1..Len(handlerQ) + 1
            /\ \A i \in 1..Len(handlerQ) : handlerQ'[i] = handlerQ[i]
            /\ handlerQ'[Len(handlerQ) + 1] = Block("open", c)
        BY <1>2, <2>1, <2>3, QueueAt, AppendAt
      <4>2. Block("open", c) # Block("open", d)
        BY <3>1 DEF Block
      <4>3. \A i \in DOMAIN handlerQ' : handlerQ'[i] # Block("open", d)
        BY <3>2, <4>1, <4>2 DEF Unopened
      <4> QED
        BY <1>4, <3>1, <4>3 DEF Unopened
    <3> QED
      BY <1>1, <2>6, <2>2, <3>1, <3>2, <3>3
  <2>15. ShapeInv'
    <3>1. \A u \in Threads : Shape(thread'[c][u]) /\ Fresh(thread'[c][u])
      BY <2>2, <2>5, <2>6, <2>7
    <3>2. ASSUME NEW d \in Conn
          PROVE  /\ \A u \in Threads : Shape(thread[d][u])
                 /\ sock[d].channel = "open" =>
                      sock[d].socketfd \in Fd /\ \A u \in Threads : Fresh(thread[d][u])
      BY DEF SocketsInv, ShapeInv
    <3>3. ASSUME NEW d \in Conn
          PROVE  /\ \A u \in Threads : Shape(thread'[d][u])
                 /\ sock'[d].channel = "open" =>
                      sock'[d].socketfd \in Fd /\ \A u \in Threads : Fresh(thread'[d][u])
      <4>1. CASE d = c
        BY <2>1, <2>4, <3>1, <4>1
      <4>2. CASE d # c
        BY <2>4, <2>6, <3>2, <4>2
      <4> QED
        BY <4>1, <4>2
    <3> QED
      BY <3>3 DEF ShapeInv
  <2>16. OwnerInv'
    <3> SUFFICES ASSUME "overlap" \notin hist'
                 PROVE  /\ \A d \in Conn : sock'[d].socketfd \in Fd =>
                             \/ owner'[sock'[d].socketfd] = d
                             \/ \E u \in Threads : ~Fresh(thread'[d][u])
                        /\ \A i \in 1..Len(handlerQ') :
                             handlerQ'[i].kind = "accept" /\ handlerQ'[i].fd \in Fd
                               => owner'[handlerQ'[i].fd] = handlerQ'[i].conn
      BY DEF OwnerInv
    <3>1. /\ \A d \in Conn : sock[d].socketfd \in Fd =>
               \/ owner[sock[d].socketfd] = d
               \/ \E u \in Threads : ~Fresh(thread[d][u])
          /\ \A i \in 1..Len(handlerQ) :
               handlerQ[i].kind = "accept" /\ handlerQ[i].fd \in Fd
                 => owner[handlerQ[i].fd] = handlerQ[i].conn
      BY <1>1 DEF SocketsInv, OwnerInv
    <3>2. \A i \in 1..Len(handlerQ') :
            handlerQ'[i].kind = "accept" /\ handlerQ'[i].fd \in Fd
              => owner'[handlerQ'[i].fd] = handlerQ'[i].conn
      BY <1>1, <1>2, <2>8, <3>1, LessOwned
    <3>3. ASSUME NEW d \in Conn, sock'[d].socketfd \in Fd
          PROVE  \/ owner'[sock'[d].socketfd] = d
                 \/ \E u \in Threads : ~Fresh(thread'[d][u])
      <4>1. CASE d = c
        BY <1>1, <1>6, <2>4, <2>7, <3>1, <3>3, <4>1
      <4>2. CASE d # c
        BY <1>1, <2>4, <2>6, <3>1, <3>3, <4>2
      <4> QED
        BY <4>1, <4>2
    <3> QED
      BY <3>2, <3>3
  <2> QED
    BY <2>9, <2>10, <2>11, <2>12, <2>13, <2>14, <2>15, <2>16 DEF SocketsInv
<1> QED
  BY <1>7, <1>8 DEF AcceptStarts

LEMMA ReplyShape ==
  ASSUME NEW q \in Seq(Step), Shape(q)
  PROVE  /\ Append(q, "reply") \in Seq(Step) /\ Shape(Append(q, "reply"))
         /\ Fresh(Append(q, "reply")) <=> Fresh(q)
<1> DEFINE r == Append(q, "reply")
<1>1. "reply" \in Step
  BY DEF Step
<1>2. /\ r \in Seq(Step) /\ Len(q) \in Nat /\ Len(r) = Len(q) + 1
      /\ \A i \in 1..Len(q) : r[i] = q[i]
      /\ r[Len(q) + 1] = "reply"
  BY <1>1, AppendAt
<1> HIDE DEF r
<1>3. ASSUME NEW i \in 1..Len(r)
      PROVE  /\ r[i] = "close" => i < Len(r) /\ r[i + 1] = "clear"
             /\ r[i] = "fclose" => i < Len(r) /\ r[i + 1] = "null"
             /\ r[i] = "clear" /\ i > 1 => r[i - 1] = "close"
  <2>1. CASE i \in 1..Len(q)
    <3>1. /\ q[i] = "close" => i < Len(q) /\ q[i + 1] = "clear"
          /\ q[i] = "fclose" => i < Len(q) /\ q[i + 1] = "null"
          /\ q[i] = "clear" /\ i > 1 => q[i - 1] = "close"
      BY <2>1 DEF Shape
    <3> QED
      BY <1>2, <2>1, <3>1
  <2>2. CASE i = Len(q) + 1
    BY <1>2, <2>2
  <2> QED
    BY <1>2, <2>1, <2>2
<1>4. Shape(r)
  BY <1>3 DEF Shape
<1>5. Fresh(r) <=> Fresh(q)
  <2>1. r # <<>>
    BY <1>2
  <2>2. CASE q = <<>>
    <3>1. Len(q) = 0
      BY <2>2
    <3>2. r[1] = "reply"
      BY <1>2, <3>1
    <3> QED
      BY <2>2, <3>2 DEF Fresh
  <2>3. CASE q # <<>>
    <3>1. 1 \in 1..Len(q)
      BY <1>2, <2>3
    <3> QED
      BY <1>2, <2>1, <2>3, <3>1 DEF Fresh
  <2> QED
    BY <2>2, <2>3
<1> QED
  BY <1>2, <1>4, <1>5 DEF r

LEMMA Banners ==
  ASSUME SocketsInv, NEW c \in Conn, AcceptBanner(c)
  PROVE  SocketsInv'
<1>1. /\ main.conn = c /\ main.at = "banner" /\ main' = Idle
      /\ hist' = Noted("stale", sock[c].mem = "freed")
      /\ UNCHANGED <<server, owner, sock, clean, handlerQ, open>>
  BY DEF AcceptBanner
<1>2. /\ TypeOK /\ CloseIsLast
      /\ sock \in [Conn -> SocketState] /\ thread \in [Conn -> [Threads -> Seq(Step)]]
      /\ clean \in [Conn -> [at : {"none", "count", "done"}, seen : Int]]
      /\ server \in {"created", "listening", "deaf"} /\ open \in Int
  BY DEF SocketsInv, TypeOK
<1>3. hist \subseteq hist' /\ hist' \subseteq History
  <2>1. "stale" \in History
    BY DEF History
  <2> QED
    BY <1>1, <1>2, <2>1, NotedGrows
<1>4. /\ main' \in [conn : Conn \cup {NoConn}, at : {"none", "count", "banner"}, seen : Int]
      /\ main'.at = "none" /\ \A d \in Conn : main'.conn # d
  BY <1>1 DEF Idle, Conn, NoConn
<1>5. dead' \in BOOLEAN
  <2>1. dead \in BOOLEAN
    BY <1>2 DEF TypeOK
  <2>2. dead' = dead \/ dead' = TRUE \/ dead' \in BOOLEAN
    BY Zenon DEF AcceptBanner
  <2> QED
    BY <2>1, <2>2, Zenon
<1>6. QueueLess({"accept", "open"}) /\ CloseIsLast'
  BY <1>1, <1>2, LessIfSame DEF CloseIsLast
<1>7. CASE thread' = thread
  BY <1>1, <1>2, <1>3, <1>4, <1>5, <1>6, <1>7, Still
<1>8. CASE /\ sock[c].channel # "NULL"
           /\ thread' = [thread EXCEPT ![c]["write"] = Append(@, "reply")]
  <2> DEFINE q == Append(thread[c]["write"], "reply")
  <2>1. "read" \in Threads /\ "write" \in Threads
    BY DEF Threads
  <2>2. q \in Seq(Step) /\ Shape(q) /\ (Fresh(q) <=> Fresh(thread[c]["write"]))
    <3>1. Shape(thread[c]["write"]) /\ thread[c]["write"] \in Seq(Step)
      BY <1>2, <2>1 DEF SocketsInv, ShapeInv
    <3> QED
      BY <3>1, ReplyShape
  <2>3. thread' = [thread EXCEPT ![c]["write"] = q]
    BY <1>8
  <2> HIDE DEF q
  <2>4. /\ thread' \in [Conn -> [Threads -> Seq(Step)]] /\ thread'[c]["write"] = q
        /\ \A d \in Conn, u \in Threads : d # c \/ u # "write" => thread'[d][u] = thread[d][u]
    BY <1>2, <2>1, <2>2, <2>3, ThreadUpdate
  <2>5. /\ \A d \in Conn, u \in Threads : Shape(thread[d][u]) => Shape(thread'[d][u])
        /\ \A d \in Conn, u \in Threads : Fresh(thread'[d][u]) <=> Fresh(thread[d][u])
    <3> SUFFICES ASSUME NEW d \in Conn, NEW u \in Threads
                 PROVE  /\ Shape(thread[d][u]) => Shape(thread'[d][u])
                        /\ Fresh(thread'[d][u]) <=> Fresh(thread[d][u])
      BY Zenon
    <3>1. Shape(thread'[c]["write"]) /\ (Fresh(thread'[c]["write"]) <=> Fresh(thread[c]["write"]))
      BY <2>2, <2>4
    <3>2. CASE d = c /\ u = "write"
      BY Zenon, <3>1, <3>2
    <3>3. CASE d # c \/ u # "write"
      BY <2>4, <3>3
    <3> QED
      BY <3>2, <3>3
  <2>6. TypeOK'
    BY <1>1, <1>2, <1>3, <1>4, <1>5, <2>4 DEF TypeOK
  <2>7. LifeInv'
    BY <1>1, <1>8, <2>1, <2>4 DEF SocketsInv, LifeInv
  <2>8. AcceptInv' /\ OnceInv'
    BY <1>1, <1>4 DEF SocketsInv, AcceptInv, OnceInv
  <2>9. EarlyInv'
    <3> SUFFICES ASSUME "early" \notin hist', NEW d \in Conn, sock'[d].channel = "closed"
                 PROVE  ~Unopened(d)' /\ (clean'[d].at # "none" => thread'[d]["write"] = <<>>)
      BY DEF EarlyInv
    <3>1. ~Unopened(d) /\ (clean[d].at # "none" => thread[d]["write"] = <<>>)
      BY <1>1, <1>3 DEF SocketsInv, EarlyInv
    <3>2. d # c
      BY <1>1, <3>1 DEF Unopened
    <3>3. ~Unopened(d)'
      BY <1>1, <1>4, <3>1 DEF Unopened
    <3> QED
      BY <1>1, <2>1, <2>4, <3>1, <3>2, <3>3
  <2>10. ShapeInv'
    BY <1>1, <2>5 DEF SocketsInv, ShapeInv
  <2>11. OwnerInv'
    <3> SUFFICES ASSUME "overlap" \notin hist'
                 PROVE  /\ \A d \in Conn : sock'[d].socketfd \in Fd =>
                             \/ owner'[sock'[d].socketfd] = d
                             \/ \E u \in Threads : ~Fresh(thread'[d][u])
                        /\ \A i \in 1..Len(handlerQ') :
                             handlerQ'[i].kind = "accept" /\ handlerQ'[i].fd \in Fd
                               => owner'[handlerQ'[i].fd] = handlerQ'[i].conn
      BY DEF OwnerInv
    <3>1. /\ \A d \in Conn : sock[d].socketfd \in Fd =>
               \/ owner[sock[d].socketfd] = d
               \/ \E u \in Threads : ~Fresh(thread[d][u])
          /\ \A i \in 1..Len(handlerQ) :
               handlerQ[i].kind = "accept" /\ handlerQ[i].fd \in Fd
                 => owner[handlerQ[i].fd] = handlerQ[i].conn
      BY <1>3 DEF SocketsInv, OwnerInv
    <3>2. \A d \in Conn : (\E u \in Threads : ~Fresh(thread[d][u]))
                            => \E u \in Threads : ~Fresh(thread'[d][u])
      BY <2>5
    <3> QED
      BY <1>1, <3>1, <3>2
  <2> QED
    BY <1>6, <2>6, <2>7, <2>8, <2>9, <2>10, <2>11 DEF SocketsInv
<1> QED
  BY <1>7, <1>8 DEF AcceptBanner

-------------------------------------------------------------------------------
LEMMA NextKeeps == SocketsInv /\ [Next]_vars => SocketsInv'
<1> SUFFICES ASSUME SocketsInv, [Next]_vars PROVE SocketsInv'
  OBVIOUS
<1>1. CASE UNCHANGED vars
  <2>1. UNCHANGED <<owner, sock, thread, clean, handlerQ, main, hist>>
    BY <1>1 DEF vars
  <2>2. TypeOK'
    BY <1>1 DEF SocketsInv, TypeOK, vars
  <2>3. LifeInv' /\ AcceptInv' /\ OnceInv' /\ ShapeInv' /\ OwnerInv' /\ CloseIsLast'
    BY <2>1 DEF SocketsInv, LifeInv, AcceptInv, OnceInv, ShapeInv, OwnerInv, CloseIsLast
  <2>4. EarlyInv'
    BY <2>1 DEF SocketsInv, EarlyInv, Unopened
  <2> QED
    BY <2>2, <2>3, <2>4 DEF SocketsInv
<1>2. CASE EmailzStart
  BY <1>2, Starting
<1>3. ASSUME NEW c \in Conn,
             \/ ListenerEvent(c) \/ ReadData(c) \/ ReadEnds(c)
             \/ HandlerQueue(c)
             \/ \E t \in Threads : ThreadStep(c, t)
             \/ Cleanup(c) \/ SocketDestroy(c)
      PROVE  SocketsInv'
  <2>1. CASE ListenerEvent(c)
    BY <2>1, Comes
  <2>2. CASE ReadData(c) \/ ReadEnds(c)
    BY <2>2, Waits
  <2>3. CASE HandlerQueue(c)
    BY <2>3, Accepts, Counts, Banners, Runs1 DEF HandlerQueue
  <2>4. ASSUME NEW t \in Threads, ThreadStep(c, t) PROVE SocketsInv'
    BY <2>4, Waits, ReadsLines, Records, Completes, Closes, Clears, RecordCloses DEF ThreadStep
  <2>5. CASE Cleanup(c)
    BY <2>5, Cleans
  <2>6. CASE SocketDestroy(c)
    BY <2>6, Destroys
  <2> QED
    BY <1>3, <2>1, <2>2, <2>3, <2>4, <2>5, <2>6
<1> QED
  BY <1>1, <1>2, <1>3 DEF Next

LEMMA SocketsKept == Spec => []SocketsInv
BY InitSockets, NextKeeps, PTL DEF Spec

\* Sockets, threads, queue and count stay what they are declared to be
\* (emailz_socket_s, emailz_t).
THEOREM SocketsTyped == Spec => []TypeOK
<1>1. SocketsInv => TypeOK
  BY DEF SocketsInv
<1> QED
  BY <1>1, SocketsKept, PTL

\* For any number of connections and descriptors, and any calls that fail: a
\* running connection has a descriptor and it is its own, unless two threads of one
\* connection were in emailz_socket_stop at once.
THEOREM DescriptorStaysKept == Spec => []DescriptorKept
BY InvImplies, SocketsKept, PTL

\* A freed connection has nothing left to run on its threads, no banner and no
\* OPEN to come, unless one was stopped before its OPEN block had run
\* (emailz_handle_accept, emailz_socket_start).
THEOREM FreedStaysOver == Spec => []FreedIsOver
BY InvImplies, SocketsKept, PTL

\* Whatever is queued for a connection that is cleaned up is in front of its CLOSE
\* (the cleanup handler of emailz_socket_start).
THEOREM CloseStaysLast == Spec => []CloseIsLast
<1>1. SocketsInv => CloseIsLast
  BY DEF SocketsInv
<1> QED
  BY <1>1, SocketsKept, PTL

-------------------------------------------------------------------------------
(***************************************************************************)
(* What a connection leaves behind.                                        *)
(***************************************************************************)
\* Clearing is followed by closing the record, and that by forgetting it.
Course(q) ==
  \A i \in 1..Len(q) :
    /\ q[i] = "clear" => i < Len(q) /\ q[i + 1] = "fclose"
    /\ q[i] = "null" /\ i > 1 => q[i - 1] = "fclose"

\* The record is not closed and not yet forgotten.
Unclosed(q) == q # <<>> => q[1] # "null"

\* The record is still to be closed.
ToClose(q) == \E i \in 1..Len(q) : q[i] = "fclose"

\* An open record is known to its connection, and while the channel is closed some
\* thread has still to close it.
LogKept(c) ==
  /\ \A t \in Threads : Course(thread[c][t])
  /\ sock[c].log = "open" =>
       /\ sock[c].record = TRUE
       /\ \A t \in Threads : Unclosed(thread[c][t])
       /\ clean[c].at = "none"
       /\ sock[c].channel = "closed" => \E t \in Threads : ToClose(thread[c][t])

LogInv == \A c \in Conn : LogKept(c)

Accepting(c, f) == \E i \in 1..Len(handlerQ) : handlerQ[i] = [kind |-> "accept", conn |-> c, fd |-> f]
Holds(c, f) == sock[c].mem # "none" /\ sock[c].channel # "closed" /\ sock[c].socketfd = f

\* A descriptor stands for a connection only while an accept block or a socket
\* that is not stopped has it.
OwnedInv == \A c \in Conn, f \in Fd : owner[f] = c => Accepting(c, f) \/ Holds(c, f)

HandlersInv == \A c \in Conn : sock[c].mem = "freed" => sock[c].handlers = {} \/ "stale" \in hist

LEMMA CourseTail ==
  ASSUME NEW q \in Seq(Step), q # <<>>, Course(q)
  PROVE  /\ Course(Tail(q))
         /\ q[1] # "fclose" => Unclosed(Tail(q))
         /\ q[1] = "clear" => ToClose(Tail(q))
         /\ q[1] # "fclose" /\ ToClose(q) => ToClose(Tail(q))
<1>1. /\ Len(q) \in Nat /\ Len(q) > 0 /\ Len(Tail(q)) = Len(q) - 1
      /\ \A i \in 1..Len(q) - 1 : Tail(q)[i] = q[i + 1]
  BY TailAt
<1>2. Course(Tail(q))
  <2> SUFFICES ASSUME NEW i \in 1..Len(Tail(q))
               PROVE  /\ Tail(q)[i] = "clear" => i < Len(Tail(q)) /\ Tail(q)[i + 1] = "fclose"
                      /\ Tail(q)[i] = "null" /\ i > 1 => Tail(q)[i - 1] = "fclose"
    BY DEF Course
  <2>1. i + 1 \in 1..Len(q) /\ Tail(q)[i] = q[i + 1]
    BY <1>1
  <2>2. /\ q[i + 1] = "clear" => i + 1 < Len(q) /\ q[i + 1 + 1] = "fclose"
        /\ q[i + 1] = "null" => q[i + 1 - 1] = "fclose"
    BY <2>1 DEF Course
  <2> QED
    BY <1>1, <2>1, <2>2
<1>3. q[1] # "fclose" => Unclosed(Tail(q))
  <2>1. ASSUME Tail(q) # <<>> PROVE 2 \in 1..Len(q) /\ Tail(q)[1] = q[2]
    <3>1. Len(Tail(q)) # 0
      BY <2>1, TailAt
    <3>2. 2 \in 1..Len(q) /\ 1 \in 1..Len(q) - 1 /\ 1 + 1 = 2
      BY <1>1, <3>1
    <3> QED
      BY <1>1, <3>2
  <2>2. 2 \in 1..Len(q) /\ q[2] = "null" => q[2 - 1] = "fclose"
    BY DEF Course
  <2> QED
    BY <2>1, <2>2 DEF Unclosed
<1>4. q[1] = "clear" => ToClose(Tail(q))
  <2>1. 1 \in 1..Len(q)
    BY <1>1
  <2>2. q[1] = "clear" => 1 < Len(q) /\ q[1 + 1] = "fclose"
    BY <2>1 DEF Course
  <2>3. 1 < Len(q) => 1 \in 1..Len(Tail(q)) /\ Tail(q)[1] = q[1 + 1]
    BY <1>1
  <2> QED
    BY <2>2, <2>3 DEF ToClose
<1>5. ASSUME q[1] # "fclose", ToClose(q) PROVE ToClose(Tail(q))
  <2>1. PICK i \in 1..Len(q) : q[i] = "fclose"
    BY <1>5 DEF ToClose
  <2>2. i # 1
    BY <1>5, <2>1
  <2>3. i - 1 \in 1..Len(q) - 1 /\ i - 1 + 1 = i
    BY <1>1, <2>2
  <2>4. i - 1 \in 1..Len(Tail(q)) /\ Tail(q)[i - 1] = "fclose"
    BY <1>1, <2>1, <2>3
  <2> QED
    BY <2>4 DEF ToClose
<1> QED
  BY <1>2, <1>3, <1>4, <1>5

LEMMA CourseConcat ==
  ASSUME NEW p \in Seq(Step), NEW q \in Seq(Step), Course(p), Course(q)
  PROVE  /\ Unclosed(q) => Course(p \o q)
         /\ Unclosed(p) /\ Unclosed(q) => Unclosed(p \o q)
         /\ ToClose(p) \/ ToClose(q) => ToClose(p \o q)
<1>1. /\ p \o q \in Seq(Step) /\ Len(p \o q) = Len(p) + Len(q)
      /\ Len(p) \in Nat /\ Len(q) \in Nat
      /\ \A i \in 1..Len(p) : (p \o q)[i] = p[i]
      /\ \A i \in Len(p) + 1..Len(p) + Len(q) : (p \o q)[i] = q[i - Len(p)]
  BY ConcatAt
<1>2. ASSUME Unclosed(q) PROVE Course(p \o q)
  <2> SUFFICES ASSUME NEW i \in 1..Len(p \o q)
               PROVE  /\ (p \o q)[i] = "clear" => i < Len(p \o q) /\ (p \o q)[i + 1] = "fclose"
                      /\ (p \o q)[i] = "null" /\ i > 1 => (p \o q)[i - 1] = "fclose"
    BY DEF Course
  <2>1. CASE i \in 1..Len(p)
    <3>1. /\ p[i] = "clear" => i < Len(p) /\ p[i + 1] = "fclose"
          /\ p[i] = "null" /\ i > 1 => p[i - 1] = "fclose"
      BY <2>1 DEF Course
    <3> QED
      BY <1>1, <2>1, <3>1
  <2>2. CASE i \in Len(p) + 1..Len(p) + Len(q)
    <3> DEFINE k == i - Len(p)
    <3>1. k \in 1..Len(q) /\ (p \o q)[i] = q[k]
      BY <1>1, <2>2
    <3>2. /\ q[k] = "clear" => k < Len(q) /\ q[k + 1] = "fclose"
          /\ q[k] = "null" /\ k > 1 => q[k - 1] = "fclose"
      BY <3>1 DEF Course
    <3>3. q[1] # "null"
      BY <1>1, <1>2, <3>1 DEF Unclosed
    <3>4. ASSUME q[k] = "clear" PROVE i < Len(p \o q) /\ (p \o q)[i + 1] = "fclose"
      <4>1. i + 1 \in Len(p) + 1..Len(p) + Len(q) /\ i + 1 - Len(p) = k + 1 /\ i < Len(p) + Len(q)
        BY <1>1, <2>2, <3>2, <3>4
      <4> QED
        BY <1>1, <3>2, <3>4, <4>1
    <3>5. ASSUME q[k] = "null" PROVE (p \o q)[i - 1] = "fclose"
      <4>1. k # 1
        BY <3>3, <3>5
      <4>2. i - 1 \in Len(p) + 1..Len(p) + Len(q) /\ i - 1 - Len(p) = k - 1 /\ k > 1
        BY <1>1, <2>2, <3>1, <4>1
      <4> QED
        BY <1>1, <3>2, <3>5, <4>2
    <3> QED
      BY <3>1, <3>4, <3>5
  <2> QED
    BY <1>1, <2>1, <2>2
<1>3. ASSUME Unclosed(p), Unclosed(q) PROVE Unclosed(p \o q)
  <2>1. CASE p = <<>>
    <3>1. p \o q = q
      BY <2>1
    <3> QED
      BY <1>3, <3>1
  <2>2. CASE p # <<>>
    <3>1. 1 \in 1..Len(p)
      BY <1>1, <2>2
    <3> QED
      BY <1>1, <1>3, <2>2, <3>1 DEF Unclosed
  <2> QED
    BY <2>1, <2>2
<1>4. ASSUME ToClose(p) PROVE ToClose(p \o q)
  <2>1. PICK i \in 1..Len(p) : p[i] = "fclose"
    BY <1>4 DEF ToClose
  <2>2. i \in 1..Len(p \o q) /\ (p \o q)[i] = "fclose"
    BY <1>1, <2>1
  <2> QED
    BY <2>2 DEF ToClose
<1>5. ASSUME ToClose(q) PROVE ToClose(p \o q)
  <2>1. PICK k \in 1..Len(q) : q[k] = "fclose"
    BY <1>5 DEF ToClose
  <2>2. PICK i : i = Len(p) + k
    OBVIOUS
  <2>3. i \in Len(p) + 1..Len(p) + Len(q) /\ i - Len(p) = k /\ i \in 1..Len(p) + Len(q)
    BY <1>1, <2>2
  <2>4. i \in 1..Len(p \o q) /\ (p \o q)[i] = "fclose"
    BY <1>1, <2>1, <2>3
  <2> QED
    BY <2>4 DEF ToClose
<1> QED
  BY <1>2, <1>3, <1>4, <1>5

LEMMA SingleCourse ==
  ASSUME NEW step \in Step \ {"clear", "null"}
  PROVE  <<step>> \in Seq(Step) /\ Course(<<step>>) /\ Unclosed(<<step>>)
<1>1. <<step>> \in Seq(Step) /\ Len(<<step>>) = 1 /\ <<step>>[1] = step
  OBVIOUS
<1> QED
  BY <1>1 DEF Course, Unclosed

LEMMA StopCourse == Course(Stop) /\ Unclosed(Stop)
<1>1. Unclosed(Stop)
  BY StopAt DEF Unclosed
<1>2. ASSUME NEW i \in 1..4
      PROVE  /\ Stop[i] = "clear" => i < 4 /\ Stop[i + 1] = "fclose"
             /\ Stop[i] = "null" /\ i > 1 => Stop[i - 1] = "fclose"
  <2>1. 2 + 1 = 3 /\ 4 - 1 = 3
    OBVIOUS
  <2>2. CASE i = 1
    BY <2>2, StopAt
  <2>3. CASE i = 2
    BY <2>1, <2>3, StopAt
  <2>4. CASE i = 3
    BY <2>4, StopAt
  <2>5. CASE i = 4
    BY <2>1, <2>5, StopAt
  <2> QED
    BY <2>2, <2>3, <2>4, <2>5, OneToFour
<1> QED
  BY <1>1, <1>2, StopAt DEF Course

\* Only what closes a record has a "fclose" in it, and nothing is begun with "null".
LEMMA BegunCourse ==
  ASSUME NEW p \in {<<>>, <<"wait">>, <<"record", "lines", "wait">>, RecordClose, Stop,
                    <<"reply">>, <<"record out">>, <<"bye">>}
  PROVE  p \in Seq(Step) /\ Course(p) /\ Unclosed(p)
<1>1. CASE p = <<>>
  BY <1>1 DEF Course, Unclosed
<1>2. CASE p \in {<<"wait">>, <<"reply">>, <<"record out">>, <<"bye">>}
  <2>1. {"wait", "reply", "record out", "bye"} \subseteq Step \ {"clear", "null"}
    BY DEF Step
  <2> QED
    BY <1>2, <2>1, SingleCourse
<1>3. CASE p = <<"record", "lines", "wait">>
  BY <1>3 DEF Course, Unclosed, Step
<1>4. CASE p = RecordClose
  BY <1>4 DEF Course, Unclosed, Step, RecordClose
<1>5. CASE p = Stop
  BY <1>5, StopAt, StopCourse
<1> QED
  BY <1>1, <1>2, <1>3, <1>4, <1>5

LEMMA LogInit == Init => LogInv /\ HandlersInv /\ OwnedInv
<1> SUFFICES ASSUME Init PROVE LogInv /\ HandlersInv /\ OwnedInv
  OBVIOUS
<1>1. \A c \in Conn : /\ sock[c].mem = "none" /\ sock[c].log = "none"
                      /\ \A t \in Threads : thread[c][t] = <<>>
  BY DEF Init, Created
<1>2. LogInv
  BY <1>1 DEF LogInv, LogKept, Course
<1>3. HandlersInv
  BY <1>1 DEF HandlersInv
<1>4. OwnedInv
  <2>1. \A f \in Fd : owner[f] = 0
    BY DEF Init, NoConn
  <2>2. \A c \in Conn : c # 0
    BY SocketsAssumption DEF Conn
  <2> QED
    BY <2>1, <2>2 DEF OwnedInv
<1> QED
  BY <1>2, <1>3, <1>4

\* A step is that of one connection.
SameLog(d) ==
  /\ thread'[d] = thread[d]
  /\ sock'[d].log = sock[d].log /\ sock'[d].record = sock[d].record
  /\ sock'[d].channel = sock[d].channel
  /\ clean'[d].at = clean[d].at

LEMMA LogOfOne ==
  ASSUME LogInv, NEW c \in Conn, \A d \in Conn : d # c => SameLog(d), LogKept(c)'
  PROVE  LogInv'
<1> SUFFICES ASSUME NEW d \in Conn, d # c PROVE LogKept(d)'
  BY DEF LogInv
<1>1. LogKept(d) /\ SameLog(d)
  BY DEF LogInv
<1> QED
  BY <1>1 DEF LogKept, SameLog

LEMMA LogOfNone ==
  ASSUME LogInv, \A d \in Conn : SameLog(d)
  PROVE  LogInv'
<1> SUFFICES ASSUME NEW d \in Conn PROVE LogKept(d)'
  BY DEF LogInv
<1>1. LogKept(d) /\ SameLog(d)
  BY DEF LogInv
<1> QED
  BY <1>1 DEF LogKept, SameLog

\* What thread t of connection c has left, while its record is open.
StillCloses(c, t) ==
  sock[c].log = "open" =>
    /\ Unclosed(thread'[c][t])
    /\ ToClose(thread[c][t]) => ToClose(thread'[c][t])

LEMMA LogMoves ==
  ASSUME LogInv, NEW c \in Conn, NEW t \in Threads, NEW step, At(c, t, step),
         \A u \in Threads : u # t => thread'[c][u] = thread[c][u],
         Course(thread'[c][t]), StillCloses(c, t),
         sock'[c].log = sock[c].log, clean' = clean,
         sock[c].log = "open" => sock'[c].record = sock[c].record,
         sock'[c].channel = sock[c].channel \/ ToClose(thread'[c][t])
  PROVE  LogKept(c)'
<1>1. LogKept(c)
  BY DEF LogInv
<1>2. \A u \in Threads : Course(thread'[c][u])
  BY <1>1 DEF LogKept
<1>3. ASSUME sock'[c].log = "open"
      PROVE  /\ sock'[c].record = TRUE
             /\ \A u \in Threads : Unclosed(thread'[c][u])
             /\ clean'[c].at = "none"
             /\ sock'[c].channel = "closed" => \E u \in Threads : ToClose(thread'[c][u])
  <2>1. /\ sock[c].record = TRUE
        /\ \A u \in Threads : Unclosed(thread[c][u])
        /\ clean[c].at = "none"
        /\ sock[c].channel = "closed" => \E u \in Threads : ToClose(thread[c][u])
    BY <1>1, <1>3 DEF LogKept
  <2>2. /\ Unclosed(thread'[c][t])
        /\ ToClose(thread[c][t]) => ToClose(thread'[c][t])
    BY <1>3 DEF StillCloses
  <2>3. \A u \in Threads : Unclosed(thread'[c][u])
    BY <2>1, <2>2
  <2>4. \A u \in Threads : ToClose(thread[c][u]) => ToClose(thread'[c][u])
    BY <2>2
  <2>5. sock'[c].record = TRUE
    BY <1>3, <2>1
  <2>6. sock'[c].channel = "closed" => \E u \in Threads : ToClose(thread'[c][u])
    BY <2>1, <2>4
  <2> QED
    BY <2>1, <2>3, <2>5, <2>6
<1> QED
  BY <1>2, <1>3 DEF LogKept

\* A step other than fclose leaves the closing of the record to be done.
LEMMA DoesLog ==
  ASSUME SocketsInv, LogInv, NEW c \in Conn, NEW t \in Threads,
         NEW step \in Step \ {"fclose"}, At(c, t, step),
         NEW p \in {<<>>, <<"wait">>, <<"record", "lines", "wait">>, RecordClose, Stop},
         Does(c, t, p)
  PROVE  /\ \A d \in Conn : d # c => thread'[d] = thread[d]
         /\ \A u \in Threads : u # t => thread'[c][u] = thread[c][u]
         /\ Course(thread'[c][t]) /\ StillCloses(c, t)
         /\ step = "close" /\ p = <<>> => ToClose(thread'[c][t])
         /\ step = "null" => sock[c].log # "open"
<1> DEFINE q == thread[c][t]
<1>1. q \in Seq(Step) /\ q # <<>> /\ q[1] = step
  BY HeadIs DEF SocketsInv
<1>2. Course(q) /\ Shape(q)
  BY DEF LogInv, LogKept, SocketsInv, ShapeInv
<1>3. Tail(q) \in Seq(Step)
  BY <1>1, TailAt
<1>4. /\ Course(Tail(q)) /\ Unclosed(Tail(q))
      /\ ToClose(q) => ToClose(Tail(q))
  BY <1>1, <1>2, CourseTail
<1>5. p \in Seq(Step) /\ Course(p) /\ Unclosed(p)
  BY BegunCourse
<1> DEFINE r == p \o Tail(q)
<1>6. /\ r \in Seq(Step) /\ Course(r) /\ Unclosed(r)
      /\ ToClose(Tail(q)) => ToClose(r)
  <2>1. r \in Seq(Step)
    BY <1>3, <1>5, ConcatAt
  <2> QED
    BY <1>3, <1>4, <1>5, <2>1, CourseConcat
<1>7. thread' = [thread EXCEPT ![c][t] = r]
  BY DEF Does
<1>8. step = "close" => ToClose(Tail(q))
  <2>1. step = "close" => Tail(q) # <<>> /\ Tail(q)[1] = "clear"
    BY <1>1, <1>2, ShapeTail
  <2>2. ASSUME Tail(q) # <<>>, Tail(q)[1] = "clear" PROVE ToClose(Tail(q))
    <3> DEFINE s == Tail(q)
    <3>1. s \in Seq(Step) /\ s # <<>> /\ Course(s) /\ s[1] = "clear"
      BY <1>3, <1>4, <2>2
    <3>2. 1 \in 1..Len(s)
      BY <3>1, TailAt
    <3>3. 1 < Len(s) /\ s[1 + 1] = "fclose"
      BY <3>1, <3>2 DEF Course
    <3>4. 2 \in 1..Len(s) /\ s[2] = "fclose"
      BY <3>1, <3>3, TailAt
    <3> QED
      BY <3>4 DEF ToClose
  <2> QED
    BY <2>1, <2>2
<1>9. step = "null" => sock[c].log # "open"
  <2>1. sock[c].log = "open" => Unclosed(q)
    BY DEF LogInv, LogKept
  <2> QED
    BY <1>1, <2>1 DEF Unclosed
<1> HIDE DEF q, r
<1>10. thread \in [Conn -> [Threads -> Seq(Step)]]
  BY DEF SocketsInv, TypeOK
<1>11. /\ \A d \in Conn : d # c => thread'[d] = thread[d]
       /\ \A u \in Threads : u # t => thread'[c][u] = thread[c][u]
       /\ thread'[c][t] = r
  BY <1>7, <1>10
<1>12. StillCloses(c, t)
  BY <1>4, <1>6, <1>11 DEF StillCloses, q
<1> QED
  BY <1>6, <1>8, <1>9, <1>11, <1>12

\* A thread of c does a step other than fclose, and the log is left alone.
LEMMA DoesKeepsLog ==
  ASSUME SocketsInv, LogInv, NEW c \in Conn, NEW t \in Threads,
         NEW step \in Step \ {"fclose"}, At(c, t, step),
         NEW p \in {<<>>, <<"wait">>, <<"record", "lines", "wait">>, RecordClose, Stop},
         Does(c, t, p), clean' = clean,
         \A d \in Conn : d # c => sock'[d] = sock[d],
         sock'[c].log = sock[c].log,
         sock'[c].record = sock[c].record \/ step = "null",
         sock'[c].channel = sock[c].channel \/ (step = "close" /\ p = <<>>)
  PROVE  LogInv'
<1>1. /\ \A d \in Conn : d # c => thread'[d] = thread[d]
      /\ \A u \in Threads : u # t => thread'[c][u] = thread[c][u]
      /\ Course(thread'[c][t]) /\ StillCloses(c, t)
      /\ step = "close" /\ p = <<>> => ToClose(thread'[c][t])
      /\ step = "null" => sock[c].log # "open"
  BY DoesLog
<1>2. LogKept(c)'
  <2>1. sock'[c].channel = sock[c].channel \/ ToClose(thread'[c][t])
    BY <1>1
  <2>2. sock[c].log = "open" => sock'[c].record = sock[c].record
    BY <1>1
  <2> QED
    BY <1>1, <2>1, <2>2, LogMoves
<1>3. \A d \in Conn : d # c => SameLog(d)
  BY <1>1 DEF SameLog
<1> QED
  BY <1>2, <1>3, LogOfOne

LEMMA ReadLog ==
  ASSUME SocketsInv, LogInv, NEW c \in Conn, ReadData(c) \/ ReadEnds(c) \/ ReadStopped(c) \/ Record(c)
  PROVE  LogInv'
<1>1. "read" \in Threads /\ {"wait", "record"} \subseteq Step \ {"fclose"}
  BY DEF Threads, Step
<1>2. PICK step \in {"wait", "record"} : At(c, "read", step)
  BY DEF ReadData, ReadEnds, ReadStopped, Record
<1>3. PICK p \in {<<>>, <<"record", "lines", "wait">>, RecordClose, Stop} : Does(c, "read", p)
  BY DEF ReadData, ReadEnds, ReadStopped, Record
<1>4. UNCHANGED <<sock, clean>>
  BY DEF ReadData, ReadEnds, ReadStopped, Record
<1>5. step \in Step \ {"fclose"}
  BY <1>1
<1> QED
  BY <1>1, <1>2, <1>3, <1>4, <1>5, DoesKeepsLog

LEMMA WriteLog ==
  ASSUME SocketsInv, LogInv, NEW c \in Conn, RecordOutDone(c) \/ ReplyDone(c) \/ ByeDone(c)
  PROVE  LogInv'
<1>1. "write" \in Threads /\ {"record out", "reply", "bye"} \subseteq Step \ {"fclose"}
  BY DEF Threads, Step
<1>2. PICK step \in {"record out", "reply", "bye"} : At(c, "write", step)
  BY DEF RecordOutDone, ReplyDone, ByeDone
<1>3. PICK p \in {<<>>, Stop} : Does(c, "write", p)
  BY DEF RecordOutDone, ReplyDone, ByeDone
<1>4. UNCHANGED <<sock, clean>>
  BY DEF RecordOutDone, ReplyDone, ByeDone
<1>5. step \in Step \ {"fclose"}
  BY <1>1
<1> QED
  BY <1>1, <1>2, <1>3, <1>4, <1>5, DoesKeepsLog

LEMMA ClearLog ==
  ASSUME SocketsInv, LogInv, NEW c \in Conn, NEW t \in Threads, StopClear(c, t)
  PROVE  LogInv'
<1>1. sock \in [Conn -> SocketState] /\ sock' = [sock EXCEPT ![c].socketfd = 0]
  BY DEF StopClear, SocketsInv, TypeOK
<1>2. /\ \A d \in Conn : d # c => sock'[d] = sock[d]
      /\ sock'[c].log = sock[c].log /\ sock'[c].record = sock[c].record
      /\ sock'[c].channel = sock[c].channel
  BY <1>1 DEF SocketState
<1>3. At(c, t, "clear") /\ Does(c, t, <<>>) /\ clean' = clean /\ "clear" \in Step \ {"fclose"}
  BY DEF StopClear, Step
<1> QED
  BY <1>2, <1>3, DoesKeepsLog

LEMMA NullLog ==
  ASSUME SocketsInv, LogInv, NEW c \in Conn, NEW t \in Threads, RecordNull(c, t)
  PROVE  LogInv'
<1>1. sock \in [Conn -> SocketState] /\ sock' = [sock EXCEPT ![c].record = FALSE]
  BY DEF RecordNull, SocketsInv, TypeOK
<1>2. /\ \A d \in Conn : d # c => sock'[d] = sock[d]
      /\ sock'[c].log = sock[c].log /\ sock'[c].channel = sock[c].channel
  BY <1>1 DEF SocketState
<1>3. At(c, t, "null") /\ Does(c, t, <<>>) /\ clean' = clean /\ "null" \in Step \ {"fclose"}
  BY DEF RecordNull, Step
<1> QED
  BY <1>2, <1>3, DoesKeepsLog

\* What is left after a skipped step and the one behind it.
LEMMA SkipLog ==
  ASSUME SocketsInv, LogInv, NEW c \in Conn, NEW t \in Threads, NEW step \in {"close", "fclose"}, At(c, t, step),
         thread' = [thread EXCEPT ![c][t] = Tail(Tail(@))]
  PROVE  /\ \A d \in Conn : d # c => thread'[d] = thread[d]
         /\ \A u \in Threads : u # t => thread'[c][u] = thread[c][u]
         /\ Course(thread'[c][t])
         /\ step = "close" => StillCloses(c, t)
<1> DEFINE q == thread[c][t]
<1> DEFINE r == Tail(q)
<1>1. q \in Seq(Step) /\ q # <<>> /\ q[1] = step
  BY HeadIs DEF SocketsInv
<1>2. Course(q) /\ Shape(q)
  BY DEF LogInv, LogKept, SocketsInv, ShapeInv
<1>3. r \in Seq(Step) /\ r # <<>> /\ (step = "close" => r[1] = "clear")
  BY <1>1, <1>2, ShapeTail
<1>4. Course(r) /\ (step = "close" /\ ToClose(q) => ToClose(r))
  BY <1>1, <1>2, CourseTail
<1>5. thread' = [thread EXCEPT ![c][t] = Tail(r)]
  OBVIOUS
<1> HIDE DEF q, r
<1>6. /\ Course(Tail(r)) /\ Tail(r) \in Seq(Step)
      /\ step = "close" => Unclosed(Tail(r))
      /\ step = "close" /\ ToClose(r) => ToClose(Tail(r))
  BY <1>3, <1>4, CourseTail, TailAt
<1>7. thread \in [Conn -> [Threads -> Seq(Step)]]
  BY DEF SocketsInv, TypeOK
<1>8. /\ \A d \in Conn : d # c => thread'[d] = thread[d]
      /\ \A u \in Threads : u # t => thread'[c][u] = thread[c][u]
      /\ thread'[c][t] = Tail(r)
  <2> DEFINE row == [thread[c] EXCEPT ![t] = Tail(r)]
  <2>1. thread' = [thread EXCEPT ![c] = row]
    BY <1>5, <1>7
  <2>2. row[t] = Tail(r) /\ \A u \in Threads : u # t => row[u] = thread[c][u]
    BY <1>7
  <2> HIDE DEF row
  <2> QED
    BY <1>7, <2>1, <2>2
<1>9. step = "close" => StillCloses(c, t)
  BY <1>4, <1>6, <1>8 DEF StillCloses, q
<1> QED
  BY <1>6, <1>8, <1>9

LEMMA CloseLog ==
  ASSUME SocketsInv, LogInv, NEW c \in Conn, NEW t \in Threads, StopClose(c, t)
  PROVE  LogInv'
<1>1. At(c, t, "close") /\ clean' = clean /\ "close" \in Step \ {"fclose"}
  BY DEF StopClose, Step
<1>2. CASE sock' = [sock EXCEPT ![c].channel = "closed"] /\ Does(c, t, <<>>)
  <2>1. sock \in [Conn -> SocketState]
    BY DEF SocketsInv, TypeOK
  <2>2. /\ \A d \in Conn : d # c => sock'[d] = sock[d]
        /\ sock'[c].log = sock[c].log /\ sock'[c].record = sock[c].record
    BY <1>2, <2>1 DEF SocketState
  <2> QED
    BY <1>1, <1>2, <2>2, DoesKeepsLog
<1>3. CASE thread' = [thread EXCEPT ![c][t] = Tail(Tail(@))] /\ sock' = sock
  <2>1. /\ \A d \in Conn : d # c => thread'[d] = thread[d]
        /\ \A u \in Threads : u # t => thread'[c][u] = thread[c][u]
        /\ Course(thread'[c][t]) /\ StillCloses(c, t)
    BY <1>1, <1>3, SkipLog
  <2>2. LogKept(c)'
    BY <1>1, <1>3, <2>1, LogMoves
  <2>3. \A d \in Conn : d # c => SameLog(d)
    BY <1>1, <1>3, <2>1 DEF SameLog
  <2> QED
    BY <2>2, <2>3, LogOfOne
<1> QED
  BY <1>2, <1>3 DEF StopClose

LEMMA FcloseLog ==
  ASSUME SocketsInv, LogInv, NEW c \in Conn, NEW t \in Threads, RecordFclose(c, t)
  PROVE  LogInv'
<1>1. At(c, t, "fclose") /\ clean' = clean
  BY DEF RecordFclose
<1>2. sock \in [Conn -> SocketState] /\ thread \in [Conn -> [Threads -> Seq(Step)]]
  BY DEF SocketsInv, TypeOK
<1>3. ASSUME \A d \in Conn : d # c => thread'[d] = thread[d] /\ sock'[d] = sock[d],
             \A u \in Threads : Course(thread'[c][u]), sock'[c].log # "open"
      PROVE  LogInv'
  <2>1. LogKept(c)'
    BY <1>3 DEF LogKept
  <2>2. \A d \in Conn : d # c => SameLog(d)
    BY <1>1, <1>3 DEF SameLog
  <2> QED
    BY <2>1, <2>2, LogOfOne
<1>4. \A u \in Threads : Course(thread[c][u])
  BY DEF LogInv, LogKept
<1>5. CASE sock' = [sock EXCEPT ![c].log = "closed"] /\ Does(c, t, <<>>)
  <2> DEFINE q == thread[c][t]
  <2>1. q \in Seq(Step) /\ q # <<>>
    BY <1>1, HeadIs DEF SocketsInv
  <2>2. Course(Tail(q)) /\ Tail(q) \in Seq(Step)
    BY <1>4, <2>1, CourseTail, TailAt
  <2>3. thread' = [thread EXCEPT ![c][t] = Tail(q)]
    <3>1. <<>> \o Tail(q) = Tail(q)
      BY <2>2
    <3> QED
      BY <1>5, <3>1 DEF Does
  <2> HIDE DEF q
  <2>4. /\ \A d \in Conn : d # c => thread'[d] = thread[d]
        /\ \A u \in Threads : Course(thread'[c][u])
    BY <1>2, <1>4, <2>2, <2>3
  <2>5. sock'[c].log = "closed" /\ \A d \in Conn : d # c => sock'[d] = sock[d]
    BY <1>2, <1>5 DEF SocketState
  <2> QED
    BY <1>3, <2>4, <2>5
<1>6. CASE ~sock[c].record /\ sock' = sock /\ thread' = [thread EXCEPT ![c][t] = Tail(Tail(@))]
  <2>1. /\ \A d \in Conn : d # c => thread'[d] = thread[d]
        /\ \A u \in Threads : u # t => thread'[c][u] = thread[c][u]
        /\ Course(thread'[c][t])
    BY <1>1, <1>6, SkipLog
  <2>2. sock[c].log # "open"
    BY <1>6 DEF LogInv, LogKept
  <2> QED
    BY <1>3, <1>4, <1>6, <2>1, <2>2
<1> QED
  BY <1>5, <1>6 DEF RecordFclose

LEMMA LinesLog ==
  ASSUME SocketsInv, LogInv, NEW c \in Conn, ReadLines(c)
  PROVE  LogInv'
<1>1. /\ "read" \in Threads /\ "write" \in Threads /\ "lines" \in Step \ {"fclose"}
      /\ \A u \in Threads : u # "read" => u = "write"
  BY DEF Threads, Step
<1>2. At(c, "read", "lines") /\ UNCHANGED <<sock, clean>>
  BY DEF ReadLines
<1>3. CASE Does(c, "read", <<>>) \/ Does(c, "read", Stop)
  <2>1. PICK p \in {<<>>, Stop} : Does(c, "read", p)
    BY <1>3
  <2> QED
    BY <1>1, <1>2, <2>1, DoesKeepsLog
<1>4. CASE /\ thread[c]["write"] = <<>>
           /\ thread' = [thread EXCEPT ![c]["read"] = Tail(@), ![c]["write"] = <<Answer(c)>>]
  <2> DEFINE q == thread[c]["read"]
  <2>1. q \in Seq(Step) /\ q # <<>> /\ q[1] = "lines"
    BY <1>1, <1>2, HeadIs DEF SocketsInv
  <2>2. LogKept(c)
    BY DEF LogInv
  <2>3. Course(q)
    BY <1>1, <2>2 DEF LogKept
  <2>4. Course(Tail(q)) /\ Unclosed(Tail(q)) /\ (ToClose(q) => ToClose(Tail(q)))
    BY <2>1, <2>3, CourseTail
  <2>5. Course(<<Answer(c)>>) /\ Unclosed(<<Answer(c)>>)
    <3>1. Answer(c) \in Step \ {"clear", "null"}
      BY DEF Answer, Step
    <3> QED
      BY <3>1, SingleCourse
  <2>6. thread \in [Conn -> [Threads -> Seq(Step)]]
    BY DEF SocketsInv, TypeOK
  <2>7. /\ thread'[c]["read"] = Tail(q) /\ thread'[c]["write"] = <<Answer(c)>>
        /\ \A d \in Conn : d # c => thread'[d] = thread[d]
    BY <1>1, <1>4, <2>6
  <2>8. ~ToClose(thread[c]["write"])
    BY <1>4 DEF ToClose
  <2> HIDE DEF q
  <2>9. /\ \A u \in Threads : Course(thread'[c][u]) /\ Unclosed(thread'[c][u])
        /\ (\E u \in Threads : ToClose(thread[c][u])) => ToClose(thread'[c]["read"])
    BY <1>1, <2>4, <2>5, <2>7, <2>8 DEF q
  <2>10. LogKept(c)'
    BY <1>1, <1>2, <2>2, <2>9 DEF LogKept
  <2>11. \A d \in Conn : d # c => SameLog(d)
    BY <1>2, <2>7 DEF SameLog
  <2> QED
    BY <2>10, <2>11, LogOfOne
<1> QED
  BY <1>3, <1>4 DEF ReadLines

LEMMA BannerLog ==
  ASSUME SocketsInv, LogInv, NEW c \in Conn, AcceptBanner(c)
  PROVE  LogInv'
<1>1. UNCHANGED <<sock, clean>>
  BY DEF AcceptBanner
<1>2. CASE thread' = thread
  <2>1. \A d \in Conn : SameLog(d)
    BY <1>1, <1>2 DEF SameLog
  <2> QED
    BY <2>1, LogOfNone
<1>3. CASE thread' = [thread EXCEPT ![c]["write"] = Append(@, "reply")]
  <2> DEFINE q == thread[c]["write"]
  <2> DEFINE r == q \o <<"reply">>
  <2>1. "write" \in Threads /\ thread \in [Conn -> [Threads -> Seq(Step)]]
    BY DEF Threads, SocketsInv, TypeOK
  <2>2. LogKept(c)
    BY DEF LogInv
  <2>3. q \in Seq(Step) /\ Course(q)
    BY <2>1, <2>2 DEF LogKept
  <2>4. <<"reply">> \in Seq(Step) /\ Course(<<"reply">>) /\ Unclosed(<<"reply">>)
    <3>1. "reply" \in Step \ {"clear", "null"}
      BY DEF Step
    <3> QED
      BY <3>1, SingleCourse
  <2>5. Course(r) /\ (Unclosed(q) => Unclosed(r)) /\ (ToClose(q) => ToClose(r))
    BY <2>3, <2>4, CourseConcat
  <2>6. thread' = [thread EXCEPT ![c]["write"] = r]
    <3>1. Append(q, "reply") = r
      BY <2>3
    <3> QED
      BY <1>3, <3>1
  <2>7. r \in Seq(Step)
    BY <2>3, <2>4, ConcatAt
  <2> HIDE DEF r
  <2>8. /\ \A d \in Conn : d # c => thread'[d] = thread[d]
        /\ \A u \in Threads : u # "write" => thread'[c][u] = thread[c][u]
        /\ thread'[c]["write"] = r
    BY <2>1, <2>6, <2>7
  <2> HIDE DEF q
  <2>9. /\ \A u \in Threads : Course(thread'[c][u])
        /\ \A u \in Threads : Unclosed(thread[c][u]) => Unclosed(thread'[c][u])
        /\ \A u \in Threads : ToClose(thread[c][u]) => ToClose(thread'[c][u])
    BY <2>2, <2>5, <2>8 DEF LogKept, q
  <2>10. LogKept(c)'
    BY <1>1, <2>2, <2>9 DEF LogKept
  <2>11. \A d \in Conn : d # c => SameLog(d)
    BY <1>1, <2>8 DEF SameLog
  <2> QED
    BY <2>10, <2>11, LogOfOne
<1> QED
  BY <1>2, <1>3 DEF AcceptBanner

LEMMA AcceptLog ==
  ASSUME SocketsInv, LogInv, NEW c \in Conn, HandleAccept(c)
  PROVE  LogInv'
<1>1. /\ sock' = [sock EXCEPT ![c] = Created(Head(handlerQ).fd)]
      /\ UNCHANGED <<thread, clean>>
  BY DEF HandleAccept
<1>2. sock \in [Conn -> SocketState]
  BY DEF SocketsInv, TypeOK
<1>3. sock'[c].log = "none" /\ \A d \in Conn : d # c => sock'[d] = sock[d]
  BY <1>1, <1>2 DEF Created
<1>4. LogKept(c)'
  BY <1>1, <1>3 DEF LogInv, LogKept
<1>5. \A d \in Conn : d # c => SameLog(d)
  BY <1>1, <1>3 DEF SameLog
<1> QED
  BY <1>4, <1>5, LogOfOne

LEMMA StartLog ==
  ASSUME SocketsInv, LogInv, NEW c \in Conn, AcceptStarts(c)
  PROVE  LogInv'
<1>1. /\ main.conn = c /\ main.at = "count" /\ clean' = clean
      /\ SocketStarts(c) \/ SocketStartFails(c)
  BY DEF AcceptStarts
<1>2. sock \in [Conn -> SocketState] /\ thread \in [Conn -> [Threads -> Seq(Step)]]
      /\ "read" \in Threads
  BY DEF SocketsInv, TypeOK, Threads
<1>3. CASE SocketStartFails(c)
  <2>1. \A d \in Conn : SameLog(d)
    BY <1>1, <1>3 DEF SocketStartFails, SameLog
  <2> QED
    BY <2>1, LogOfNone
<1>4. CASE SocketStarts(c)
  <2>1. sock[c].channel = "NULL"
    BY <1>1 DEF SocketsInv, AcceptInv
  <2>2. clean[c].at = "none" /\ \A u \in Threads : thread[c][u] = <<>>
    BY <2>1 DEF SocketsInv, LifeInv
  <2>3. thread' = [thread EXCEPT ![c]["read"] = <<"wait">>]
    BY <1>4 DEF SocketStarts
  <2>4. PICK opened \in {TRUE, ~MayFail} :
          sock' = [sock EXCEPT ![c].channel = "open", ![c].record = opened,
                               ![c].log = IF opened THEN "open" ELSE "none"]
    BY <1>4 DEF SocketStarts
  <2>5. /\ sock'[c].channel = "open" /\ sock'[c].record = opened
        /\ sock'[c].log = (IF opened THEN "open" ELSE "none")
        /\ \A d \in Conn : d # c => sock'[d] = sock[d]
    BY <1>2, <2>4 DEF SocketState
  <2>6. Course(<<"wait">>) /\ Unclosed(<<"wait">>) /\ Course(<<>>) /\ Unclosed(<<>>)
    <3>1. "wait" \in Step \ {"clear", "null"}
      BY DEF Step
    <3>2. Course(<<>>) /\ Unclosed(<<>>)
      BY DEF Course, Unclosed
    <3> QED
      BY <3>1, <3>2, SingleCourse
  <2>7. /\ \A d \in Conn : d # c => thread'[d] = thread[d]
        /\ \A u \in Threads : thread'[c][u] \in {<<>>, <<"wait">>}
    BY <1>2, <2>2, <2>3
  <2>8. \A u \in Threads : Course(thread'[c][u]) /\ Unclosed(thread'[c][u])
    BY <2>6, <2>7
  <2>9. sock'[c].log = "open" => sock'[c].record = TRUE
    <3>1. MayFail \in BOOLEAN
      BY SocketsAssumption
    <3>2. opened = TRUE \/ opened = FALSE
      BY <3>1
    <3> QED
      BY <2>5, <3>2
  <2>10. LogKept(c)'
    BY <1>1, <2>2, <2>5, <2>8, <2>9 DEF LogKept
  <2>11. \A d \in Conn : d # c => SameLog(d)
    BY <1>1, <2>5, <2>7 DEF SameLog
  <2> QED
    BY <2>10, <2>11, LogOfOne
<1> QED
  BY <1>1, <1>3, <1>4

LEMMA CleanupLog ==
  ASSUME SocketsInv, LogInv, NEW c \in Conn, Cleanup(c)
  PROVE  LogInv'
<1>1. /\ sock[c].channel = "closed" /\ \A u \in Threads : thread[c][u] = <<>>
      /\ clean' = [clean EXCEPT ![c] = [at |-> "count", seen |-> open]]
      /\ UNCHANGED <<sock, thread>>
  BY DEF Cleanup, OperationsOver
<1>2. clean \in [Conn -> [at : {"none", "count", "done"}, seen : Int]]
  BY DEF SocketsInv, TypeOK
<1>3. sock[c].log # "open"
  <2>1. \A u \in Threads : ~ToClose(thread[c][u])
    BY <1>1 DEF ToClose
  <2> QED
    BY <1>1, <2>1 DEF LogInv, LogKept
<1>4. LogKept(c)'
  BY <1>1, <1>3 DEF LogInv, LogKept
<1>5. \A d \in Conn : d # c => SameLog(d)
  BY <1>1, <1>2 DEF SameLog
<1> QED
  BY <1>4, <1>5, LogOfOne

LEMMA DestroyLog ==
  ASSUME SocketsInv, LogInv, NEW c \in Conn, SocketDestroy(c)
  PROVE  LogInv'
<1>1. /\ clean[c].at = "count"
      /\ clean' = [clean EXCEPT ![c] = [at |-> "done", seen |-> 0]]
      /\ sock' = [sock EXCEPT ![c].mem = "freed", ![c].handlers = @ \ Handler]
      /\ UNCHANGED thread
  BY DEF SocketDestroy
<1>2. sock \in [Conn -> SocketState]
      /\ clean \in [Conn -> [at : {"none", "count", "done"}, seen : Int]]
  BY DEF SocketsInv, TypeOK
<1>3. sock'[c].log = sock[c].log /\ \A d \in Conn : d # c => sock'[d] = sock[d]
  BY <1>1, <1>2 DEF SocketState
<1>4. LogKept(c)'
  BY <1>1, <1>3 DEF LogInv, LogKept
<1>5. \A d \in Conn : d # c => SameLog(d)
  BY <1>1, <1>2, <1>3 DEF SameLog
<1> QED
  BY <1>4, <1>5, LogOfOne

LEMMA OpenLog ==
  ASSUME SocketsInv, LogInv, NEW c \in Conn, RunOpen(c) \/ RunData(c) \/ RunClose(c)
  PROVE  LogInv'
<1>1. sock \in [Conn -> SocketState]
  BY DEF SocketsInv, TypeOK
<1>2. sock' = sock \/ sock' = [sock EXCEPT ![c].handlers = @ \cup {"smtp", "data"}]
  BY DEF RunOpen, RunData, RunClose
<1>3. \A d \in Conn : /\ sock'[d].log = sock[d].log /\ sock'[d].record = sock[d].record
                      /\ sock'[d].channel = sock[d].channel
  BY <1>1, <1>2 DEF SocketState
<1>4. UNCHANGED <<thread, clean>>
  BY DEF RunOpen, RunData, RunClose
<1>5. \A d \in Conn : SameLog(d)
  BY <1>3, <1>4 DEF SameLog
<1> QED
  BY <1>5, LogOfNone

LEMMA NextLog == SocketsInv /\ LogInv /\ [Next]_vars => LogInv'
<1> SUFFICES ASSUME SocketsInv, LogInv, [Next]_vars PROVE LogInv'
  OBVIOUS
<1>1. CASE UNCHANGED vars \/ EmailzStart \/ \E c \in Conn : ListenerEvent(c)
  <2>1. UNCHANGED <<sock, thread, clean>>
    BY <1>1 DEF vars, EmailzStart, ListenerEvent
  <2>2. \A d \in Conn : SameLog(d)
    BY <2>1 DEF SameLog
  <2> QED
    BY <2>2, LogOfNone
<1>2. ASSUME NEW c \in Conn, ReadData(c) \/ ReadEnds(c) \/ HandlerQueue(c) \/ Cleanup(c) \/ SocketDestroy(c)
      PROVE  LogInv'
  BY <1>2, ReadLog, AcceptLog, StartLog, BannerLog, OpenLog, CleanupLog, DestroyLog DEF HandlerQueue
<1>3. ASSUME NEW c \in Conn, NEW t \in Threads, ThreadStep(c, t)
      PROVE  LogInv'
  BY <1>3, ReadLog, LinesLog, WriteLog, CloseLog, ClearLog, FcloseLog, NullLog DEF ThreadStep
<1> QED
  BY <1>1, <1>2, <1>3 DEF Next

\* Accept blocks that are queued stay queued.
AcceptsStay ==
  \A i \in 1..Len(handlerQ) : handlerQ[i].kind = "accept" =>
    \E j \in 1..Len(handlerQ') : handlerQ'[j] = handlerQ[i]

LEMMA StayIfAppended ==
  ASSUME TypeOK, NEW b \in QueueBlock, handlerQ' = Append(handlerQ, b)
  PROVE  AcceptsStay
<1>1. handlerQ \in Seq(QueueBlock)
  BY QueueAt
<1>2. /\ Len(handlerQ) \in Nat /\ Len(handlerQ') = Len(handlerQ) + 1
      /\ \A i \in 1..Len(handlerQ) : handlerQ'[i] = handlerQ[i]
  BY <1>1, AppendAt
<1>3. \A i \in 1..Len(handlerQ) : i \in 1..Len(handlerQ')
  BY <1>2
<1> QED
  BY <1>2, <1>3 DEF AcceptsStay

LEMMA StayIfRun ==
  ASSUME TypeOK, handlerQ # <<>>, handlerQ' = Tail(handlerQ), Head(handlerQ).kind # "accept"
  PROVE  AcceptsStay
<1>1. handlerQ \in Seq(QueueBlock)
  BY QueueAt
<1>2. /\ Len(handlerQ) \in Nat /\ Len(handlerQ') = Len(handlerQ) - 1
      /\ \A i \in 1..Len(handlerQ) - 1 : handlerQ'[i] = handlerQ[i + 1]
      /\ Head(handlerQ) = handlerQ[1]
  BY <1>1, TailAt
<1> SUFFICES ASSUME NEW i \in 1..Len(handlerQ), handlerQ[i].kind = "accept"
             PROVE  \E j \in 1..Len(handlerQ') : handlerQ'[j] = handlerQ[i]
  BY DEF AcceptsStay
<1>3. i # 1
  BY <1>2
<1>4. i - 1 \in 1..Len(handlerQ) - 1 /\ i - 1 + 1 = i
  BY <1>2, <1>3
<1>5. i - 1 \in 1..Len(handlerQ') /\ handlerQ'[i - 1] = handlerQ[i]
  BY <1>2, <1>4
<1> QED
  BY <1>5

LEMMA StayIfSame ==
  ASSUME handlerQ' = handlerQ
  PROVE  AcceptsStay
BY DEF AcceptsStay

\* A socket that is not stopped keeps its descriptor.
Keeps(d) ==
  sock[d].mem # "none" /\ sock[d].channel # "closed" =>
    sock'[d].mem # "none" /\ sock'[d].channel # "closed" /\ sock'[d].socketfd = sock[d].socketfd

LEMMA OwnedStays ==
  ASSUME OwnedInv, owner' = owner, AcceptsStay, \A d \in Conn : Keeps(d)
  PROVE  OwnedInv'
<1> SUFFICES ASSUME NEW c \in Conn, NEW f \in Fd, owner'[f] = c
             PROVE  Accepting(c, f)' \/ Holds(c, f)'
  BY DEF OwnedInv
<1>1. Accepting(c, f) \/ Holds(c, f)
  BY DEF OwnedInv
<1>2. CASE Accepting(c, f)
  <2>1. PICK i \in 1..Len(handlerQ) : handlerQ[i] = [kind |-> "accept", conn |-> c, fd |-> f]
    BY <1>2 DEF Accepting
  <2>2. PICK j \in 1..Len(handlerQ') : handlerQ'[j] = handlerQ[i]
    BY <2>1 DEF AcceptsStay
  <2> QED
    BY <2>1, <2>2 DEF Accepting
<1>3. CASE Holds(c, f)
  BY <1>3 DEF Holds, Keeps
<1> QED
  BY <1>1, <1>2, <1>3

LEMMA ListenOwned ==
  ASSUME SocketsInv, OwnedInv, NEW c \in Conn, ListenerEvent(c)
  PROVE  OwnedInv'
<1>1. TypeOK /\ sock' = sock
  BY DEF SocketsInv, ListenerEvent
<1>2. PICK b \in QueueBlock : handlerQ' = Append(handlerQ, b) /\ b.kind = "accept" /\ b.conn = c
        /\ (owner' = owner \/ (b.fd \in Fd /\ owner' = [owner EXCEPT ![b.fd] = c]))
  <2>1. CASE FreeFd = {} /\ handlerQ' = Append(handlerQ, [Block("accept", c) EXCEPT !.fd = -1]) /\ owner' = owner
    <3>1. PICK b : b = [Block("accept", c) EXCEPT !.fd = -1]
      OBVIOUS
    <3>2. b \in QueueBlock /\ b.kind = "accept" /\ b.conn = c
      BY <3>1 DEF Block, QueueBlock
    <3> QED
      BY <2>1, <3>1, <3>2
  <2>2. ASSUME NEW fd \in Lowest, owner' = [owner EXCEPT ![fd] = c],
               handlerQ' = Append(handlerQ, [Block("accept", c) EXCEPT !.fd = fd])
        PROVE  \E b \in QueueBlock : handlerQ' = Append(handlerQ, b) /\ b.kind = "accept" /\ b.conn = c
                 /\ (owner' = owner \/ (b.fd \in Fd /\ owner' = [owner EXCEPT ![b.fd] = c]))
    <3>1. PICK b : b = [Block("accept", c) EXCEPT !.fd = fd]
      OBVIOUS
    <3>2. fd \in Fd
      BY DEF Lowest, FreeFd
    <3>3. b \in QueueBlock /\ b.kind = "accept" /\ b.conn = c /\ b.fd = fd
      BY <3>1, <3>2 DEF Block, QueueBlock
    <3> QED
      BY <2>2, <3>1, <3>2, <3>3
  <2> QED
    BY <2>1, <2>2 DEF ListenerEvent
<1>3. AcceptsStay
  BY <1>1, <1>2, StayIfAppended
<1>4. \A d \in Conn : Keeps(d)
  BY <1>1 DEF Keeps
<1>5. CASE owner' = owner
  BY <1>3, <1>4, <1>5, OwnedStays
<1>6. CASE b.fd \in Fd /\ owner' = [owner EXCEPT ![b.fd] = c]
  <2>1. owner \in [Fd -> Conn \cup {NoConn}] /\ handlerQ \in Seq(QueueBlock)
    BY <1>1, QueueAt DEF TypeOK
  <2>2. owner'[b.fd] = c /\ \A f \in Fd : f # b.fd => owner'[f] = owner[f]
    BY <1>6, <2>1
  <2>3. Len(handlerQ) + 1 \in 1..Len(handlerQ') /\ handlerQ'[Len(handlerQ) + 1] = b
    BY <1>2, <2>1, AppendAt
  <2>4. b = [kind |-> "accept", conn |-> c, fd |-> b.fd]
    BY <1>2 DEF QueueBlock
  <2>5. Accepting(c, b.fd)'
    BY <2>3, <2>4 DEF Accepting
  <2>6. ASSUME NEW d \in Conn, NEW f \in Fd, owner[f] = d
        PROVE  Accepting(d, f)' \/ Holds(d, f)'
    <3>1. CASE Accepting(d, f)
      <4>1. PICK i \in 1..Len(handlerQ) : handlerQ[i] = [kind |-> "accept", conn |-> d, fd |-> f]
        BY <3>1 DEF Accepting
      <4>2. PICK j \in 1..Len(handlerQ') : handlerQ'[j] = handlerQ[i]
        BY <1>3, <4>1 DEF AcceptsStay
      <4> QED
        BY <4>1, <4>2 DEF Accepting
    <3>2. CASE Holds(d, f)
      BY <1>1, <3>2 DEF Holds
    <3> QED
      BY <2>6, <3>1, <3>2 DEF OwnedInv
  <2> QED
    BY <2>2, <2>5, <2>6 DEF OwnedInv
<1> QED
  BY <1>2, <1>5, <1>6

LEMMA AcceptOwned ==
  ASSUME SocketsInv, OwnedInv, NEW c \in Conn, HandleAccept(c)
  PROVE  OwnedInv'
<1>1. /\ handlerQ # <<>> /\ Head(handlerQ).kind = "accept" /\ Head(handlerQ).conn = c
      /\ sock' = [sock EXCEPT ![c] = Created(Head(handlerQ).fd)]
      /\ handlerQ' = Tail(handlerQ) /\ owner' = owner
  BY DEF HandleAccept, Runs
<1>2. handlerQ \in Seq(QueueBlock) /\ sock \in [Conn -> SocketState]
  BY QueueAt DEF SocketsInv, TypeOK
<1>3. /\ Len(handlerQ) \in Nat /\ Len(handlerQ) > 0 /\ Len(handlerQ') = Len(handlerQ) - 1
      /\ \A i \in 1..Len(handlerQ) - 1 : handlerQ'[i] = handlerQ[i + 1]
      /\ Head(handlerQ) = handlerQ[1] /\ 1 \in 1..Len(handlerQ)
  BY <1>1, <1>2, TailAt
<1>4. /\ sock'[c].mem = "live" /\ sock'[c].channel = "NULL" /\ sock'[c].socketfd = handlerQ[1].fd
      /\ \A d \in Conn : d # c => sock'[d] = sock[d]
  BY <1>1, <1>2, <1>3 DEF Created
<1> SUFFICES ASSUME NEW d \in Conn, NEW f \in Fd, owner[f] = d
             PROVE  Accepting(d, f)' \/ Holds(d, f)'
  BY <1>1 DEF OwnedInv
<1>5. CASE Accepting(d, f)
  <2>1. PICK i \in 1..Len(handlerQ) : handlerQ[i] = [kind |-> "accept", conn |-> d, fd |-> f]
    BY <1>5 DEF Accepting
  <2>2. CASE i = 1
    <3>1. d = c /\ handlerQ[1].fd = f
      BY <1>1, <1>3, <2>1, <2>2
    <3> QED
      BY <1>4, <3>1 DEF Holds
  <2>3. CASE i # 1
    <3>1. i - 1 \in 1..Len(handlerQ) - 1 /\ i - 1 + 1 = i
      BY <1>3, <2>3
    <3>2. i - 1 \in 1..Len(handlerQ') /\ handlerQ'[i - 1] = handlerQ[i]
      BY <1>3, <3>1
    <3> QED
      BY <2>1, <3>2 DEF Accepting
  <2> QED
    BY <2>2, <2>3
<1>6. CASE Holds(d, f)
  <2>1. sock[c].mem = "none"
    BY <1>1, <1>3 DEF SocketsInv, OnceInv
  <2>2. d # c
    BY <1>6, <2>1 DEF Holds
  <2> QED
    BY <1>4, <1>6, <2>2 DEF Holds
<1> QED
  BY <1>5, <1>6 DEF OwnedInv

LEMMA CloseOwned ==
  ASSUME SocketsInv, OwnedInv, NEW c \in Conn, NEW t \in Threads, StopClose(c, t)
  PROVE  OwnedInv'
<1>1. At(c, t, "close") /\ handlerQ' = handlerQ
  BY DEF StopClose
<1>2. sock \in [Conn -> SocketState] /\ owner \in [Fd -> Conn \cup {NoConn}]
  BY DEF SocketsInv, TypeOK
<1>3. CASE sock' = sock /\ owner' = owner
  <2>1. AcceptsStay /\ \A d \in Conn : Keeps(d)
    BY <1>1, <1>3, StayIfSame DEF Keeps
  <2> QED
    BY <1>3, <2>1, OwnedStays
<1>4. CASE sock' = [sock EXCEPT ![c].channel = "closed"] /\ owner' = Closed(sock[c].socketfd)
  <2>1. /\ \A d \in Conn : d # c => sock'[d] = sock[d]
    BY <1>2, <1>4
  <2>2. sock[c].mem # "none"
    <3>1. thread[c][t] # <<>>
      BY <1>1 DEF At
    <3> QED
      BY <3>1 DEF SocketsInv, LifeInv
  <2>3. \A f \in Fd : owner'[f] = NoConn \/ (owner'[f] = owner[f] /\ f # sock[c].socketfd)
    BY <1>2, <1>4 DEF Closed
  <2>4. \A d \in Conn : d # NoConn
    BY SocketsAssumption DEF Conn, NoConn
  <2> SUFFICES ASSUME NEW d \in Conn, NEW f \in Fd, owner'[f] = d
               PROVE  Accepting(d, f)' \/ Holds(d, f)'
    BY DEF OwnedInv
  <2>5. owner[f] = d /\ f # sock[c].socketfd
    BY <2>3, <2>4
  <2>6. CASE Accepting(d, f)
    BY <1>1, <2>6 DEF Accepting
  <2>7. CASE Holds(d, f)
    <3>1. d # c
      BY <2>5, <2>7 DEF Holds
    <3> QED
      BY <2>1, <2>7, <3>1 DEF Holds
  <2> QED
    BY <2>5, <2>6, <2>7 DEF OwnedInv
<1> QED
  BY <1>3, <1>4 DEF StopClose

LEMMA ThreadOwned ==
  ASSUME SocketsInv, OwnedInv, NEW c \in Conn, NEW t \in Threads, ThreadStep(c, t)
  PROVE  OwnedInv'
<1>1. TypeOK /\ sock \in [Conn -> SocketState]
  BY DEF SocketsInv, TypeOK
<1>2. CASE StopClose(c, t)
  BY <1>2, CloseOwned
<1>3. CASE StopClear(c, t)
  <2>1. /\ At(c, t, "clear") /\ sock' = [sock EXCEPT ![c].socketfd = 0] /\ UNCHANGED <<owner, handlerQ>>
    BY <1>3 DEF StopClear
  <2>2. ~Fresh(thread[c][t]) /\ thread[c][t] # <<>>
    BY <1>1, <2>1, HeadIs
  <2>3. sock[c].channel = "closed"
    <3>1. sock[c].channel # "NULL"
      BY <2>2 DEF SocketsInv, LifeInv
    <3>2. sock[c].channel # "open"
      BY <2>2 DEF SocketsInv, ShapeInv
    <3>3. sock[c].channel \in {"NULL", "open", "closed"}
      BY <1>1 DEF SocketState
    <3> QED
      BY <3>1, <3>2, <3>3
  <2>4. \A d \in Conn : d # c => sock'[d] = sock[d]
    BY <1>1, <2>1
  <2>5. \A d \in Conn : Keeps(d)
    BY <2>3, <2>4 DEF Keeps
  <2>6. AcceptsStay
    BY <2>1, StayIfSame
  <2> QED
    BY <2>1, <2>5, <2>6, OwnedStays
<1>4. CASE RecordFclose(c, t) \/ RecordNull(c, t)
  <2>1. UNCHANGED <<owner, handlerQ>>
    BY <1>4 DEF RecordFclose, RecordNull
  <2>2. \/ sock' = sock
        \/ sock' = [sock EXCEPT ![c].log = "closed"]
        \/ sock' = [sock EXCEPT ![c].record = FALSE]
    BY <1>4 DEF RecordFclose, RecordNull
  <2>3. \A d \in Conn : /\ sock'[d].mem = sock[d].mem /\ sock'[d].channel = sock[d].channel
                        /\ sock'[d].socketfd = sock[d].socketfd
    BY <1>1, <2>2 DEF SocketState
  <2>4. \A d \in Conn : Keeps(d)
    BY <2>3 DEF Keeps
  <2>5. AcceptsStay
    BY <2>1, StayIfSame
  <2> QED
    BY <2>1, <2>4, <2>5, OwnedStays
<1>5. CASE ReadStopped(c) \/ ReadLines(c) \/ Record(c) \/ RecordOutDone(c) \/ ReplyDone(c) \/ ByeDone(c)
  <2>1. UNCHANGED <<owner, sock>>
    BY <1>5 DEF ReadStopped, ReadLines, Record, RecordOutDone, ReplyDone, ByeDone
  <2>2. handlerQ' = handlerQ \/ handlerQ' = Append(handlerQ, Block("data", c))
    BY <1>5 DEF ReadStopped, ReadLines, Record, RecordOutDone, ReplyDone, ByeDone
  <2>3. Block("data", c) \in QueueBlock
    BY BlockIs
  <2>4. AcceptsStay
    BY <1>1, <2>2, <2>3, StayIfSame, StayIfAppended
  <2>5. \A d \in Conn : Keeps(d)
    BY <2>1 DEF Keeps
  <2> QED
    BY <2>1, <2>4, <2>5, OwnedStays
<1> QED
  BY <1>2, <1>3, <1>4, <1>5 DEF ThreadStep

LEMMA QueueOwned ==
  ASSUME SocketsInv, OwnedInv, NEW c \in Conn, HandlerQueue(c)
  PROVE  OwnedInv'
<1>1. TypeOK /\ sock \in [Conn -> SocketState]
  BY DEF SocketsInv, TypeOK
<1>2. CASE HandleAccept(c)
  BY <1>2, AcceptOwned
<1>3. CASE AcceptStarts(c)
  <2>1. owner' = owner /\ (SocketStarts(c) \/ SocketStartFails(c)) /\ sock[c].channel = "NULL"
    BY <1>3 DEF AcceptStarts, SocketsInv, AcceptInv
  <2>2. CASE SocketStarts(c)
    <3>1. handlerQ' = Append(handlerQ, Block("open", c)) /\ Block("open", c) \in QueueBlock
      BY <2>2, BlockIs DEF SocketStarts
    <3>2. PICK opened \in {TRUE, ~MayFail} :
            sock' = [sock EXCEPT ![c].channel = "open", ![c].record = opened,
                                 ![c].log = IF opened THEN "open" ELSE "none"]
      BY <2>2 DEF SocketStarts
    <3>3. \A d \in Conn : /\ sock'[d].mem = sock[d].mem /\ sock'[d].socketfd = sock[d].socketfd
                          /\ sock'[d].channel = (IF d = c THEN "open" ELSE sock[d].channel)
      BY <1>1, <3>2 DEF SocketState
    <3>4. \A d \in Conn : Keeps(d)
      BY <3>3 DEF Keeps
    <3>5. AcceptsStay
      BY <1>1, <3>1, StayIfAppended
    <3> QED
      BY <2>1, <3>4, <3>5, OwnedStays
  <2>3. CASE SocketStartFails(c)
    <3>1. UNCHANGED <<sock, handlerQ>>
      BY <2>3 DEF SocketStartFails
    <3>2. AcceptsStay /\ \A d \in Conn : Keeps(d)
      BY <3>1, StayIfSame DEF Keeps
    <3> QED
      BY <2>1, <3>2, OwnedStays
  <2> QED
    BY <2>1, <2>2, <2>3
<1>4. CASE AcceptBanner(c)
  <2>1. UNCHANGED <<owner, sock, handlerQ>>
    BY <1>4 DEF AcceptBanner
  <2>2. AcceptsStay /\ \A d \in Conn : Keeps(d)
    BY <2>1, StayIfSame DEF Keeps
  <2> QED
    BY <2>1, <2>2, OwnedStays
<1>5. CASE RunOpen(c) \/ RunData(c) \/ RunClose(c)
  <2>1. /\ owner' = owner /\ handlerQ # <<>> /\ handlerQ' = Tail(handlerQ)
        /\ Head(handlerQ).kind # "accept"
        /\ sock' = sock \/ sock' = [sock EXCEPT ![c].handlers = @ \cup {"smtp", "data"}]
    BY <1>5 DEF RunOpen, RunData, RunClose, Runs
  <2>2. \A d \in Conn : /\ sock'[d].mem = sock[d].mem /\ sock'[d].channel = sock[d].channel
                        /\ sock'[d].socketfd = sock[d].socketfd
    BY <1>1, <2>1 DEF SocketState
  <2>3. \A d \in Conn : Keeps(d)
    BY <2>2 DEF Keeps
  <2>4. AcceptsStay
    BY <1>1, <2>1, StayIfRun
  <2> QED
    BY <2>1, <2>3, <2>4, OwnedStays
<1> QED
  BY <1>2, <1>3, <1>4, <1>5 DEF HandlerQueue

LEMMA NextOwned == SocketsInv /\ OwnedInv /\ [Next]_vars => OwnedInv'
<1> SUFFICES ASSUME SocketsInv, OwnedInv, [Next]_vars PROVE OwnedInv'
  OBVIOUS
<1>1. TypeOK /\ sock \in [Conn -> SocketState]
  BY DEF SocketsInv, TypeOK
<1>2. CASE UNCHANGED vars \/ EmailzStart \/ \E c \in Conn : ReadData(c) \/ ReadEnds(c)
  <2>1. UNCHANGED <<owner, sock, handlerQ>>
    BY <1>2 DEF vars, EmailzStart, ReadData, ReadEnds
  <2>2. AcceptsStay /\ \A d \in Conn : Keeps(d)
    BY <2>1, StayIfSame DEF Keeps
  <2> QED
    BY <2>1, <2>2, OwnedStays
<1>3. ASSUME NEW c \in Conn, Cleanup(c) PROVE OwnedInv'
  <2>1. handlerQ' = Append(handlerQ, Block("close", c)) /\ UNCHANGED <<owner, sock>>
        /\ Block("close", c) \in QueueBlock
    BY <1>3, BlockIs DEF Cleanup
  <2>2. AcceptsStay /\ \A d \in Conn : Keeps(d)
    BY <1>1, <2>1, StayIfAppended DEF Keeps
  <2> QED
    BY <2>1, <2>2, OwnedStays
<1>4. ASSUME NEW c \in Conn, SocketDestroy(c) PROVE OwnedInv'
  <2>1. /\ clean[c].at = "count" /\ UNCHANGED <<owner, handlerQ>>
        /\ sock' = [sock EXCEPT ![c].mem = "freed", ![c].handlers = @ \ Handler]
    BY <1>4 DEF SocketDestroy
  <2>2. sock[c].channel = "closed"
    BY <2>1 DEF SocketsInv, LifeInv
  <2>3. \A d \in Conn : d # c => sock'[d] = sock[d]
    BY <1>1, <2>1
  <2>4. AcceptsStay /\ \A d \in Conn : Keeps(d)
    BY <2>1, <2>2, <2>3, StayIfSame DEF Keeps
  <2> QED
    BY <2>1, <2>4, OwnedStays
<1>5. ASSUME NEW c \in Conn, ListenerEvent(c) \/ HandlerQueue(c) PROVE OwnedInv'
  BY <1>5, ListenOwned, QueueOwned
<1> QED
  BY <1>2, <1>3, <1>4, <1>5, ThreadOwned DEF Next

LEMMA NextHandlers == SocketsInv /\ HandlersInv /\ [Next]_vars => HandlersInv'
<1> SUFFICES ASSUME SocketsInv, HandlersInv, [Next]_vars, NEW c \in Conn, sock'[c].mem = "freed"
             PROVE  sock'[c].handlers = {} \/ "stale" \in hist'
  BY DEF HandlersInv
<1>1. TypeOK /\ sock \in [Conn -> SocketState]
  BY DEF SocketsInv, TypeOK
<1>2. hist \subseteq hist'
  <2>1. CASE UNCHANGED vars \/ EmailzStart
    BY <2>1 DEF vars, EmailzStart
  <2>2. ASSUME NEW d \in Conn, ListenerEvent(d) \/ ReadData(d) \/ ReadEnds(d) \/ Cleanup(d) \/ SocketDestroy(d)
        PROVE  hist \subseteq hist'
    BY <2>2 DEF ListenerEvent, ReadData, ReadEnds, Cleanup, SocketDestroy, Noted
  <2>3. ASSUME NEW d \in Conn, HandlerQueue(d) PROVE hist \subseteq hist'
    BY <2>3 DEF HandlerQueue, HandleAccept, AcceptStarts, AcceptBanner, RunOpen, RunData, RunClose, Noted
  <2>4. ASSUME NEW d \in Conn, NEW t \in Threads, ThreadStep(d, t) PROVE hist \subseteq hist'
    BY <2>4 DEF ThreadStep, ReadStopped, ReadLines, Record, RecordOutDone, ReplyDone, ByeDone,
                StopClose, StopClear, RecordFclose, RecordNull, Noted
  <2> QED
    BY <2>1, <2>2, <2>3, <2>4 DEF Next
<1>3. CASE sock'[c].mem = sock[c].mem /\ sock'[c].handlers = sock[c].handlers
  BY <1>2, <1>3 DEF HandlersInv
<1>4. CASE sock' = sock
  BY <1>3, <1>4
<1>5. ASSUME NEW d \in Conn, HandlerQueue(d)
      PROVE  sock'[c].handlers = {} \/ "stale" \in hist'
  <2>1. CASE HandleAccept(d)
    <3>1. sock' = [sock EXCEPT ![d] = Created(Head(handlerQ).fd)]
      BY <2>1 DEF HandleAccept
    <3>2. c # d /\ sock'[c] = sock[c]
      BY <1>1, <3>1 DEF Created
    <3> QED
      BY <1>3, <3>2
  <2>2. CASE AcceptStarts(d)
    <3>1. CASE SocketStarts(d)
      <4>1. PICK opened \in {TRUE, ~MayFail} :
              sock' = [sock EXCEPT ![d].channel = "open", ![d].record = opened,
                                   ![d].log = IF opened THEN "open" ELSE "none"]
        BY <3>1 DEF SocketStarts
      <4>2. sock'[c].mem = sock[c].mem /\ sock'[c].handlers = sock[c].handlers
        BY <1>1, <4>1 DEF SocketState
      <4> QED
        BY <1>3, <4>2
    <3>2. CASE SocketStartFails(d)
      BY <1>4, <3>2 DEF SocketStartFails
    <3> QED
      BY <2>2, <3>1, <3>2 DEF AcceptStarts
  <2>3. CASE AcceptBanner(d) \/ RunData(d) \/ RunClose(d)
    BY <1>4, <2>3 DEF AcceptBanner, RunData, RunClose
  <2>4. CASE RunOpen(d)
    <3>1. /\ sock' = [sock EXCEPT ![d].handlers = @ \cup {"smtp", "data"}]
          /\ hist' = Noted("stale", sock[d].mem = "freed")
      BY <2>4 DEF RunOpen
    <3>2. sock'[c].mem = sock[c].mem /\ (c # d => sock'[c].handlers = sock[c].handlers)
      BY <1>1, <3>1 DEF SocketState
    <3>3. c = d => "stale" \in hist'
      BY <3>1, <3>2 DEF Noted
    <3> QED
      BY <1>3, <3>2, <3>3
  <2> QED
    BY <1>5, <2>1, <2>2, <2>3, <2>4 DEF HandlerQueue
<1>6. ASSUME NEW d \in Conn, NEW t \in Threads, ThreadStep(d, t)
      PROVE  sock'[c].handlers = {} \/ "stale" \in hist'
  <2>1. \/ sock' = sock
        \/ sock' = [sock EXCEPT ![d].channel = "closed"]
        \/ sock' = [sock EXCEPT ![d].socketfd = 0]
        \/ sock' = [sock EXCEPT ![d].log = "closed"]
        \/ sock' = [sock EXCEPT ![d].record = FALSE]
    BY <1>6 DEF ThreadStep, ReadStopped, ReadLines, Record, RecordOutDone, ReplyDone, ByeDone,
                StopClose, StopClear, RecordFclose, RecordNull
  <2>2. sock'[c].mem = sock[c].mem /\ sock'[c].handlers = sock[c].handlers
    BY <1>1, <2>1 DEF SocketState
  <2> QED
    BY <1>3, <2>2
<1>7. ASSUME NEW d \in Conn, SocketDestroy(d)
      PROVE  sock'[c].handlers = {} \/ "stale" \in hist'
  <2>1. sock' = [sock EXCEPT ![d].mem = "freed", ![d].handlers = @ \ Handler]
    BY <1>7 DEF SocketDestroy
  <2>2. CASE c # d
    <3>1. sock'[c] = sock[c]
      BY <1>1, <2>1, <2>2
    <3> QED
      BY <1>3, <3>1
  <2>3. CASE c = d
    <3>1. sock'[c].handlers = sock[c].handlers \ Handler
      BY <1>1, <2>1, <2>3 DEF SocketState
    <3>2. sock[c].handlers \subseteq Handler
      BY <1>1 DEF SocketState
    <3> QED
      BY <3>1, <3>2
  <2> QED
    BY <2>2, <2>3
<1>8. CASE \/ UNCHANGED vars \/ EmailzStart
           \/ \E d \in Conn : ListenerEvent(d) \/ ReadData(d) \/ ReadEnds(d) \/ Cleanup(d)
  <2>1. sock' = sock
    BY <1>8 DEF vars, EmailzStart, ListenerEvent, ReadData, ReadEnds, Cleanup
  <2> QED
    BY <1>4, <2>1
<1> QED
  BY <1>5, <1>6, <1>7, <1>8 DEF Next

LEMMA LeftKept == Spec => [](LogInv /\ OwnedInv /\ HandlersInv)
<1>1. SocketsInv /\ (LogInv /\ OwnedInv /\ HandlersInv) /\ [Next]_vars
        => (LogInv /\ OwnedInv /\ HandlersInv)'
  BY NextLog, NextOwned, NextHandlers
<1> QED
  BY <1>1, LogInit, SocketsKept, PTL DEF Spec

\* A freed connection has given its descriptor back and closed its record, in
\* whatever order its threads stopped it and whatever calls failed; a handler is
\* left only if it was installed too late (emailz_socket_stop,
\* emailz_socket_record_close, emailz_socket_destroy).
THEOREM FreedStaysEmpty == Spec => []FreedLeavesNothing
<1>1. SocketsInv /\ LogInv /\ OwnedInv /\ HandlersInv => FreedLeavesNothing
  <2> SUFFICES ASSUME SocketsInv, LogInv, OwnedInv, HandlersInv, NEW c \in Conn, sock[c].mem = "freed"
               PROVE  /\ \A f \in Fd : owner[f] # c
                      /\ sock[c].log # "open"
                      /\ sock[c].handlers = {} \/ "stale" \in hist
    BY DEF FreedLeavesNothing
  <2>1. clean[c].at # "none" /\ sock[c].channel = "closed"
    BY DEF SocketsInv, LifeInv
  <2>2. \A f \in Fd : ~Holds(c, f)
    BY <2>1 DEF Holds
  <2>3. \A f \in Fd : ~Accepting(c, f)
    BY DEF Accepting, SocketsInv, OnceInv
  <2>4. \A f \in Fd : owner[f] # c
    BY <2>2, <2>3 DEF OwnedInv
  <2>5. sock[c].log # "open"
    BY <2>1 DEF LogInv, LogKept
  <2>6. sock[c].handlers = {} \/ "stale" \in hist
    BY DEF HandlersInv
  <2> QED
    BY <2>4, <2>5, <2>6
<1> QED
  BY <1>1, LeftKept, SocketsKept, PTL

-------------------------------------------------------------------------------
(***************************************************************************)
(* How many connections there are.  While one accept or one cleanup is     *)
(* between its load and its store of sockets_open, what it has loaded is   *)
(* still the count, unless another has loaded too.                         *)
(***************************************************************************)
Counted == {c \in Conn : sock[c].mem = "live" /\ ~(main.conn = c /\ main.at = "count")}

\* A socket is freed at the end of its cleanup.
DoneInv == \A c \in Conn : sock[c].mem = "freed" => clean[c].at = "done"

\* What was loaded is still the count, and only one has loaded.
LoadedIsOpen ==
  /\ main.at = "count" => main.seen = open /\ \A c \in Conn : clean[c].at # "count"
  /\ \A c \in Conn : clean[c].at = "count" => clean[c].seen = open
  /\ \A c, d \in Conn : clean[c].at = "count" /\ clean[d].at = "count" => c = d

CountedExactly == open = Cardinality(Counted) /\ LoadedIsOpen

CountInv ==
  /\ DoneInv
  /\ "raced" \in hist \/ CountedExactly

LEMMA CountedFinite == IsFiniteSet(Conn) /\ IsFiniteSet(Counted)
<1>1. IsFiniteSet(Conn)
  BY FS_Interval, SocketsAssumption DEF Conn
<1>2. Counted \subseteq Conn
  BY DEF Counted
<1> QED
  BY <1>1, <1>2, FS_Subset

LEMMA InitCount == Init => CountInv
<1> SUFFICES ASSUME Init PROVE CountInv
  OBVIOUS
<1>1. \A c \in Conn : sock[c].mem = "none" /\ clean[c].at = "none"
  BY DEF Init, Created
<1>2. open = 0 /\ main.at = "none"
  BY DEF Init, Idle
<1>3. Counted = {}
  BY <1>1 DEF Counted
<1>4. open = Cardinality(Counted)
  BY <1>2, <1>3, FS_EmptySet
<1> QED
  BY <1>1, <1>2, <1>4 DEF CountInv, CountedExactly, DoneInv, LoadedIsOpen

\* The handler queue neither loads nor stores the count.
MainUncounted == main' = main \/ (main.at # "count" /\ main'.at # "count")

\* Most steps are none of the count's.
LEMMA CountStays ==
  ASSUME CountInv, UNCHANGED <<open, clean>>, hist \subseteq hist',
         \A c \in Conn : sock'[c].mem = sock[c].mem,
         MainUncounted
  PROVE  CountInv'
<1>1. DoneInv'
  BY DEF CountInv, DoneInv
<1>2. ASSUME "raced" \notin hist'
      PROVE  CountedExactly'
  <2>1. open = Cardinality(Counted) /\ LoadedIsOpen
    BY <1>2 DEF CountInv, CountedExactly
  <2>2. Counted' = Counted
    BY DEF Counted, MainUncounted
  <2>3. LoadedIsOpen'
    BY <2>1 DEF LoadedIsOpen, MainUncounted
  <2> QED
    BY <2>1, <2>2, <2>3 DEF CountedExactly
<1> QED
  BY <1>1, <1>2 DEF CountInv

LEMMA AcceptCounts ==
  ASSUME SocketsInv, CountInv, NEW c \in Conn, HandleAccept(c)
  PROVE  CountInv'
<1>1. /\ main = Idle /\ handlerQ # <<>> /\ Head(handlerQ).kind = "accept" /\ Head(handlerQ).conn = c
      /\ sock' = [sock EXCEPT ![c] = Created(Head(handlerQ).fd)]
      /\ main' = [conn |-> c, at |-> "count", seen |-> open]
      /\ hist' = Noted("raced", \E d \in Conn : clean[d].at = "count")
      /\ UNCHANGED <<clean, open>>
  BY DEF HandleAccept, Runs
<1>2. sock[c].mem = "none"
  <2>1. handlerQ \in Seq(QueueBlock)
    BY QueueAt DEF SocketsInv
  <2>2. 1 \in 1..Len(handlerQ) /\ Head(handlerQ) = handlerQ[1]
    BY <1>1, <2>1, TailAt
  <2> QED
    BY <1>1, <2>2 DEF SocketsInv, OnceInv
<1>3. sock'[c].mem = "live" /\ \A d \in Conn : d # c => sock'[d] = sock[d]
  <2>1. sock \in [Conn -> SocketState]
    BY DEF SocketsInv, TypeOK
  <2> QED
    BY <1>1, <2>1 DEF Created
<1>4. DoneInv'
  BY <1>1, <1>3 DEF CountInv, DoneInv
<1>5. ASSUME "raced" \notin hist'
      PROVE  CountedExactly'
  <2>1. "raced" \notin hist /\ \A d \in Conn : clean[d].at # "count"
    BY <1>1, <1>5 DEF Noted
  <2>2. open = Cardinality(Counted) /\ LoadedIsOpen
    BY <2>1 DEF CountInv, CountedExactly
  <2>3. main.at # "count" /\ main'.conn = c /\ main'.at = "count" /\ main'.seen = open
    BY <1>1 DEF Idle
  <2>4. Counted' = Counted
    BY <1>2, <1>3, <2>3 DEF Counted
  <2>5. LoadedIsOpen'
    BY <1>1, <2>1, <2>3 DEF LoadedIsOpen
  <2> QED
    BY <1>1, <2>2, <2>4, <2>5 DEF CountedExactly
<1> QED
  BY <1>4, <1>5 DEF CountInv

LEMMA StartCounts ==
  ASSUME SocketsInv, CountInv, NEW c \in Conn, AcceptStarts(c)
  PROVE  CountInv'
<1>1. /\ main.conn = c /\ main.at = "count" /\ open' = main.seen + 1
      /\ main' = [conn |-> c, at |-> "banner", seen |-> 0]
      /\ UNCHANGED <<clean, hist>>
  BY DEF AcceptStarts
<1>2. \A d \in Conn : sock'[d].mem = sock[d].mem
  <2>1. sock \in [Conn -> SocketState]
    BY DEF SocketsInv, TypeOK
  <2>2. CASE SocketStarts(c)
    <3>1. PICK opened \in {TRUE, ~MayFail} :
            sock' = [sock EXCEPT ![c].channel = "open", ![c].record = opened,
                                 ![c].log = IF opened THEN "open" ELSE "none"]
      BY <2>2 DEF SocketStarts
    <3> QED
      BY <2>1, <3>1 DEF SocketState
  <2>3. CASE SocketStartFails(c)
    BY <2>3 DEF SocketStartFails
  <2> QED
    BY <2>2, <2>3 DEF AcceptStarts
<1>3. sock[c].mem = "live"
  BY <1>1 DEF SocketsInv, AcceptInv
<1>4. DoneInv'
  BY <1>1, <1>2 DEF CountInv, DoneInv
<1>5. ASSUME "raced" \notin hist'
      PROVE  CountedExactly'
  <2>1. open = Cardinality(Counted) /\ LoadedIsOpen
    BY <1>1, <1>5 DEF CountInv, CountedExactly
  <2>2. main.seen = open /\ \A d \in Conn : clean[d].at # "count"
    BY <1>1, <2>1 DEF LoadedIsOpen
  <2>3. Counted' = Counted \cup {c} /\ c \notin Counted
    BY <1>1, <1>2, <1>3 DEF Counted
  <2>4. Cardinality(Counted') = Cardinality(Counted) + 1
    BY <2>3, CountedFinite, FS_AddElement
  <2>5. LoadedIsOpen'
    BY <1>1, <2>2 DEF LoadedIsOpen
  <2> QED
    BY <1>1, <2>1, <2>2, <2>4, <2>5 DEF CountedExactly
<1> QED
  BY <1>4, <1>5 DEF CountInv

LEMMA CleanupCounts ==
  ASSUME SocketsInv, CountInv, NEW c \in Conn, Cleanup(c)
  PROVE  CountInv'
<1>1. /\ clean[c].at = "none"
      /\ clean' = [clean EXCEPT ![c] = [at |-> "count", seen |-> open]]
      /\ hist' = Noted("raced", main.at = "count" \/ \E d \in Conn : clean[d].at = "count")
      /\ UNCHANGED <<sock, main, open>>
  BY DEF Cleanup
<1>2. /\ clean'[c].at = "count" /\ clean'[c].seen = open
      /\ \A d \in Conn : d # c => clean'[d] = clean[d]
  <2>1. clean \in [Conn -> [at : {"none", "count", "done"}, seen : Int]]
    BY DEF SocketsInv, TypeOK
  <2> QED
    BY <1>1, <2>1
<1>3. DoneInv'
  BY <1>1, <1>2 DEF CountInv, DoneInv
<1>4. ASSUME "raced" \notin hist'
      PROVE  CountedExactly'
  <2>1. "raced" \notin hist /\ main.at # "count" /\ \A d \in Conn : clean[d].at # "count"
    BY <1>1, <1>4 DEF Noted
  <2>2. open = Cardinality(Counted)
    BY <2>1 DEF CountInv, CountedExactly
  <2>3. Counted' = Counted
    BY <1>1 DEF Counted
  <2>4. \A d \in Conn : clean'[d].at = "count" => d = c
    BY <1>2, <2>1
  <2>5. LoadedIsOpen'
    BY <1>1, <1>2, <2>1, <2>4 DEF LoadedIsOpen
  <2> QED
    BY <1>1, <2>2, <2>3, <2>5 DEF CountedExactly
<1> QED
  BY <1>3, <1>4 DEF CountInv

LEMMA DestroyCounts ==
  ASSUME SocketsInv, CountInv, NEW c \in Conn, SocketDestroy(c)
  PROVE  CountInv'
<1>1. /\ clean[c].at = "count" /\ open' = clean[c].seen - 1
      /\ clean' = [clean EXCEPT ![c] = [at |-> "done", seen |-> 0]]
      /\ sock' = [sock EXCEPT ![c].mem = "freed", ![c].handlers = @ \ Handler]
      /\ UNCHANGED <<main, hist>>
  BY DEF SocketDestroy, OneLess
<1>2. clean'[c].at = "done" /\ \A d \in Conn : d # c => clean'[d] = clean[d]
  <2>1. clean \in [Conn -> [at : {"none", "count", "done"}, seen : Int]]
    BY DEF SocketsInv, TypeOK
  <2> QED
    BY <1>1, <2>1
<1>3. sock'[c].mem = "freed" /\ \A d \in Conn : d # c => sock'[d].mem = sock[d].mem
  <2>1. sock \in [Conn -> SocketState]
    BY DEF SocketsInv, TypeOK
  <2> QED
    BY <1>1, <2>1 DEF SocketState
<1>4. sock[c].mem = "live"
  <2>1. sock[c].mem \in {"none", "live", "freed"}
    BY SocketFields DEF SocketsInv, SocketState
  <2>2. sock[c].mem # "none"
    BY <1>1 DEF SocketsInv, LifeInv
  <2>3. sock[c].mem # "freed"
    BY <1>1 DEF CountInv, DoneInv
  <2> QED
    BY <2>1, <2>2, <2>3
<1>5. DoneInv'
  BY <1>2, <1>3 DEF CountInv, DoneInv
<1>6. ASSUME "raced" \notin hist'
      PROVE  CountedExactly'
  <2>1. open = Cardinality(Counted) /\ LoadedIsOpen
    BY <1>1, <1>6 DEF CountInv, CountedExactly
  <2>2. main.at # "count" /\ clean[c].seen = open /\ \A d \in Conn : clean[d].at = "count" => d = c
    BY <1>1, <2>1 DEF LoadedIsOpen
  <2>3. Counted' = Counted \ {c} /\ c \in Counted
    BY <1>1, <1>3, <1>4, <2>2 DEF Counted
  <2>4. Cardinality(Counted') = Cardinality(Counted) - 1
    BY <2>3, CountedFinite, FS_RemoveElement
  <2>5. LoadedIsOpen'
    <3>1. \A d \in Conn : clean'[d].at # "count"
      BY <1>2, <2>2
    <3> QED
      BY <1>1, <2>2, <3>1 DEF LoadedIsOpen
  <2> QED
    BY <1>1, <2>1, <2>2, <2>4, <2>5 DEF CountedExactly
<1> QED
  BY <1>5, <1>6 DEF CountInv

\* The steps that change no memory and no count.
LEMMA SameMemory ==
  ASSUME TypeOK, NEW c \in Conn,
         \/ sock' = sock
         \/ sock' = [sock EXCEPT ![c].channel = "closed"]
         \/ sock' = [sock EXCEPT ![c].socketfd = 0]
         \/ sock' = [sock EXCEPT ![c].log = "closed"]
         \/ sock' = [sock EXCEPT ![c].record = FALSE]
         \/ sock' = [sock EXCEPT ![c].handlers = @ \cup {"smtp", "data"}]
  PROVE  \A d \in Conn : sock'[d].mem = sock[d].mem
<1>1. sock \in [Conn -> SocketState]
  BY DEF TypeOK
<1> QED
  BY <1>1 DEF SocketState

LEMMA ThreadCounts ==
  ASSUME TypeOK, CountInv, NEW c \in Conn, NEW t \in Threads, ThreadStep(c, t)
  PROVE  CountInv'
<1>1. UNCHANGED <<main, open, clean>>
  BY DEF ThreadStep, ReadStopped, ReadLines, Record, RecordOutDone, ReplyDone, ByeDone,
         StopClose, StopClear, RecordFclose, RecordNull
<1>2. \A d \in Conn : sock'[d].mem = sock[d].mem
  <2>1. \/ sock' = sock
        \/ sock' = [sock EXCEPT ![c].channel = "closed"]
        \/ sock' = [sock EXCEPT ![c].socketfd = 0]
        \/ sock' = [sock EXCEPT ![c].log = "closed"]
        \/ sock' = [sock EXCEPT ![c].record = FALSE]
    BY DEF ThreadStep, ReadStopped, ReadLines, Record, RecordOutDone, ReplyDone, ByeDone,
           StopClose, StopClear, RecordFclose, RecordNull
  <2> QED
    BY <2>1, SameMemory
<1>3. hist \subseteq hist'
  BY DEF ThreadStep, ReadStopped, ReadLines, Record, RecordOutDone, ReplyDone, ByeDone,
         StopClose, StopClear, RecordFclose, RecordNull, Noted
<1>4. MainUncounted
  BY <1>1 DEF MainUncounted
<1> QED
  BY <1>1, <1>2, <1>3, <1>4, CountStays

LEMMA QueueCounts ==
  ASSUME TypeOK, CountInv, NEW c \in Conn, AcceptBanner(c) \/ RunOpen(c) \/ RunData(c) \/ RunClose(c)
  PROVE  CountInv'
<1>1. UNCHANGED <<open, clean>>
  BY DEF AcceptBanner, RunOpen, RunData, RunClose
<1>2. MainUncounted
  <2>1. Idle.at = "none"
    BY DEF Idle
  <2>2. CASE AcceptBanner(c)
    BY <2>1, <2>2 DEF AcceptBanner, MainUncounted
  <2>3. CASE RunOpen(c) \/ RunData(c) \/ RunClose(c)
    BY <2>3 DEF RunOpen, RunData, RunClose, MainUncounted
  <2> QED
    BY <2>2, <2>3
<1>3. \A d \in Conn : sock'[d].mem = sock[d].mem
  <2>1. sock' = sock \/ sock' = [sock EXCEPT ![c].handlers = @ \cup {"smtp", "data"}]
    BY DEF AcceptBanner, RunOpen, RunData, RunClose
  <2> QED
    BY <2>1, SameMemory
<1>4. hist \subseteq hist'
  BY DEF AcceptBanner, RunOpen, RunData, RunClose, Noted
<1> QED
  BY <1>1, <1>2, <1>3, <1>4, CountStays

LEMMA NextCount == SocketsInv /\ CountInv /\ [Next]_vars => CountInv'
<1> SUFFICES ASSUME SocketsInv, CountInv, [Next]_vars PROVE CountInv'
  OBVIOUS
<1>1. TypeOK
  BY DEF SocketsInv
<1>2. CASE UNCHANGED <<sock, main, clean, open, hist>>
  <2>1. MainUncounted /\ hist \subseteq hist' /\ \A c \in Conn : sock'[c].mem = sock[c].mem
    BY <1>2 DEF MainUncounted
  <2> QED
    BY <1>2, <2>1, CountStays
<1>3. ASSUME NEW c \in Conn,
             \/ HandlerQueue(c)
             \/ \E t \in Threads : ThreadStep(c, t)
             \/ Cleanup(c) \/ SocketDestroy(c)
      PROVE  CountInv'
  BY <1>1, <1>3, AcceptCounts, StartCounts, QueueCounts, ThreadCounts, CleanupCounts, DestroyCounts
     DEF HandlerQueue
<1>4. \/ UNCHANGED vars \/ EmailzStart
      \/ \E c \in Conn : \/ ListenerEvent(c) \/ ReadData(c) \/ ReadEnds(c)
                         \/ HandlerQueue(c)
                         \/ \E t \in Threads : ThreadStep(c, t)
                         \/ Cleanup(c) \/ SocketDestroy(c)
  BY DEF Next
<1>5. CASE UNCHANGED vars \/ EmailzStart \/ \E c \in Conn : ListenerEvent(c) \/ ReadData(c) \/ ReadEnds(c)
  <2>1. UNCHANGED <<sock, main, clean, open, hist>>
    BY <1>5 DEF vars, EmailzStart, ListenerEvent, ReadData, ReadEnds
  <2> QED
    BY <1>2, <2>1
<1> QED
  BY <1>3, <1>4, <1>5

LEMMA CountKept == Spec => []CountInv
BY InitCount, NextCount, SocketsKept, PTL DEF Spec

\* sockets_open is the number of connections that were accepted and are not yet
\* destroyed, for any number of them, unless an accept and a cleanup met between
\* load and store (emailz_handle_accept and the cleanup handler).
THEOREM OpenStaysExact == Spec => []OpenIsExact
<1>1. CountInv => OpenIsExact
  BY DEF CountInv, CountedExactly, Counted, OpenIsExact
<1> QED
  BY <1>1, CountKept, PTL

-------------------------------------------------------------------------------
(* The map of connections, for any order of its three queues: it adds      *)
(* nothing to what the sockets do, so that their theorems hold under it,   *)
(* and a marker whose connection has been taken off the map is one that    *)
(* came too late.                                                          *)

MapInv == MapTypeOK /\ MarkerIsLive

LEMMA InitMap == MapInit => MapInv
BY DEF MapInit, MapInv, MapTypeOK, MarkerIsLive

\* Each step of the map's own queues.
LEMMA OpensOnMap ==
  ASSUME MapInv, NEW c \in Conn, OpenedOnMap(c)
  PROVE  MapInv'
<1>1. /\ geocode \in [Conn -> {"none", "asking", "answered", "done"}]
      /\ geocode' = [geocode EXCEPT ![c] = IF c \in Private THEN "done" ELSE "asking"]
      /\ UNCHANGED <<unset, mMarkers, overtaken>>
  BY DEF MapInv, MapTypeOK, OpenedOnMap
<1>2. geocode' \in [Conn -> {"none", "asking", "answered", "done"}]
  BY <1>1
<1> QED
  BY <1>1, <1>2 DEF MapInv, MapTypeOK, MarkerIsLive

LEMMA ClosesOnMap ==
  ASSUME MapInv, NEW c \in Conn, ClosedOnMap(c)
  PROVE  MapInv'
<1>1. /\ unset \in [Conn -> {"none", "queued", "done"}]
      /\ unset' = [unset EXCEPT ![c] = "queued"]
      /\ UNCHANGED <<geocode, mMarkers, overtaken>>
      /\ mMarkers \subseteq Conn
  BY DEF MapInv, MapTypeOK, ClosedOnMap
<1>2. unset' \in [Conn -> {"none", "queued", "done"}]
  BY <1>1
<1>3. \A d \in Conn : unset'[d] = "done" => unset[d] = "done"
  BY <1>1
<1> QED
  BY <1>1, <1>2, <1>3 DEF MapInv, MapTypeOK, MarkerIsLive

LEMMA Answers ==
  ASSUME MapInv, NEW c \in Conn, GeocodeAnswers(c)
  PROVE  MapInv'
<1>1. PICK answer \in {"answered", "done"} : geocode' = [geocode EXCEPT ![c] = answer]
  BY DEF GeocodeAnswers
<1>2. geocode' \in [Conn -> {"none", "asking", "answered", "done"}]
  BY <1>1 DEF MapInv, MapTypeOK
<1> QED
  BY <1>2 DEF MapInv, MapTypeOK, MarkerIsLive, GeocodeAnswers

\* A marker set after the unset has run is noted.
LEMMA Sets ==
  ASSUME MapInv, NEW c \in Conn, SetMarker(c)
  PROVE  MapInv'
<1>1. /\ geocode' = [geocode EXCEPT ![c] = "done"]
      /\ mMarkers' = mMarkers \cup {c}
      /\ overtaken' = IF unset[c] = "done" THEN overtaken \cup {c} ELSE overtaken
      /\ unset' = unset
  BY DEF SetMarker
<1>2. MapTypeOK'
  BY <1>1 DEF MapInv, MapTypeOK
<1>3. ASSUME NEW d \in mMarkers', unset'[d] = "done" PROVE d \in overtaken'
  BY <1>1, <1>3 DEF MapInv, MarkerIsLive
<1> QED
  BY <1>2, <1>3 DEF MapInv, MarkerIsLive

\* Nothing else makes an unset done, and it takes its marker off.
LEMMA Unsets ==
  ASSUME MapInv, NEW c \in Conn, UnsetMarker(c)
  PROVE  MapInv'
<1>1. /\ unset' = [unset EXCEPT ![c] = "done"]
      /\ mMarkers' = mMarkers \ {c}
      /\ UNCHANGED <<geocode, overtaken>>
      /\ unset \in [Conn -> {"none", "queued", "done"}]
      /\ mMarkers \subseteq Conn
  BY DEF UnsetMarker, MapInv, MapTypeOK
<1>2. MapTypeOK'
  BY <1>1 DEF MapInv, MapTypeOK
<1>3. ASSUME NEW d \in mMarkers', unset'[d] = "done" PROVE d \in overtaken'
  <2>1. d # c /\ d \in mMarkers /\ unset[d] = "done"
    BY <1>1, <1>3
  <2> QED
    BY <1>1, <2>1 DEF MapInv, MarkerIsLive
<1> QED
  BY <1>2, <1>3 DEF MapInv, MarkerIsLive

LEMMA MapNextKeeps == MapInv /\ [MapNext]_<<vars, mapVars>> => MapInv'
<1> SUFFICES ASSUME MapInv, [MapNext]_<<vars, mapVars>> PROVE MapInv'
  OBVIOUS
<1>1. CASE UNCHANGED mapVars
  BY <1>1 DEF mapVars, MapInv, MapTypeOK, MarkerIsLive
<1>2. CASE \E c \in Conn : \/ OpenedOnMap(c) \/ ClosedOnMap(c)
                           \/ GeocodeAnswers(c) \/ SetMarker(c) \/ UnsetMarker(c)
  BY <1>2, OpensOnMap, ClosesOnMap, Answers, Sets, Unsets
<1> QED
  BY <1>1, <1>2 DEF MapNext

\* The map's steps are the sockets' steps, or leave them alone.
LEMMA MapStepIsSocketStep == [MapNext]_<<vars, mapVars>> => [Next]_vars
<1> SUFFICES ASSUME [MapNext]_<<vars, mapVars>> PROVE [Next]_vars
  OBVIOUS
<1>1. CASE UNCHANGED <<vars, mapVars>>
  BY <1>1
<1>2. CASE MapNext
  <2>1. CASE EmailzStart
    BY <1>2, <2>1 DEF MapNext, Next
  <2>2. CASE \E c \in Conn : SocketSteps(c)
    BY <1>2, <2>2 DEF MapNext, Next, SocketSteps, HandlerQueue
  <2>3. CASE \E c \in Conn : OpenedOnMap(c) \/ ClosedOnMap(c)
    BY <1>2, <2>3 DEF MapNext, Next, OpenedOnMap, ClosedOnMap, HandlerQueue
  <2>4. CASE \E c \in Conn : GeocodeAnswers(c) \/ SetMarker(c) \/ UnsetMarker(c)
    BY <2>4 DEF GeocodeAnswers, SetMarker, UnsetMarker
  <2> QED
    BY <1>2, <2>1, <2>2, <2>3, <2>4 DEF MapNext
<1> QED
  BY <1>1, <1>2

\* The map implements the life-cycle it stands on: whatever the geocoder, the
\* main thread and the global queue do, its connections are those of Sockets
\* (SMAppDelegate.m's OPEN and CLOSE).
THEOREM MapIsOfSockets == MapSpec => Spec
<1>1. MapInit => Init
  BY DEF MapInit
<1> QED
  BY <1>1, MapStepIsSocketStep, PTL DEF MapSpec, Spec

LEMMA MapKept == MapSpec => []MapInv
BY InitMap, MapNextKeeps, PTL DEF MapSpec

\* The map's variables stay well typed, in particular every marker is that of a
\* connection (SMMapViewController.m's mMarkers).
THEOREM MapTyped == FairMapSpec => []MapTypeOK
<1>1. MapInv => MapTypeOK
  BY DEF MapInv
<1> QED
  BY <1>1, MapKept, PTL DEF FairMapSpec

\* A marker that outlives the unset of its connection was set after it: the two
\* queues have no other way to leave one (SMAppDelegate.m's OPEN and CLOSE).
THEOREM MarkersAreLive == FairMapSpec => []MarkerIsLive
<1>1. MapInv => MarkerIsLive
  BY DEF MapInv
<1> QED
  BY <1>1, MapKept, PTL DEF FairMapSpec

\* What holds of the sockets by themselves holds of them under the map.
COROLLARY SocketsKeptUnderMap ==
  FairMapSpec => [](/\ TypeOK /\ DescriptorKept /\ FreedIsOver
                     /\ FreedLeavesNothing /\ CloseIsLast /\ OpenIsExact)
<1>1. MapSpec => Spec
  BY MapIsOfSockets
<1> QED
  BY <1>1, SocketsTyped, DescriptorStaysKept, FreedStaysOver, FreedStaysEmpty, CloseStaysLast,
     OpenStaysExact, PTL DEF FairMapSpec
===============================================================================
