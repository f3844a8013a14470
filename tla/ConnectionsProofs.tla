------------------------- MODULE ConnectionsProofs -------------------------
(***************************************************************************)
(* Lines stay whole and calls are answered before the end for any number   *)
(* of connections, subscriptions, calls and events and any capacity of the *)
(* socket.  What a connection has written and its client has not yet put   *)
(* together is a sequence of whole lines, and then the half of one that    *)
(* whoever holds the mutex is writing.  The events of a subscription are   *)
(* in their order at every place between its task and its subscriber.      *)
(***************************************************************************)
EXTENDS Connections, FiniteSetTheorems, FunctionTheorems, SequenceTheorems, TLAPS

HalfLine == Line \X {1, 2}

ConnRecord ==
    [phase : Phase, fresh : BOOLEAN, handshaken : BOOLEAN, call : Call, reply : Line,
     known : SUBSET Sub, stop : BOOLEAN, next : Nat, holder : Sub \cup {Server, Free},
     writable : BOOLEAN]
TaskRecord == [at : TaskAt, aborted : BOOLEAN, sent : 0..MaxEvents]
ClientRecord ==
    [at : ClientAt, asked : Nat, queue : Seq(Line), half : Seq(HalfLine), named : SUBSET Sub,
     got : Seq(Line), answered : SUBSET Nat, garbled : BOOLEAN]

(* The types that ConnTypeOK gives, and those of the client's fields.      *)
ConnTypes ==
    /\ run \in {"accept", "drain", "down"}
    /\ flag \in BOOLEAN
    /\ conn \in [Conn -> ConnRecord]
    /\ task \in [Conn -> [Sub -> TaskRecord]]
    /\ inbox \in [Conn -> Seq(Call)]
    /\ out \in [Conn -> Seq(HalfLine)]
    /\ \A c \in Conn : Len(out[c]) <= Capacity
    /\ client \in [Conn -> ClientRecord]
    /\ torn \in [Conn -> BOOLEAN]

(* The half h that the client has gathered, and the halves o on their way: *)
(* a first half follows a second one, and a second half its own first one. *)
Wire(h, o) ==
    /\ h # <<>> => Len(h) = 1 /\ h[1][2] = 1
    /\ \A i \in 1..Len(o) :
          /\ o[i][2] = 1 => IF i = 1 THEN h = <<>> ELSE o[i - 1][2] = 2
          /\ o[i][2] = 2 => IF i = 1 THEN h # <<>> /\ h[1][1] = o[1][1]
                            ELSE o[i - 1][1] = o[i][1] /\ o[i - 1][2] = 1

(* The last line is complete, or its first half is the last thing written. *)
Whole(h, o) == IF o = <<>> THEN h = <<>> ELSE o[Len(o)][2] = 2
Halfway(h, o, line) ==
    IF o = <<>> THEN h # <<>> /\ h[1][1] = line
    ELSE o[Len(o)][1] = line /\ o[Len(o)][2] = 1

EventAfter(s, n) == [kind |-> "event", id |-> n + 1, sub |-> s]

(* The mutex of connection k is held by whoever is in the middle of a line,*)
(* and by nobody once the write side is closed.  A task that has something *)
(* to write has not yet written everything.                                *)
Turns(k, t) ==
    /\ k.holder = Server <=> k.phase = "write"
    /\ \A s \in Sub : k.holder = s <=> t[s].at = "write"
    /\ ~k.writable => k.holder = Free
    /\ \A s \in Sub : t[s].at \in {"lock", "write"} => t[s].sent < MaxEvents

WireFine(k, t, o, h) ==
    /\ Wire(h, o)
    /\ k.holder = Free => Whole(h, o)
    /\ k.holder = Server => Halfway(h, o, k.reply)
    /\ \A s \in Sub : k.holder = s => Halfway(h, o, EventAfter(s, t[s].sent))

(* The last call is answered, or there is a reason why it is not.          *)
Answered(k, o, cl, tn) ==
    LET id == AnswerTo(k.call).id
    IN  \/ k.call = NoCall
        \/ cl.at = "gone" \/ ~k.writable \/ tn
        \/ id \in cl.answered
        \/ \E i \in DOMAIN o : o[i][1].kind = "answer" /\ o[i][1].id = id /\ o[i][2] = 2

CallsFine(k, o, cl, tn) ==
    /\ k.phase \in {"off", "spawned"} => k.call = NoCall
    /\ k.phase \in {"reply", "write"} =>
          k.reply.kind = "answer" /\ k.reply.id = AnswerTo(k.call).id
    /\ k.phase \in {"top", "select", "done"} => Answered(k, o, cl, tn)

(* A connection k with its tasks t, its socket o, its client cl.           *)
Fine(k, t, o, cl, tn) ==
    /\ Turns(k, t)
    /\ k.phase = "off" => cl.at = "off"
    /\ tn \/ cl.at = "gone" \/ WireFine(k, t, o, cl.half)
    /\ cl.garbled => tn
    /\ CallsFine(k, o, cl, tn)

ConnFine(c) == Fine(conn[c], task[c], out[c], client[c], torn[c])

(* The process ends when every connection has been joined.                 *)
DownJoined == run = "down" => \A c \in Conn : conn[c].phase \in {"off", "done"}

(* The inductive invariant.                                                *)
ConnInv ==
    /\ ConnTypes
    /\ \A c \in Conn : ConnFine(c)
    /\ DownJoined

-----------------------------------------------------------------------------
(* Subscriptions, the connection's task and nobody are three different     *)
(* holders of the mutex.                                                   *)
LEMMA HolderFacts ==
    /\ Server \notin Sub /\ Free \notin Sub /\ None \notin Sub /\ Server # Free
    /\ \A s \in Sub : s \in Nat
BY BoundsAreCounts DEF Sub, Server, Free, None

(* A first half may follow a whole line.                                   *)
LEMMA WriteFirstHalf ==
    ASSUME NEW h \in Seq(HalfLine), NEW o \in Seq(HalfLine), NEW line \in Line,
           NEW p, p = Append(o, <<line, 1>>),
           Wire(h, o), Whole(h, o)
    PROVE  /\ p \in Seq(HalfLine) /\ Len(p) = Len(o) + 1
           /\ Wire(h, p) /\ Halfway(h, p, line)
<1> DEFINE x == <<line, 1>>
<1>1. x \in HalfLine /\ x[1] = line /\ x[2] = 1
  BY DEF HalfLine
<1> HIDE DEF x
<1>2. /\ p \in Seq(HalfLine) /\ p # <<>> /\ Len(p) = Len(o) + 1
      /\ \A i \in 1..Len(o) : p[i] = o[i]
      /\ p[Len(o) + 1] = x
  BY <1>1, AppendProperties DEF x
<1>3. Len(o) \in Nat
  OBVIOUS
<1>4. ASSUME NEW i \in 1..Len(p)
      PROVE  /\ p[i][2] = 1 => IF i = 1 THEN h = <<>> ELSE p[i - 1][2] = 2
             /\ p[i][2] = 2 => IF i = 1 THEN h # <<>> /\ h[1][1] = p[1][1]
                               ELSE p[i - 1][1] = p[i][1] /\ p[i - 1][2] = 1
  <2>1. CASE i \in 1..Len(o)
    <3>1. p[i] = o[i] /\ (i # 1 => p[i - 1] = o[i - 1])
      BY <1>2, <1>3, <2>1
    <3> QED BY <2>1, <3>1 DEF Wire
  <2>2. CASE i = Len(o) + 1
    <3>1. p[i][2] = 1
      BY <1>1, <1>2, <2>2
    <3>2. CASE o = <<>>
      <4>1. i = 1 /\ h = <<>>
        BY <2>2, <3>2 DEF Whole
      <4> QED BY <3>1, <4>1
    <3>3. CASE o # <<>>
      <4>1. i # 1 /\ i - 1 = Len(o) /\ Len(o) \in 1..Len(o)
        BY <1>3, <2>2, <3>3
      <4>2. p[i - 1] = o[Len(o)] /\ o[Len(o)][2] = 2
        BY <1>2, <3>3, <4>1 DEF Whole
      <4> QED BY <3>1, <4>1, <4>2
    <3> QED BY <3>2, <3>3
  <2> QED BY <1>2, <1>3, <2>1, <2>2
<1>5. Wire(h, p)
  BY <1>4 DEF Wire
<1>6. Halfway(h, p, line)
  BY <1>1, <1>2 DEF Halfway
<1> QED BY <1>2, <1>5, <1>6

(* The second half of the line that is halfway makes it whole.             *)
LEMMA WriteSecondHalf ==
    ASSUME NEW h \in Seq(HalfLine), NEW o \in Seq(HalfLine), NEW line \in Line,
           NEW p, p = Append(o, <<line, 2>>),
           Wire(h, o), Halfway(h, o, line)
    PROVE  /\ p \in Seq(HalfLine) /\ Len(p) = Len(o) + 1
           /\ Wire(h, p) /\ Whole(h, p)
<1> DEFINE x == <<line, 2>>
<1>1. x \in HalfLine /\ x[1] = line /\ x[2] = 2
  BY DEF HalfLine
<1> HIDE DEF x
<1>2. /\ p \in Seq(HalfLine) /\ p # <<>> /\ Len(p) = Len(o) + 1
      /\ \A i \in 1..Len(o) : p[i] = o[i]
      /\ p[Len(o) + 1] = x
  BY <1>1, AppendProperties DEF x
<1>3. Len(o) \in Nat
  OBVIOUS
<1>4. ASSUME NEW i \in 1..Len(p)
      PROVE  /\ p[i][2] = 1 => IF i = 1 THEN h = <<>> ELSE p[i - 1][2] = 2
             /\ p[i][2] = 2 => IF i = 1 THEN h # <<>> /\ h[1][1] = p[1][1]
                               ELSE p[i - 1][1] = p[i][1] /\ p[i - 1][2] = 1
  <2>1. CASE i \in 1..Len(o)
    <3>1. p[i] = o[i] /\ (i # 1 => p[i - 1] = o[i - 1])
      BY <1>2, <1>3, <2>1
    <3> QED BY <2>1, <3>1 DEF Wire
  <2>2. CASE i = Len(o) + 1
    <3>1. p[i][1] = line /\ p[i][2] = 2
      BY <1>1, <1>2, <2>2
    <3>2. CASE o = <<>>
      <4>1. i = 1 /\ h # <<>> /\ h[1][1] = line
        BY <2>2, <3>2 DEF Halfway
      <4> QED BY <3>1, <4>1
    <3>3. CASE o # <<>>
      <4>1. i # 1 /\ i - 1 = Len(o) /\ Len(o) \in 1..Len(o)
        BY <1>3, <2>2, <3>3
      <4>2. p[i - 1] = o[Len(o)] /\ o[Len(o)][1] = line /\ o[Len(o)][2] = 1
        BY <1>2, <3>3, <4>1 DEF Halfway
      <4> QED BY <3>1, <4>1, <4>2
    <3> QED BY <3>2, <3>3
  <2> QED BY <1>2, <1>3, <2>1, <2>2
<1>5. Wire(h, p)
  BY <1>4 DEF Wire
<1>6. Whole(h, p)
  BY <1>1, <1>2 DEF Whole
<1> QED BY <1>2, <1>5, <1>6

(* What is left when the client has taken the first half line.             *)
LEMMA TakeHalf ==
    ASSUME NEW h \in Seq(HalfLine), NEW o \in Seq(HalfLine), o # <<>>, Wire(h, o)
    PROVE  /\ Head(o) \in HalfLine /\ Head(o) = o[1] /\ Tail(o) \in Seq(HalfLine)
           /\ Len(Tail(o)) = Len(o) - 1 /\ Len(o) \in Nat /\ Len(o) >= 1
           /\ Tail(o) = <<>> <=> Len(o) = 1
           /\ \A i \in 1..Len(Tail(o)) : i + 1 \in 1..Len(o) /\ Tail(o)[i] = o[i + 1]
           /\ Head(o)[2] = 1 => h = <<>>
           /\ Head(o)[2] = 2 => Len(h) = 1 /\ h[1] = <<Head(o)[1], 1>>
<1>1. /\ Head(o) \in HalfLine /\ Tail(o) \in Seq(HalfLine) /\ Len(Tail(o)) = Len(o) - 1
      /\ \A i \in 1..Len(Tail(o)) : Tail(o)[i] = o[i + 1]
  BY HeadTailProperties
<1>2. Len(o) \in Nat /\ Len(o) >= 1 /\ 1 \in 1..Len(o) /\ Head(o) = o[1]
  OBVIOUS
<1>3. Tail(o) = <<>> <=> Len(o) = 1
  BY <1>1, <1>2, EmptySeq
<1>4. Head(o)[2] = 1 => h = <<>>
  BY <1>2 DEF Wire
<1>5. ASSUME Head(o)[2] = 2 PROVE Len(h) = 1 /\ h[1] = <<Head(o)[1], 1>>
  <2>1. h # <<>> /\ h[1][1] = o[1][1]
    BY <1>2, <1>5 DEF Wire
  <2>2. Len(h) = 1 /\ h[1][2] = 1
    BY <2>1 DEF Wire
  <2>3. h[1] \in HalfLine
    BY <2>2
  <2> QED BY <1>2, <2>1, <2>2, <2>3 DEF HalfLine
<1> QED BY <1>1, <1>2, <1>3, <1>4, <1>5

(* The client takes a first half: it had gathered nothing.                 *)
LEMMA ReadFirstHalf ==
    ASSUME NEW h \in Seq(HalfLine), NEW o \in Seq(HalfLine), o # <<>>, Wire(h, o),
           Head(o)[2] = 1, NEW p, p = Tail(o)
    PROVE  /\ p \in Seq(HalfLine)
           /\ Wire(Append(h, Head(o)), p)
           /\ Whole(h, o) => Whole(Append(h, Head(o)), p)
           /\ \A line : Halfway(h, o, line) => Halfway(Append(h, Head(o)), p, line)
<1>1. /\ Head(o) \in HalfLine /\ Head(o) = o[1] /\ p \in Seq(HalfLine)
      /\ Len(p) = Len(o) - 1 /\ Len(o) \in Nat /\ Len(o) >= 1
      /\ p = <<>> <=> Len(o) = 1
      /\ \A i \in 1..Len(p) : i + 1 \in 1..Len(o) /\ p[i] = o[i + 1]
      /\ h = <<>>
  BY TakeHalf
<1> DEFINE g == Append(h, Head(o))
<1>2. g \in Seq(HalfLine) /\ Len(g) = 1 /\ g[1] = Head(o) /\ g # <<>>
  BY <1>1, AppendProperties
<1> HIDE DEF g
<1>3. ASSUME NEW i \in 1..Len(p)
      PROVE  /\ p[i][2] = 1 => IF i = 1 THEN g = <<>> ELSE p[i - 1][2] = 2
             /\ p[i][2] = 2 => IF i = 1 THEN g # <<>> /\ g[1][1] = p[1][1]
                               ELSE p[i - 1][1] = p[i][1] /\ p[i - 1][2] = 1
  <2>1. i + 1 \in 1..Len(o) /\ p[i] = o[i + 1] /\ i + 1 # 1 /\ (i + 1) - 1 = i
    BY <1>1
  <2>2. /\ o[i + 1][2] = 1 => o[i][2] = 2
        /\ o[i + 1][2] = 2 => o[i][1] = o[i + 1][1] /\ o[i][2] = 1
    BY <2>1 DEF Wire
  <2>3. CASE i = 1
    BY <1>1, <1>2, <2>1, <2>2, <2>3
  <2>4. CASE i # 1
    <3>1. i - 1 \in 1..Len(p) /\ (i - 1) + 1 = i
      BY <1>1, <2>4
    <3>2. p[i - 1] = o[i]
      BY <1>1, <3>1
    <3> QED BY <2>1, <2>2, <2>4, <3>2
  <2> QED BY <2>3, <2>4
<1>4. Wire(g, p)
  BY <1>1, <1>2, <1>3 DEF Wire
<1>5. p # <<>> => p[Len(p)] = o[Len(o)]
  BY <1>1
<1>6. Whole(h, o) => Whole(g, p)
  BY <1>1, <1>5 DEF Whole
<1>7. \A line : Halfway(h, o, line) => Halfway(g, p, line)
  BY <1>1, <1>2, <1>5 DEF Halfway
<1> QED BY <1>1, <1>4, <1>6, <1>7 DEF g

(* The client takes a second half: it is of the line it has gathered.      *)
LEMMA ReadSecondHalf ==
    ASSUME NEW h \in Seq(HalfLine), NEW o \in Seq(HalfLine), o # <<>>, Wire(h, o),
           Head(o)[2] = 2, NEW p, p = Tail(o)
    PROVE  /\ p \in Seq(HalfLine)
           /\ Append(h, Head(o)) = <<<<Head(o)[1], 1>>, Head(o)>>
           /\ Wire(<<>>, p)
           /\ Whole(h, o) => Whole(<<>>, p)
           /\ \A line : Halfway(h, o, line) => Halfway(<<>>, p, line)
<1>1. /\ Head(o) \in HalfLine /\ Head(o) = o[1] /\ p \in Seq(HalfLine)
      /\ Len(p) = Len(o) - 1 /\ Len(o) \in Nat /\ Len(o) >= 1
      /\ p = <<>> <=> Len(o) = 1
      /\ \A i \in 1..Len(p) : i + 1 \in 1..Len(o) /\ p[i] = o[i + 1]
      /\ Len(h) = 1 /\ h[1] = <<Head(o)[1], 1>>
  BY TakeHalf
<1>2. Append(h, Head(o)) = <<<<Head(o)[1], 1>>, Head(o)>>
  <2> DEFINE x == <<Head(o)[1], 1>>
             y == Head(o)
             whole == <<x, y>>
  <2>1. x \in HalfLine /\ y \in HalfLine /\ h[1] = x
    BY <1>1 DEF HalfLine
  <2> HIDE DEF x, y
  <2>2. /\ whole \in Seq(HalfLine) /\ Len(whole) = 2
        /\ whole[1] = x /\ whole[2] = y
    BY <2>1
  <2>3. /\ Append(h, y) \in Seq(HalfLine) /\ Len(Append(h, y)) = 2
        /\ Append(h, y)[1] = x /\ Append(h, y)[2] = y
    <3>1. /\ Append(h, y) \in Seq(HalfLine) /\ Len(Append(h, y)) = Len(h) + 1
          /\ \A i \in 1..Len(h) : Append(h, y)[i] = h[i]
          /\ Append(h, y)[Len(h) + 1] = y
      BY <2>1, AppendProperties
    <3> QED BY <1>1, <2>1, <3>1
  <2> HIDE DEF whole
  <2>4. Append(h, y) = whole
    BY <2>2, <2>3, SeqEqual
  <2> QED BY <2>4 DEF whole, x, y
<1>3. ASSUME NEW i \in 1..Len(p)
      PROVE  /\ p[i][2] = 1 => IF i = 1 THEN <<>> = <<>> ELSE p[i - 1][2] = 2
             /\ p[i][2] = 2 => i # 1 /\ p[i - 1][1] = p[i][1] /\ p[i - 1][2] = 1
  <2>1. i + 1 \in 1..Len(o) /\ p[i] = o[i + 1] /\ i + 1 # 1 /\ (i + 1) - 1 = i
    BY <1>1
  <2>2. /\ o[i + 1][2] = 1 => o[i][2] = 2
        /\ o[i + 1][2] = 2 => o[i][1] = o[i + 1][1] /\ o[i][2] = 1
    BY <2>1 DEF Wire
  <2>3. CASE i = 1
    BY <1>1, <2>1, <2>2, <2>3
  <2>4. CASE i # 1
    <3>1. i - 1 \in 1..Len(p) /\ (i - 1) + 1 = i
      BY <1>1, <2>4
    <3>2. p[i - 1] = o[i]
      BY <1>1, <3>1
    <3> QED BY <2>1, <2>2, <2>4, <3>2
  <2> QED BY <2>3, <2>4
<1>4. Wire(<<>>, p)
  BY <1>3 DEF Wire
<1>5. p # <<>> => p[Len(p)] = o[Len(o)]
  BY <1>1
<1>6. Whole(h, o) => Whole(<<>>, p)
  BY <1>1, <1>5 DEF Whole
<1>7. \A line : Halfway(h, o, line) => Halfway(<<>>, p, line)
  BY <1>1, <1>5 DEF Halfway
<1> QED BY <1>1, <1>2, <1>4, <1>6, <1>7

-----------------------------------------------------------------------------
(* The other connections go on as they were: at most the shutdown flag is  *)
(* news to them.                                                           *)
Elsewhere(c) ==
    \A d \in Conn \ {c} :
        /\ \E b \in BOOLEAN : conn'[d] = [conn[d] EXCEPT !.fresh = b]
        /\ task'[d] = task[d] /\ out'[d] = out[d]
        /\ client'[d] = client[d] /\ torn'[d] = torn[d]

(* What a step of connection c keeps.                                      *)
Keeps(c) ==
    /\ ConnTypes'
    /\ Elsewhere(c)
    /\ ConnFine(c)'
    /\ run' = run
    /\ conn[c].phase \in {"off", "done"} =>
          conn'[c].phase \in {"off", "done"} \/ run = "accept"

(* News of the flag disturbs nothing.                                      *)
LEMMA NewsIsHarmless ==
    ASSUME NEW k \in ConnRecord, NEW b \in BOOLEAN, NEW t, NEW o, NEW cl, NEW tn
    PROVE  Fine([k EXCEPT !.fresh = b], t, o, cl, tn) <=> Fine(k, t, o, cl, tn)
<1> DEFINE n == [k EXCEPT !.fresh = b]
<1>1. /\ n.phase = k.phase /\ n.holder = k.holder /\ n.writable = k.writable
      /\ n.call = k.call /\ n.reply = k.reply
  BY DEF ConnRecord
<1> HIDE DEF n
<1>2. Turns(n, t) <=> Turns(k, t)
  BY <1>1 DEF Turns
<1>3. WireFine(n, t, o, cl.half) <=> WireFine(k, t, o, cl.half)
  BY <1>1 DEF WireFine
<1>4. CallsFine(n, o, cl, tn) <=> CallsFine(k, o, cl, tn)
  BY <1>1 DEF CallsFine, Answered
<1>5. Fine(n, t, o, cl, tn) <=> Fine(k, t, o, cl, tn)
  BY <1>1, <1>2, <1>3, <1>4 DEF Fine
<1> QED BY <1>5 DEF n

(* A step of one connection that keeps its own part keeps the invariant.   *)
LEMMA OneConnection ==
    ASSUME ConnInv, NEW c \in Conn, Keeps(c)
    PROVE  ConnInv'
<1>1. ConnTypes' /\ ConnFine(c)' /\ run' = run /\ Elsewhere(c) /\ ConnTypes
  BY DEF Keeps, ConnInv
<1>2. ASSUME NEW d \in Conn \ {c}
      PROVE  ConnFine(d)' /\ conn'[d].phase = conn[d].phase
  <2>1. PICK b \in BOOLEAN : conn'[d] = [conn[d] EXCEPT !.fresh = b]
    BY <1>1 DEF Elsewhere
  <2>2. conn[d] \in ConnRecord
    BY <1>1 DEF ConnTypes
  <2>3. Fine(conn[d], task[d], out[d], client[d], torn[d])
    BY DEF ConnInv, ConnFine
  <2>4. Fine([conn[d] EXCEPT !.fresh = b], task[d], out[d], client[d], torn[d])
    BY <2>2, <2>3, NewsIsHarmless
  <2>5. Fine(conn'[d], task'[d], out'[d], client'[d], torn'[d])
    BY <1>1, <2>1, <2>4 DEF Elsewhere
  <2>6. conn'[d].phase = conn[d].phase
    BY <2>1, <2>2 DEF ConnRecord
  <2> QED BY <2>5, <2>6 DEF ConnFine
<1>3. DownJoined'
  <2>1. CASE run = "down"
    BY <1>1, <1>2, <2>1 DEF DownJoined, ConnInv, Keeps
  <2>2. CASE run # "down"
    BY <1>1, <2>2 DEF DownJoined
  <2> QED BY <2>1, <2>2
<1> QED BY <1>1, <1>2, <1>3 DEF ConnInv

-----------------------------------------------------------------------------
(* Aborting tasks leaves them where they are: they end when they next wait.*)
LEMMA AbortedTasks ==
    ASSUME ConnTypes, NEW c \in Conn, NEW marked,
           task' = [task EXCEPT ![c] =
               [s \in Sub |-> [task[c][s] EXCEPT !.aborted = @ \/ s \in marked]]]
    PROVE  /\ task' \in [Conn -> [Sub -> TaskRecord]]
           /\ \A d \in Conn \ {c} : task'[d] = task[d]
           /\ \A s \in Sub : /\ task'[c][s].at = task[c][s].at
                            /\ task'[c][s].sent = task[c][s].sent
<1>1. task \in [Conn -> [Sub -> TaskRecord]]
  BY DEF ConnTypes
<1>2. \A s \in Sub : task[c][s] \in TaskRecord
  BY <1>1
<1>3. ASSUME NEW s \in Sub, NEW b \in BOOLEAN
      PROVE  /\ [task[c][s] EXCEPT !.aborted = b] \in TaskRecord
             /\ [task[c][s] EXCEPT !.aborted = b].at = task[c][s].at
             /\ [task[c][s] EXCEPT !.aborted = b].sent = task[c][s].sent
  BY <1>2 DEF TaskRecord
<1> DEFINE t == [s \in Sub |-> [task[c][s] EXCEPT !.aborted = @ \/ s \in marked]]
<1>4. ASSUME NEW s \in Sub
      PROVE  /\ t[s] \in TaskRecord
             /\ t[s].at = task[c][s].at /\ t[s].sent = task[c][s].sent
  <2>1. t[s] = [task[c][s] EXCEPT !.aborted = task[c][s].aborted \/ s \in marked]
    OBVIOUS
  <2>2. (task[c][s].aborted \/ s \in marked) \in BOOLEAN
    OBVIOUS
  <2> QED BY <1>3, <2>1, <2>2
<1>5. t \in [Sub -> TaskRecord]
  BY <1>4
<1>6. task' = [task EXCEPT ![c] = t]
  OBVIOUS
<1>7. task'[c] = t /\ \A d \in Conn \ {c} : task'[d] = task[d]
  BY <1>1, <1>6
<1> HIDE DEF t
<1>8. task' \in [Conn -> [Sub -> TaskRecord]]
  BY <1>1, <1>5, <1>6
<1> QED BY <1>4, <1>7, <1>8

(* A step of the connection's task that writes nothing: its record is k    *)
(* afterwards, and none of its tasks has moved.                            *)
LEMMA QuietStep ==
    ASSUME ConnInv, NEW c \in Conn, NEW k \in ConnRecord,
           conn' = [conn EXCEPT ![c] = k],
           conn[c].phase \notin {"off", "done", "write"}, k.phase \notin {"off", "write"},
           k.holder = conn[c].holder, k.writable = conn[c].writable,
           task' \in [Conn -> [Sub -> TaskRecord]],
           \A d \in Conn \ {c} : task'[d] = task[d],
           \A s \in Sub : task'[c][s].at = task[c][s].at /\ task'[c][s].sent = task[c][s].sent,
           inbox' \in [Conn -> Seq(Call)],
           CallsFine(k, out[c], client[c], torn[c]),
           UNCHANGED <<run, flag, out, client, torn>>
    PROVE  Keeps(c)
<1>1. /\ ConnTypes /\ conn \in [Conn -> ConnRecord] /\ conn[c] \in ConnRecord
      /\ Fine(conn[c], task[c], out[c], client[c], torn[c])
  BY DEF ConnInv, ConnTypes, ConnFine
<1>2. conn'[c] = k /\ conn' \in [Conn -> ConnRecord]
  BY <1>1
<1>3. ConnTypes'
  BY <1>1, <1>2 DEF ConnTypes
<1>4. Elsewhere(c)
  <2> SUFFICES ASSUME NEW d \in Conn \ {c}
               PROVE  \E b \in BOOLEAN : conn'[d] = [conn[d] EXCEPT !.fresh = b]
    BY DEF Elsewhere
  <2>1. conn'[d] = conn[d] /\ conn[d] \in ConnRecord
    BY <1>1
  <2>2. conn[d] = [conn[d] EXCEPT !.fresh = conn[d].fresh] /\ conn[d].fresh \in BOOLEAN
    BY <2>1 DEF ConnRecord
  <2> QED BY <2>1, <2>2
<1>5. Turns(k, task'[c])
  BY <1>1, HolderFacts DEF Fine, Turns
<1>6. conn[c].holder # Server
  BY <1>1 DEF Fine, Turns
<1>7. WireFine(conn[c], task[c], out[c], client[c].half)
         => WireFine(k, task'[c], out[c], client[c].half)
  BY <1>6 DEF WireFine
<1>8. Fine(k, task'[c], out[c], client[c], torn[c])
  BY <1>1, <1>5, <1>7 DEF Fine
<1>9. ConnFine(c)'
  BY <1>2, <1>8 DEF ConnFine
<1> QED BY <1>3, <1>4, <1>9 DEF Keeps

(* The first poll of serve.                                                *)
LEMMA ServeKeeps ==
    ASSUME ConnInv, NEW c \in Conn, Serve(c)
    PROVE  Keeps(c)
<1>1. /\ ConnTypes /\ conn[c] \in ConnRecord
      /\ Fine(conn[c], task[c], out[c], client[c], torn[c])
  BY DEF ConnInv, ConnTypes, ConnFine
<1> DEFINE k == [conn[c] EXCEPT !.phase = "top", !.fresh = FALSE]
<1>2. /\ conn' = [conn EXCEPT ![c] = k] /\ k \in ConnRecord
      /\ conn[c].phase = "spawned" /\ k.phase = "top"
      /\ k.holder = conn[c].holder /\ k.writable = conn[c].writable /\ k.call = conn[c].call
  BY <1>1 DEF Serve, ConnTypes, ConnRecord, Phase
<1>3. CallsFine(k, out[c], client[c], torn[c])
  <2>1. conn[c].call = NoCall
    BY <1>1, <1>2 DEF Fine, CallsFine
  <2> HIDE DEF k
  <2> QED BY <1>2, <2>1 DEF CallsFine, Answered
<1> HIDE DEF k
<1> QED BY <1>1, <1>2, <1>3, QuietStep DEF Serve, ConnTypes

(* Leaving the loop: the last call has been answered.                      *)
LEMMA LeaveKeeps ==
    ASSUME ConnInv, NEW c \in Conn, conn[c].phase \in {"top", "select"}, Leave(c),
           UNCHANGED <<run, flag, inbox, out, client, torn>>
    PROVE  Keeps(c)
<1>1. /\ ConnTypes /\ conn[c] \in ConnRecord
      /\ Fine(conn[c], task[c], out[c], client[c], torn[c])
  BY DEF ConnInv, ConnTypes, ConnFine
<1> DEFINE k == [conn[c] EXCEPT !.phase = "done"]
<1>2. /\ conn' = [conn EXCEPT ![c] = k] /\ k \in ConnRecord /\ k.phase = "done"
      /\ k.holder = conn[c].holder /\ k.writable = conn[c].writable /\ k.call = conn[c].call
  BY <1>1 DEF Leave, ConnTypes, ConnRecord, Phase
<1> HIDE DEF k
<1>3. CallsFine(k, out[c], client[c], torn[c])
  BY <1>1, <1>2 DEF Fine, CallsFine, Answered
<1>4. /\ task' \in [Conn -> [Sub -> TaskRecord]]
      /\ \A d \in Conn \ {c} : task'[d] = task[d]
      /\ \A s \in Sub : task'[c][s].at = task[c][s].at /\ task'[c][s].sent = task[c][s].sent
  <2>1. task' = [task EXCEPT ![c] =
               [s \in Sub |-> [task[c][s] EXCEPT !.aborted = @ \/ s \in conn[c].known]]]
    BY DEF Leave, AbortAll
  <2> QED BY <1>1, <2>1, AbortedTasks
<1> QED BY <1>1, <1>2, <1>3, <1>4, QuietStep DEF ConnTypes

(* The head of the loop.                                                   *)
LEMMA TopKeeps ==
    ASSUME ConnInv, NEW c \in Conn, Top(c)
    PROVE  Keeps(c)
<1>1. /\ ConnTypes /\ conn[c] \in ConnRecord
      /\ Fine(conn[c], task[c], out[c], client[c], torn[c])
  BY DEF ConnInv, ConnTypes, ConnFine
<1>2. CASE Leave(c)
  BY <1>2, LeaveKeeps DEF Top
<1>3. CASE ~flag /\ conn' = [conn EXCEPT ![c].phase = "select"] /\ UNCHANGED task
  <2> DEFINE k == [conn[c] EXCEPT !.phase = "select"]
  <2>1. /\ conn' = [conn EXCEPT ![c] = k] /\ k \in ConnRecord
        /\ conn[c].phase = "top" /\ k.phase = "select"
        /\ k.holder = conn[c].holder /\ k.writable = conn[c].writable /\ k.call = conn[c].call
    BY <1>1, <1>3 DEF Top, ConnTypes, ConnRecord, Phase
  <2> HIDE DEF k
  <2>2. CallsFine(k, out[c], client[c], torn[c])
    BY <1>1, <2>1 DEF Fine, CallsFine, Answered
  <2> QED BY <1>1, <1>3, <2>1, <2>2, QuietStep DEF Top, ConnTypes
<1> QED BY <1>2, <1>3 DEF Top

(* A frame, the end of the stream, a read error, or news of the flag.      *)
LEMMA SelectKeeps ==
    ASSUME ConnInv, NEW c \in Conn, Select(c)
    PROVE  Keeps(c)
<1>1. /\ ConnTypes /\ conn[c] \in ConnRecord
      /\ Fine(conn[c], task[c], out[c], client[c], torn[c])
      /\ conn[c].phase = "select" /\ UNCHANGED <<run, flag, out, client, torn>>
  BY DEF ConnInv, ConnTypes, ConnFine, Select
<1>2. CASE Leave(c) /\ UNCHANGED inbox
  BY <1>1, <1>2, LeaveKeeps
<1>3. CASE /\ inbox[c] # <<>>
           /\ conn' = [conn EXCEPT ![c].phase = "handle", ![c].call = Head(inbox[c])]
           /\ inbox' = [inbox EXCEPT ![c] = Tail(@)]
           /\ UNCHANGED task
  <2> DEFINE k == [conn[c] EXCEPT !.phase = "handle", !.call = Head(inbox[c])]
  <2>1. Head(inbox[c]) \in Call /\ inbox' \in [Conn -> Seq(Call)]
    <3>1. inbox[c] \in Seq(Call) /\ inbox \in [Conn -> Seq(Call)]
      BY <1>1 DEF ConnTypes
    <3>2. Head(inbox[c]) \in Call /\ Tail(inbox[c]) \in Seq(Call)
      BY <1>3, <3>1, HeadTailProperties
    <3> QED BY <1>3, <3>1, <3>2
  <2>2. /\ conn' = [conn EXCEPT ![c] = k] /\ k \in ConnRecord /\ k.phase = "handle"
        /\ k.holder = conn[c].holder /\ k.writable = conn[c].writable
    BY <1>1, <1>3, <2>1 DEF ConnTypes, ConnRecord, Phase
  <2> HIDE DEF k
  <2>3. CallsFine(k, out[c], client[c], torn[c])
    BY <2>2 DEF CallsFine
  <2> QED BY <1>1, <1>3, <2>1, <2>2, <2>3, QuietStep DEF ConnTypes
<1>4. CASE /\ client[c].at = "gone"
           /\ conn' = [conn EXCEPT ![c].phase = "done"]
           /\ UNCHANGED <<task, inbox>>
  <2> DEFINE k == [conn[c] EXCEPT !.phase = "done"]
  <2>1. /\ conn' = [conn EXCEPT ![c] = k] /\ k \in ConnRecord /\ k.phase = "done"
        /\ k.holder = conn[c].holder /\ k.writable = conn[c].writable
    BY <1>1, <1>4 DEF ConnTypes, ConnRecord, Phase
  <2> HIDE DEF k
  <2>2. CallsFine(k, out[c], client[c], torn[c])
    BY <1>4, <2>1 DEF CallsFine, Answered
  <2> QED BY <1>1, <1>4, <2>1, <2>2, QuietStep DEF ConnTypes
<1> QED BY <1>2, <1>3, <1>4 DEF Select

(* The answer that is written next is that of the call taken up.           *)
LEMMA ReplyIsKept ==
    ASSUME ConnInv, NEW c \in Conn, conn[c].phase = "handle",
           NEW k \in ConnRecord, conn' = [conn EXCEPT ![c] = k],
           k.phase = "reply", k.holder = conn[c].holder, k.writable = conn[c].writable,
           k.call = conn[c].call, k.reply.kind = "answer", k.reply.id = AnswerTo(k.call).id,
           task' \in [Conn -> [Sub -> TaskRecord]],
           \A d \in Conn \ {c} : task'[d] = task[d],
           \A s \in Sub : task'[c][s].at = task[c][s].at /\ task'[c][s].sent = task[c][s].sent,
           UNCHANGED <<run, flag, inbox, out, client, torn>>
    PROVE  Keeps(c)
<1>1. CallsFine(k, out[c], client[c], torn[c])
  BY DEF CallsFine
<1>2. inbox' \in [Conn -> Seq(Call)]
  BY DEF ConnInv, ConnTypes
<1> QED BY <1>1, <1>2, QuietStep

(* An answer is a line, and so is one that names a subscription.           *)
LEMMA AnswerIsLine ==
    ASSUME NEW call \in Call, NEW s \in Sub
    PROVE  /\ AnswerTo(call) \in Line /\ AnswerTo(call).kind = "answer"
           /\ [AnswerTo(call) EXCEPT !.sub = s] \in Line
           /\ [AnswerTo(call) EXCEPT !.sub = s].kind = "answer"
           /\ [AnswerTo(call) EXCEPT !.sub = s].id = AnswerTo(call).id
BY DEF AnswerTo, Line, Call, None

(* Every way of handling a request ends in an answer to it.                *)
LEMMA HandleKeeps ==
    ASSUME ConnInv, NEW c \in Conn, Handle(c)
    PROVE  Keeps(c)
<1>1. /\ ConnTypes /\ conn \in [Conn -> ConnRecord] /\ conn[c] \in ConnRecord
      /\ conn[c].call \in Call
      /\ conn[c].phase = "handle" /\ UNCHANGED <<run, flag, inbox, out, client, torn>>
  BY DEF ConnInv, ConnTypes, ConnRecord, Handle
<1> DEFINE ans == AnswerTo(conn[c].call)
<1>2. ans \in Line /\ ans.kind = "answer"
  BY <1>1 DEF AnswerTo, Line, Call, None
<1> HIDE DEF ans
<1>3. UNCHANGED task =>
          /\ task' \in [Conn -> [Sub -> TaskRecord]]
          /\ \A d \in Conn \ {c} : task'[d] = task[d]
          /\ \A s \in Sub : task'[c][s].at = task[c][s].at /\ task'[c][s].sent = task[c][s].sent
  BY <1>1 DEF ConnTypes
<1>4. CASE Answer(c)
  <2> DEFINE k == [conn[c] EXCEPT !.phase = "reply", !.reply = ans]
  <2>1. /\ conn' = [conn EXCEPT ![c] = k] /\ k \in ConnRecord
        /\ k.phase = "reply" /\ k.reply = ans /\ k.call = conn[c].call
        /\ k.holder = conn[c].holder /\ k.writable = conn[c].writable
    BY <1>1, <1>2, <1>4 DEF Answer, ConnRecord, Phase, ans
  <2> HIDE DEF k
  <2>2. k.reply.kind = "answer" /\ k.reply.id = AnswerTo(k.call).id
    BY <1>2, <2>1 DEF ans
  <2>3. UNCHANGED task
    BY <1>4 DEF Answer
  <2> QED BY <1>1, <1>3, <2>1, <2>2, <2>3, ReplyIsKept
<1>5. CASE Handshake(c)
  <2> DEFINE k == [conn[c] EXCEPT !.phase = "reply", !.reply = ans, !.handshaken = TRUE]
  <2>1. /\ conn' = [conn EXCEPT ![c] = k] /\ k \in ConnRecord
        /\ k.phase = "reply" /\ k.reply = ans /\ k.call = conn[c].call
        /\ k.holder = conn[c].holder /\ k.writable = conn[c].writable
    BY <1>1, <1>2, <1>5 DEF Handshake, ConnRecord, Phase, ans
  <2> HIDE DEF k
  <2>2. k.reply.kind = "answer" /\ k.reply.id = AnswerTo(k.call).id
    BY <1>2, <2>1 DEF ans
  <2>3. UNCHANGED task
    BY <1>5 DEF Handshake
  <2> QED BY <1>1, <1>3, <2>1, <2>2, <2>3, ReplyIsKept
<1>6. CASE Subscribe(c)
  <2> DEFINE named == [ans EXCEPT !.sub = conn[c].next]
             k == [conn[c] EXCEPT !.phase = "reply", !.next = @ + 1, !.reply = named]
  <2>1. named \in Line /\ named.kind = "answer" /\ named.id = ans.id
    BY <1>1, <1>6, AnswerIsLine DEF Subscribe, ans
  <2> HIDE DEF named
  <2>2. /\ conn' = [conn EXCEPT ![c] = k] /\ k \in ConnRecord
        /\ k.phase = "reply" /\ k.reply = named /\ k.call = conn[c].call
        /\ k.holder = conn[c].holder /\ k.writable = conn[c].writable
    BY <1>1, <1>6, <2>1 DEF Subscribe, ConnRecord, Phase, ans, named
  <2> HIDE DEF k
  <2>3. k.reply.kind = "answer" /\ k.reply.id = AnswerTo(k.call).id
    BY <2>1, <2>2 DEF ans
  <2>4. UNCHANGED task
    BY <1>6 DEF Subscribe
  <2> QED BY <1>1, <1>3, <2>2, <2>3, <2>4, ReplyIsKept
<1>7. CASE Unsubscribe(c)
  <2> DEFINE k == [conn[c] EXCEPT !.phase = "reply", !.reply = ans,
                                  !.known = @ \ {conn[c].call.sub}]
             marked == {s \in conn[c].known : s = conn[c].call.sub}
  <2>1. /\ conn' = [conn EXCEPT ![c] = k] /\ k \in ConnRecord
        /\ k.phase = "reply" /\ k.reply = ans /\ k.call = conn[c].call
        /\ k.holder = conn[c].holder /\ k.writable = conn[c].writable
    BY <1>1, <1>2, <1>7 DEF Unsubscribe, ConnRecord, Phase, ans
  <2> HIDE DEF k
  <2>2. /\ task' \in [Conn -> [Sub -> TaskRecord]]
        /\ \A d \in Conn \ {c} : task'[d] = task[d]
        /\ \A s \in Sub : task'[c][s].at = task[c][s].at /\ task'[c][s].sent = task[c][s].sent
    <3>1. \A s : (s = conn[c].call.sub /\ s \in conn[c].known) <=> s \in marked
      OBVIOUS
    <3> HIDE DEF marked
    <3>2. task' = [task EXCEPT ![c] =
             [s \in Sub |-> [task[c][s] EXCEPT !.aborted = @ \/ s \in marked]]]
      BY <1>7, <3>1 DEF Unsubscribe
    <3> QED BY <1>1, <3>2, AbortedTasks
  <2>3. k.reply.kind = "answer" /\ k.reply.id = AnswerTo(k.call).id
    BY <1>2, <2>1 DEF ans
  <2> QED BY <1>1, <2>1, <2>2, <2>3, ReplyIsKept
<1>8. CASE Shutdown(c)
  <2> DEFINE k == [conn[c] EXCEPT !.phase = "reply", !.reply = ans, !.stop = TRUE]
  <2>1. /\ conn' = [conn EXCEPT ![c] = k] /\ k \in ConnRecord
        /\ k.phase = "reply" /\ k.reply = ans /\ k.call = conn[c].call
        /\ k.holder = conn[c].holder /\ k.writable = conn[c].writable
    BY <1>1, <1>2, <1>8 DEF Shutdown, ConnRecord, Phase, ans
  <2> HIDE DEF k
  <2>2. k.reply.kind = "answer" /\ k.reply.id = AnswerTo(k.call).id
    BY <1>2, <2>1 DEF ans
  <2>3. UNCHANGED task
    BY <1>8 DEF Shutdown
  <2> QED BY <1>1, <1>3, <2>1, <2>2, <2>3, ReplyIsKept
<1> QED BY <1>4, <1>5, <1>6, <1>7, <1>8 DEF Handle

-----------------------------------------------------------------------------
(* The parts of the state that belong to one connection.                   *)
LEMMA OwnParts ==
    ASSUME ConnInv, NEW c \in Conn
    PROVE  /\ conn[c] \in ConnRecord /\ conn = [conn EXCEPT ![c] = conn[c]]
           /\ task[c] \in [Sub -> TaskRecord] /\ task = [task EXCEPT ![c] = task[c]]
           /\ inbox[c] \in Seq(Call) /\ inbox = [inbox EXCEPT ![c] = inbox[c]]
           /\ out[c] \in Seq(HalfLine) /\ out = [out EXCEPT ![c] = out[c]]
           /\ Len(out[c]) <= Capacity
           /\ client[c] \in ClientRecord /\ client = [client EXCEPT ![c] = client[c]]
           /\ torn[c] \in BOOLEAN /\ torn = [torn EXCEPT ![c] = torn[c]]
           /\ Fine(conn[c], task[c], out[c], client[c], torn[c])
BY DEF ConnInv, ConnTypes, ConnFine

(* The step gives the parts of c these values.                             *)
Gives(c, k, t, box, o, cl, tn) ==
    /\ conn' = [conn EXCEPT ![c] = k]
    /\ task' = [task EXCEPT ![c] = t]
    /\ inbox' = [inbox EXCEPT ![c] = box]
    /\ out' = [out EXCEPT ![c] = o]
    /\ client' = [client EXCEPT ![c] = cl]
    /\ torn' = [torn EXCEPT ![c] = tn]
    /\ UNCHANGED <<run, flag>>

(* A step that gives the parts of c new values keeps the rest, when the    *)
(* new values are fine together.                                           *)
LEMMA NewParts ==
    ASSUME ConnInv, NEW c \in Conn,
           NEW k \in ConnRecord, NEW t \in [Sub -> TaskRecord], NEW box \in Seq(Call),
           NEW o \in Seq(HalfLine), Len(o) <= Capacity, NEW cl \in ClientRecord,
           NEW tn \in BOOLEAN,
           Gives(c, k, t, box, o, cl, tn), Fine(k, t, o, cl, tn),
           conn[c].phase \in {"off", "done"} => k.phase \in {"off", "done"} \/ run = "accept"
    PROVE  Keeps(c)
<1>1. ConnTypes
  BY DEF ConnInv
<1> USE DEF Gives
<1>2. /\ conn'[c] = k /\ task'[c] = t /\ out'[c] = o /\ client'[c] = cl /\ torn'[c] = tn
      /\ \A d \in Conn \ {c} :
            /\ conn'[d] = conn[d] /\ task'[d] = task[d] /\ out'[d] = out[d]
            /\ client'[d] = client[d] /\ torn'[d] = torn[d]
  BY <1>1 DEF ConnTypes
<1>3. ConnTypes'
  <2>1. /\ conn' \in [Conn -> ConnRecord] /\ task' \in [Conn -> [Sub -> TaskRecord]]
        /\ inbox' \in [Conn -> Seq(Call)] /\ out' \in [Conn -> Seq(HalfLine)]
        /\ client' \in [Conn -> ClientRecord] /\ torn' \in [Conn -> BOOLEAN]
    BY <1>1 DEF ConnTypes
  <2>2. \A d \in Conn : Len(out'[d]) <= Capacity
    BY <1>1, <1>2 DEF ConnTypes
  <2> QED BY <1>1, <2>1, <2>2 DEF ConnTypes
<1>4. Elsewhere(c)
  <2> SUFFICES ASSUME NEW d \in Conn \ {c}
               PROVE  \E b \in BOOLEAN : conn'[d] = [conn[d] EXCEPT !.fresh = b]
    BY <1>2 DEF Elsewhere
  <2>1. conn'[d] = conn[d] /\ conn[d] \in ConnRecord
    BY <1>1, <1>2 DEF ConnTypes
  <2>2. conn[d] = [conn[d] EXCEPT !.fresh = conn[d].fresh] /\ conn[d].fresh \in BOOLEAN
    BY <2>1 DEF ConnRecord
  <2> QED BY <2>1, <2>2
<1>5. ConnFine(c)'
  BY <1>2 DEF ConnFine
<1> QED BY <1>2, <1>3, <1>4, <1>5 DEF Keeps

(* What a half line adds to the socket.                                    *)
LEMMA HalfLineFits ==
    ASSUME NEW q \in Seq(HalfLine), Len(q) < Capacity, NEW x \in HalfLine,
           NEW o, o = Append(q, x)
    PROVE  /\ o \in Seq(HalfLine) /\ Len(o) <= Capacity
           /\ Len(o) \in DOMAIN o /\ o[Len(o)] = x
           /\ \A i \in DOMAIN q : i \in DOMAIN o /\ o[i] = q[i]
<1>1. Len(q) \in Nat
  OBVIOUS
<1>2. /\ o \in Seq(HalfLine) /\ Len(o) = Len(q) + 1
      /\ \A i \in 1..Len(q) : o[i] = q[i]
      /\ o[Len(q) + 1] = x
  BY AppendProperties
<1>3. Len(o) <= Capacity
  BY <1>1, <1>2, SocketHoldsSomething
<1>4. DOMAIN o = 1..Len(o) /\ DOMAIN q = 1..Len(q)
  BY <1>2
<1>5. \A i \in 1..Len(q) : i \in 1..Len(o)
  BY <1>1, <1>2
<1> QED BY <1>1, <1>2, <1>3, <1>4, <1>5

(* Half of the answer is written under the mutex.                          *)
LEMMA ReplyHeadKeeps ==
    ASSUME ConnInv, NEW c \in Conn, ReplyHead(c)
    PROVE  Keeps(c)
<1> DEFINE x == <<conn[c].reply, 1>>
<1>1. /\ conn[c] \in ConnRecord /\ conn[c].reply \in Line
      /\ Fine(conn[c], task[c], out[c], client[c], torn[c])
      /\ conn[c].phase = "reply" /\ conn[c].holder = Free /\ conn[c].writable
      /\ client[c].at # "gone" /\ HasRoom(c)
      /\ out' = [out EXCEPT ![c] = Append(@, x)]
      /\ UNCHANGED <<run, flag, task, inbox, client, torn>>
  BY OwnParts DEF ReplyHead, WriteHead, Broken, ConnRecord
<1>2. x \in HalfLine
  BY <1>1 DEF HalfLine
<1>3. PICK o : o = Append(out[c], x)
  OBVIOUS
<1> DEFINE k == [conn[c] EXCEPT !.phase = "write", !.holder = Server]
<1>4. /\ o \in Seq(HalfLine) /\ Len(o) <= Capacity /\ out' = [out EXCEPT ![c] = o]
  <2>1. out[c] \in Seq(HalfLine) /\ Len(out[c]) < Capacity
    BY <1>1, OwnParts DEF HasRoom
  <2>2. o \in Seq(HalfLine) /\ Len(o) <= Capacity
    BY <1>2, <1>3, <2>1, HalfLineFits
  <2> QED BY <1>1, <1>3, <2>2
<1>5. /\ conn' = [conn EXCEPT ![c] = k] /\ k \in ConnRecord
      /\ k.phase = "write" /\ k.holder = Server /\ k.writable
      /\ k.reply = conn[c].reply /\ k.call = conn[c].call
  BY <1>1 DEF ReplyHead, ConnRecord, Phase
<1> HIDE DEF k
<1>6. Turns(k, task[c])
  BY <1>1, <1>5, HolderFacts DEF Fine, Turns
<1>7. WireFine(conn[c], task[c], out[c], client[c].half)
         => WireFine(k, task[c], o, client[c].half)
  <2> SUFFICES ASSUME WireFine(conn[c], task[c], out[c], client[c].half)
               PROVE  WireFine(k, task[c], o, client[c].half)
    OBVIOUS
  <2>1. client[c].half \in Seq(HalfLine) /\ out[c] \in Seq(HalfLine)
    BY OwnParts DEF ClientRecord
  <2>2. Wire(client[c].half, out[c]) /\ Whole(client[c].half, out[c])
    BY <1>1 DEF WireFine
  <2>3. Wire(client[c].half, o) /\ Halfway(client[c].half, o, k.reply)
    BY <1>1, <1>3, <1>5, <2>1, <2>2, WriteFirstHalf
  <2> QED BY <1>5, <2>3, HolderFacts DEF WireFine
<1>8. CallsFine(k, o, client[c], torn[c])
  BY <1>1, <1>5 DEF Fine, CallsFine
<1>9. Fine(k, task[c], o, client[c], torn[c])
  BY <1>1, <1>5, <1>6, <1>7, <1>8 DEF Fine
<1>10. /\ task[c] \in [Sub -> TaskRecord] /\ task' = [task EXCEPT ![c] = task[c]]
       /\ inbox[c] \in Seq(Call) /\ inbox' = [inbox EXCEPT ![c] = inbox[c]]
       /\ client[c] \in ClientRecord /\ client' = [client EXCEPT ![c] = client[c]]
       /\ torn[c] \in BOOLEAN /\ torn' = [torn EXCEPT ![c] = torn[c]]
       /\ UNCHANGED <<run, flag>> /\ conn[c].phase \notin {"off", "done"}
  BY <1>1, OwnParts
<1>11. Gives(c, k, task[c], inbox[c], o, client[c], torn[c])
  BY <1>4, <1>5, <1>10 DEF Gives
<1> QED BY <1>4, <1>5, <1>9, <1>10, <1>11, NewParts

(* A write that fails ends the connection: its client is gone, or the      *)
(* write side was closed and the mutex free.                               *)
LEMMA ReplyFailsKeeps ==
    ASSUME ConnInv, NEW c \in Conn, ReplyFails(c)
    PROVE  Keeps(c)
<1>1. /\ conn[c] \in ConnRecord
      /\ Fine(conn[c], task[c], out[c], client[c], torn[c])
      /\ conn[c].phase \in {"reply", "write"} /\ conn[c].holder \in {Free, Server}
      /\ client[c].at = "gone" \/ ~conn[c].writable
      /\ UNCHANGED <<run, flag, task, inbox, out, client, torn>>
  BY OwnParts DEF ReplyFails, WriteFails, Broken
<1> DEFINE k == [conn[c] EXCEPT !.phase = "done", !.holder = Released(c, Server)]
<1>2. /\ conn' = [conn EXCEPT ![c] = k] /\ k \in ConnRecord
      /\ k.phase = "done" /\ k.holder = Free /\ k.writable = conn[c].writable
  BY <1>1 DEF ReplyFails, Released, ConnRecord, Phase
<1> HIDE DEF k
<1>3. Turns(k, task[c])
  BY <1>1, <1>2, HolderFacts DEF Fine, Turns
<1>4. CallsFine(k, out[c], client[c], torn[c])
  BY <1>1, <1>2 DEF CallsFine, Answered
<1>5. client[c].at # "gone" => conn[c].holder = Free
  BY <1>1 DEF Fine, Turns
<1>6. conn[c].holder = Free =>
         (WireFine(conn[c], task[c], out[c], client[c].half)
             => WireFine(k, task[c], out[c], client[c].half))
  BY <1>2, HolderFacts DEF WireFine
<1>7. Fine(k, task[c], out[c], client[c], torn[c])
  BY <1>1, <1>2, <1>3, <1>4, <1>5, <1>6 DEF Fine
<1>8. /\ task[c] \in [Sub -> TaskRecord] /\ task' = [task EXCEPT ![c] = task[c]]
      /\ inbox[c] \in Seq(Call) /\ inbox' = [inbox EXCEPT ![c] = inbox[c]]
      /\ out[c] \in Seq(HalfLine) /\ Len(out[c]) <= Capacity
      /\ out' = [out EXCEPT ![c] = out[c]]
      /\ client[c] \in ClientRecord /\ client' = [client EXCEPT ![c] = client[c]]
      /\ torn[c] \in BOOLEAN /\ torn' = [torn EXCEPT ![c] = torn[c]]
      /\ UNCHANGED <<run, flag>> /\ conn[c].phase \notin {"off", "done"}
  BY <1>1, OwnParts
<1>9. Gives(c, k, task[c], inbox[c], out[c], client[c], torn[c])
  BY <1>2, <1>8 DEF Gives
<1> QED BY <1>2, <1>7, <1>8, <1>9, NewParts

(* The second half completes the answer, and with it the call.             *)
LEMMA AnswerIsOut ==
    ASSUME ConnInv, NEW c \in Conn, conn[c].phase = "write",
           WriteTail(c, Server, conn[c].reply),
           NEW k \in ConnRecord, k.phase \in {"top", "done"}, k.holder = Free,
           k.writable = conn[c].writable, k.call = conn[c].call,
           NEW t \in [Sub -> TaskRecord],
           \A s \in Sub : t[s].at \in {"lock", "write"} =>
               t[s].at = task[c][s].at /\ t[s].sent = task[c][s].sent,
           NEW o, o = Append(out[c], <<conn[c].reply, 2>>),
           Len(o) \in DOMAIN o, o[Len(o)] = <<conn[c].reply, 2>>
    PROVE  Fine(k, t, o, client[c], torn[c])
<1>1. /\ conn[c] \in ConnRecord /\ conn[c].reply \in Line
      /\ Fine(conn[c], task[c], out[c], client[c], torn[c])
      /\ conn[c].holder = Server /\ conn[c].writable /\ client[c].at # "gone"
  <2>1. conn[c] \in ConnRecord /\ Fine(conn[c], task[c], out[c], client[c], torn[c])
    BY OwnParts
  <2>2. conn[c].reply \in Line
    BY <2>1 DEF ConnRecord
  <2>3. conn[c].holder = Server /\ ~Broken(c)
    BY DEF WriteTail
  <2>4. conn[c].writable /\ client[c].at # "gone"
    BY <2>3 DEF Broken
  <2> QED BY <2>1, <2>2, <2>3, <2>4
<1>2. Turns(k, t)
  BY <1>1, HolderFacts, ZenonT(60) DEF Fine, Turns
<1>3. WireFine(conn[c], task[c], out[c], client[c].half) => WireFine(k, t, o, client[c].half)
  <2> SUFFICES ASSUME WireFine(conn[c], task[c], out[c], client[c].half)
               PROVE  WireFine(k, t, o, client[c].half)
    OBVIOUS
  <2>1. client[c].half \in Seq(HalfLine) /\ out[c] \in Seq(HalfLine)
    BY OwnParts DEF ClientRecord
  <2>2. Wire(client[c].half, out[c]) /\ Halfway(client[c].half, out[c], conn[c].reply)
    BY <1>1 DEF WireFine
  <2>3. Wire(client[c].half, o) /\ Whole(client[c].half, o)
    BY <1>1, <2>1, <2>2, WriteSecondHalf, ZenonT(60)
  <2> QED BY <2>3, HolderFacts DEF WireFine
<1>4. CallsFine(k, o, client[c], torn[c])
  <2>1. conn[c].reply.kind = "answer" /\ conn[c].reply.id = AnswerTo(k.call).id
    BY <1>1 DEF Fine, CallsFine
  <2>2. Answered(k, o, client[c], torn[c])
    BY <2>1, SMTT(30) DEF Answered
  <2> QED BY <2>2 DEF CallsFine
<1>5. k.phase # "off"
  OBVIOUS
<1> QED BY <1>1, <1>2, <1>3, <1>4, <1>5 DEF Fine

(* The answer is out; what follows depends on the call.                    *)
LEMMA ReplyTailKeeps ==
    ASSUME ConnInv, NEW c \in Conn, ReplyTail(c)
    PROVE  Keeps(c)
<1>1. /\ conn[c] \in ConnRecord /\ conn[c].reply \in Line /\ task[c] \in [Sub -> TaskRecord]
      /\ conn[c].phase = "write" /\ WriteTail(c, Server, conn[c].reply)
      /\ UNCHANGED <<run, inbox, client, torn>>
  BY OwnParts DEF ReplyTail, ConnRecord
<1>2. PICK o :
         /\ o = Append(out[c], <<conn[c].reply, 2>>)
         /\ o \in Seq(HalfLine) /\ Len(o) <= Capacity /\ out' = [out EXCEPT ![c] = o]
         /\ Len(o) \in DOMAIN o /\ o[Len(o)] = <<conn[c].reply, 2>>
  <2>1. PICK x \in HalfLine : x = <<conn[c].reply, 2>>
    BY <1>1 DEF HalfLine
  <2>2. PICK o : o = Append(out[c], x)
    OBVIOUS
  <2>3. out[c] \in Seq(HalfLine) /\ Len(out[c]) < Capacity /\ out' = [out EXCEPT ![c] = o]
    BY <1>1, <2>1, <2>2, OwnParts DEF WriteTail, HasRoom
  <2>4. /\ o \in Seq(HalfLine) /\ Len(o) <= Capacity
        /\ Len(o) \in DOMAIN o /\ o[Len(o)] = x
    BY <2>2, <2>3, HalfLineFits
  <2> QED BY <2>1, <2>2, <2>3, <2>4
<1>3. /\ inbox[c] \in Seq(Call) /\ inbox' = [inbox EXCEPT ![c] = inbox[c]]
      /\ client[c] \in ClientRecord /\ client' = [client EXCEPT ![c] = client[c]]
      /\ torn[c] \in BOOLEAN /\ torn' = [torn EXCEPT ![c] = torn[c]]
      /\ conn[c].phase \notin {"off", "done"}
  BY <1>1, OwnParts
<1>4. CASE /\ conn[c].reply.sub # None
           /\ conn' = [conn EXCEPT ![c].phase = "top", ![c].holder = Free,
                                   ![c].known = @ \cup {conn[c].reply.sub}]
           /\ task' = Spawned(c, conn[c].reply.sub)
           /\ UNCHANGED flag
  <2> DEFINE k == [conn[c] EXCEPT !.phase = "top", !.holder = Free,
                                  !.known = @ \cup {conn[c].reply.sub}]
             t == [task[c] EXCEPT ![conn[c].reply.sub].at = "next"]
  <2>1. conn[c].reply.sub \in Sub
    BY <1>1, <1>4 DEF Line
  <2>2. /\ conn' = [conn EXCEPT ![c] = k] /\ k \in ConnRecord /\ k.phase = "top"
        /\ k.holder = Free /\ k.writable = conn[c].writable /\ k.call = conn[c].call
    BY <1>1, <1>4, <2>1 DEF ConnRecord, Phase
  <2>3. /\ task' = [task EXCEPT ![c] = t] /\ t \in [Sub -> TaskRecord]
        /\ \A s \in Sub : t[s].at \in {"lock", "write"} =>
              t[s].at = task[c][s].at /\ t[s].sent = task[c][s].sent
    BY <1>1, <1>4, <2>1, ZenonT(60) DEF Spawned, TaskRecord, TaskAt
  <2> HIDE DEF k, t
  <2>4. Fine(k, t, o, client[c], torn[c])
    BY <1>1, <1>2, <2>2, <2>3, AnswerIsOut
  <2>5. Gives(c, k, t, inbox[c], o, client[c], torn[c])
    BY <1>1, <1>2, <1>3, <1>4, <2>2, <2>3 DEF Gives
  <2> QED BY <1>2, <1>3, <2>2, <2>3, <2>4, <2>5, NewParts
<1>5. CASE /\ conn[c].reply.sub = None /\ ~conn[c].stop
           /\ conn' = [conn EXCEPT ![c].phase = "top", ![c].holder = Free]
           /\ UNCHANGED <<task, flag>>
  <2> DEFINE k == [conn[c] EXCEPT !.phase = "top", !.holder = Free]
  <2>1. /\ conn' = [conn EXCEPT ![c] = k] /\ k \in ConnRecord /\ k.phase = "top"
        /\ k.holder = Free /\ k.writable = conn[c].writable /\ k.call = conn[c].call
    BY <1>1, <1>5 DEF ConnRecord, Phase
  <2> HIDE DEF k
  <2>2. PICK t \in [Sub -> TaskRecord] : t = task[c]
    BY <1>1
  <2>3. Fine(k, t, o, client[c], torn[c])
    BY <1>1, <1>2, <2>1, <2>2, AnswerIsOut
  <2>4. task' = [task EXCEPT ![c] = t] /\ UNCHANGED <<run, flag>>
    BY <1>1, <1>5, <2>2, OwnParts
  <2>5. Gives(c, k, t, inbox[c], o, client[c], torn[c])
    BY <1>2, <1>3, <2>1, <2>4 DEF Gives
  <2> QED BY <1>2, <1>3, <2>1, <2>3, <2>5, NewParts
<1>6. CASE /\ conn[c].stop
           /\ flag' = TRUE
           /\ conn' = Raised([conn EXCEPT ![c].phase = "done", ![c].holder = Free])
           /\ AbortAll(c)
  <2> DEFINE k == [conn[c] EXCEPT !.phase = "done", !.holder = Free]
             others == [conn EXCEPT ![c] = k]
  <2>1. /\ k \in ConnRecord /\ k.phase = "done" /\ k.fresh \in BOOLEAN
        /\ k.holder = Free /\ k.writable = conn[c].writable /\ k.call = conn[c].call
    BY <1>1 DEF ConnRecord, Phase
  <2>2. conn' = Raised(others)
    BY <1>6
  <2> HIDE DEF k
  <2>3. /\ others \in [Conn -> ConnRecord] /\ others[c] = k
        /\ \A d \in Conn \ {c} : others[d] = conn[d]
    BY <2>1 DEF ConnInv, ConnTypes
  <2> HIDE DEF others
  <2>4. ASSUME NEW d \in Conn
        PROVE  /\ conn'[d] \in ConnRecord
               /\ \E b \in BOOLEAN : conn'[d] = [others[d] EXCEPT !.fresh = b]
    <3> DEFINE b == others[d].fresh \/ others[d].phase \notin {"off", "spawned", "done"}
    <3>1. conn'[d] = [others[d] EXCEPT !.fresh = b]
      BY <2>2 DEF Raised
    <3>2. others[d] \in ConnRecord /\ b \in BOOLEAN
      BY <2>3
    <3> HIDE DEF b
    <3>3. conn'[d] \in ConnRecord
      BY <3>1, <3>2 DEF ConnRecord
    <3> QED BY <3>1, <3>2, <3>3
  <2>5. conn' \in [Conn -> ConnRecord]
    <3>1. conn' = [d \in Conn |-> conn'[d]]
      BY <2>2 DEF Raised
    <3> QED BY <2>4, <3>1
  <2>6. /\ task' \in [Conn -> [Sub -> TaskRecord]]
        /\ \A d \in Conn \ {c} : task'[d] = task[d]
        /\ \A s \in Sub : task'[c][s].at = task[c][s].at /\ task'[c][s].sent = task[c][s].sent
    <3>1. task' = [task EXCEPT ![c] =
               [s \in Sub |-> [task[c][s] EXCEPT !.aborted = @ \/ s \in conn[c].known]]]
      BY <1>6 DEF AbortAll
    <3> QED BY <3>1, AbortedTasks DEF ConnInv
  <2>7. PICK t \in [Sub -> TaskRecord] : t = task'[c]
    BY <2>6
  <2>8. Fine(k, t, o, client[c], torn[c])
    BY <1>1, <1>2, <2>1, <2>6, <2>7, AnswerIsOut
  <2>9. /\ out' \in [Conn -> Seq(HalfLine)] /\ out'[c] = o
        /\ \A d \in Conn \ {c} : out'[d] = out[d]
        /\ \A d \in Conn : Len(out'[d]) <= Capacity
    BY <1>2 DEF ConnInv, ConnTypes
  <2>10. ConnTypes'
    BY <1>1, <1>6, <2>5, <2>6, <2>9 DEF ConnInv, ConnTypes
  <2>11. Elsewhere(c)
    BY <1>1, <2>3, <2>4, <2>6, <2>9 DEF Elsewhere
  <2>12. PICK b \in BOOLEAN : conn'[c] = [k EXCEPT !.fresh = b]
    BY <2>3, <2>4
  <2>13. Fine([k EXCEPT !.fresh = b], t, o, client[c], torn[c])
    BY <2>1, <2>8, NewsIsHarmless
  <2>14. ConnFine(c)'
    BY <1>1, <2>7, <2>9, <2>12, <2>13 DEF ConnFine
  <2> QED BY <1>1, <1>3, <2>10, <2>11, <2>14 DEF Keeps
<1> QED BY <1>4, <1>5, <1>6 DEF ReplyTail

-----------------------------------------------------------------------------
(* A step of one of the tasks of c: the connection goes on with its call.  *)
LEMMA TaskParts ==
    ASSUME ConnInv, NEW c \in Conn,
           NEW k \in ConnRecord, NEW t \in [Sub -> TaskRecord], NEW o \in Seq(HalfLine),
           NEW tn \in BOOLEAN, Len(o) <= Capacity,
           Gives(c, k, t, inbox[c], o, client[c], tn),
           k.phase = conn[c].phase, k.call = conn[c].call, k.reply = conn[c].reply,
           k.writable => conn[c].writable,
           \A i \in DOMAIN out[c] : i \in DOMAIN o /\ o[i] = out[c][i],
           torn[c] => tn,
           Turns(k, t),
           WireFine(conn[c], task[c], out[c], client[c].half)
               => tn \/ client[c].at = "gone" \/ WireFine(k, t, o, client[c].half)
    PROVE  Keeps(c)
<1>1. Fine(conn[c], task[c], out[c], client[c], torn[c])
  BY OwnParts
<1>2. CallsFine(k, o, client[c], tn)
  BY <1>1 DEF Fine, CallsFine, Answered
<1>3. Fine(k, t, o, client[c], tn)
  BY <1>1, <1>2 DEF Fine
<1>4. inbox[c] \in Seq(Call) /\ client[c] \in ClientRecord
  BY OwnParts
<1> QED BY <1>3, <1>4, NewParts

(* An event is a line.                                                     *)
LEMMA EventIsLine ==
    ASSUME ConnInv, NEW c \in Conn, NEW s \in Sub
    PROVE  /\ Event(c, s) \in Line
           /\ Event(c, s) = EventAfter(s, task[c][s].sent)
           /\ task[c][s] \in TaskRecord /\ task[c][s].sent \in Nat
<1>1. task[c][s] \in TaskRecord
  BY OwnParts
<1>2. task[c][s].sent \in Nat
  BY <1>1, BoundsAreCounts DEF TaskRecord
<1> QED BY <1>1, <1>2 DEF Event, EventAfter, Line

(* The task of a subscription moves from one place to another.             *)
LEMMA TaskMoves ==
    ASSUME ConnInv, NEW c \in Conn, NEW s \in Sub, NEW place \in TaskAt,
           task' = At(c, s, place)
    PROVE  \E t \in [Sub -> TaskRecord] :
               /\ task' = [task EXCEPT ![c] = t]
               /\ t[s].at = place /\ t[s].sent = task[c][s].sent
               /\ \A r \in Sub \ {s} : t[r] = task[c][r]
<1>1. task[c] \in [Sub -> TaskRecord] /\ task[c][s] \in TaskRecord
  BY OwnParts
<1>2. [task[c][s] EXCEPT !.at = place] \in TaskRecord
  BY <1>1 DEF TaskRecord
<1> DEFINE t == [task[c] EXCEPT ![s].at = place]
<1>3. /\ t \in [Sub -> TaskRecord]
      /\ t[s].at = place /\ t[s].sent = task[c][s].sent
      /\ \A r \in Sub \ {s} : t[r] = task[c][r]
  BY <1>1, <1>2 DEF TaskRecord
<1>4. task' = [task EXCEPT ![c] = t]
  BY DEF At
<1> QED BY <1>3, <1>4

(* The stream yields an event or an error; nothing is written yet.         *)
LEMMA StreamNextKeeps ==
    ASSUME ConnInv, NEW c \in Conn, NEW s \in Sub, StreamNext(c, s)
    PROVE  Keeps(c)
<1>1. /\ task[c][s].at = "next" /\ UNCHANGED <<run, flag, conn, inbox, out, client, torn>>
  BY DEF StreamNext
<1>2. PICK place \in {"lock", "fail"} :
         task' = At(c, s, place) /\ (place = "lock" => task[c][s].sent < MaxEvents)
  BY DEF StreamNext
<1>3. place \in TaskAt
  BY DEF TaskAt
<1>4. PICK t \in [Sub -> TaskRecord] :
         /\ task' = [task EXCEPT ![c] = t]
         /\ t[s].at = place /\ t[s].sent = task[c][s].sent
         /\ \A r \in Sub \ {s} : t[r] = task[c][r]
  BY <1>2, <1>3, TaskMoves
<1>5. Fine(conn[c], task[c], out[c], client[c], torn[c])
  BY OwnParts
<1>6. conn[c].holder # s /\ Turns(conn[c], t)
  BY <1>1, <1>2, <1>4, <1>5 DEF Fine, Turns
<1>7. WireFine(conn[c], task[c], out[c], client[c].half)
         => WireFine(conn[c], t, out[c], client[c].half)
  BY <1>4, <1>6 DEF WireFine
<1>8. PICK k \in ConnRecord : k = conn[c]
  BY OwnParts
<1>9. /\ torn[c] \in BOOLEAN /\ out[c] \in Seq(HalfLine) /\ Len(out[c]) <= Capacity
      /\ Gives(c, k, t, inbox[c], out[c], client[c], torn[c])
  BY <1>1, <1>4, <1>8, OwnParts DEF Gives
<1> QED BY <1>4, <1>6, <1>7, <1>8, <1>9, TaskParts

(* Half of an event is written under the mutex.                            *)
LEMMA NotifyHeadKeeps ==
    ASSUME ConnInv, NEW c \in Conn, NEW s \in Sub, NotifyHead(c, s)
    PROVE  Keeps(c)
<1>1. /\ conn[c] \in ConnRecord /\ Fine(conn[c], task[c], out[c], client[c], torn[c])
      /\ task[c][s].at = "lock" /\ conn[c].holder = Free /\ conn[c].writable
      /\ client[c].at # "gone"
      /\ UNCHANGED <<run, flag, inbox, client, torn>>
  BY OwnParts DEF NotifyHead, WriteHead, Broken
<1>2. PICK line \in Line : line = EventAfter(s, task[c][s].sent) /\ line = Event(c, s)
  BY EventIsLine
<1>3. PICK x \in HalfLine : x = <<line, 1>>
  BY DEF HalfLine
<1>4. PICK o : o = Append(out[c], x)
  OBVIOUS
<1>5. out[c] \in Seq(HalfLine) /\ Len(out[c]) < Capacity /\ out' = [out EXCEPT ![c] = o]
  BY <1>2, <1>3, <1>4, OwnParts DEF NotifyHead, WriteHead, HasRoom
<1>6. /\ o \in Seq(HalfLine) /\ Len(o) <= Capacity
      /\ \A i \in DOMAIN out[c] : i \in DOMAIN o /\ o[i] = out[c][i]
  BY <1>4, <1>5, HalfLineFits
<1>7. PICK t \in [Sub -> TaskRecord] :
         /\ task' = [task EXCEPT ![c] = t]
         /\ t[s].at = "write" /\ t[s].sent = task[c][s].sent
         /\ \A r \in Sub \ {s} : t[r] = task[c][r]
  <2>1. "write" \in TaskAt /\ task' = At(c, s, "write")
    BY DEF TaskAt, NotifyHead
  <2> QED BY <2>1, TaskMoves
<1> DEFINE k == [conn[c] EXCEPT !.holder = s]
<1>8. /\ conn' = [conn EXCEPT ![c] = k] /\ k \in ConnRecord /\ k.holder = s
      /\ k.phase = conn[c].phase /\ k.call = conn[c].call /\ k.reply = conn[c].reply
      /\ k.writable = conn[c].writable
  BY <1>1, OwnParts DEF NotifyHead, ConnRecord
<1> HIDE DEF k
<1>9. Turns(k, t)
  BY <1>1, <1>7, <1>8, HolderFacts DEF Fine, Turns
<1>10. WireFine(conn[c], task[c], out[c], client[c].half)
          => WireFine(k, t, o, client[c].half)
  <2> SUFFICES ASSUME WireFine(conn[c], task[c], out[c], client[c].half)
               PROVE  WireFine(k, t, o, client[c].half)
    OBVIOUS
  <2>1. client[c].half \in Seq(HalfLine)
    BY OwnParts DEF ClientRecord
  <2>2. Wire(client[c].half, out[c]) /\ Whole(client[c].half, out[c])
    BY <1>1 DEF WireFine
  <2>3. Wire(client[c].half, o) /\ Halfway(client[c].half, o, line)
    BY <1>3, <1>4, <1>5, <2>1, <2>2, WriteFirstHalf
  <2> QED BY <1>2, <1>7, <1>8, <2>3, HolderFacts DEF WireFine
<1>11. torn[c] \in BOOLEAN /\ Gives(c, k, t, inbox[c], o, client[c], torn[c])
  BY <1>1, <1>5, <1>7, <1>8, OwnParts DEF Gives
<1> QED BY <1>6, <1>7, <1>8, <1>9, <1>10, <1>11, TaskParts

(* The second half of the event is written and the mutex let go.           *)
LEMMA NotifyTailKeeps ==
    ASSUME ConnInv, NEW c \in Conn, NEW s \in Sub, NotifyTail(c, s)
    PROVE  Keeps(c)
<1>1. /\ conn[c] \in ConnRecord /\ Fine(conn[c], task[c], out[c], client[c], torn[c])
      /\ task[c][s].at = "write" /\ conn[c].holder = s
      /\ UNCHANGED <<run, flag, inbox, client, torn>>
  BY OwnParts DEF NotifyTail, WriteTail
<1>2. PICK line \in Line : line = EventAfter(s, task[c][s].sent) /\ line = Event(c, s)
  BY EventIsLine
<1>3. PICK x \in HalfLine : x = <<line, 2>>
  BY DEF HalfLine
<1>4. PICK o : o = Append(out[c], x)
  OBVIOUS
<1>5. out[c] \in Seq(HalfLine) /\ Len(out[c]) < Capacity /\ out' = [out EXCEPT ![c] = o]
  BY <1>2, <1>3, <1>4, OwnParts DEF NotifyTail, WriteTail, HasRoom
<1>6. /\ o \in Seq(HalfLine) /\ Len(o) <= Capacity
      /\ \A i \in DOMAIN out[c] : i \in DOMAIN o /\ o[i] = out[c][i]
  BY <1>4, <1>5, HalfLineFits
<1>7. PICK t \in [Sub -> TaskRecord] :
         /\ task' = [task EXCEPT ![c] = t] /\ t[s].at = "next"
         /\ \A r \in Sub \ {s} : t[r] = task[c][r]
  <2> DEFINE t == [task[c] EXCEPT ![s].at = "next", ![s].sent = @ + 1]
  <2>1. task[c] \in [Sub -> TaskRecord] /\ task[c][s] \in TaskRecord
    BY OwnParts
  <2>2. task[c][s].sent + 1 \in 0..MaxEvents
    <3>1. task[c][s].sent < MaxEvents /\ task[c][s].sent \in 0..MaxEvents
      BY <1>1, <2>1 DEF Fine, Turns, TaskRecord
    <3> QED BY <3>1, BoundsAreCounts
  <2>3. t \in [Sub -> TaskRecord] /\ t[s].at = "next" /\ \A r \in Sub \ {s} : t[r] = task[c][r]
    BY <2>1, <2>2 DEF TaskRecord, TaskAt
  <2>4. task' = [task EXCEPT ![c] = t]
    BY DEF NotifyTail
  <2> QED BY <2>3, <2>4
<1> DEFINE k == [conn[c] EXCEPT !.holder = Free]
<1>8. /\ conn' = [conn EXCEPT ![c] = k] /\ k \in ConnRecord /\ k.holder = Free
      /\ k.phase = conn[c].phase /\ k.call = conn[c].call /\ k.reply = conn[c].reply
      /\ k.writable = conn[c].writable
  BY <1>1, OwnParts DEF NotifyTail, ConnRecord
<1> HIDE DEF k
<1>9. Turns(k, t)
  BY <1>1, <1>7, <1>8, HolderFacts DEF Fine, Turns
<1>10. WireFine(conn[c], task[c], out[c], client[c].half)
          => WireFine(k, t, o, client[c].half)
  <2> SUFFICES ASSUME WireFine(conn[c], task[c], out[c], client[c].half)
               PROVE  WireFine(k, t, o, client[c].half)
    OBVIOUS
  <2>1. client[c].half \in Seq(HalfLine)
    BY OwnParts DEF ClientRecord
  <2>2. Wire(client[c].half, out[c]) /\ Halfway(client[c].half, out[c], line)
    BY <1>1, <1>2 DEF WireFine
  <2>3. Wire(client[c].half, o) /\ Whole(client[c].half, o)
    BY <1>3, <1>4, <1>5, <2>1, <2>2, WriteSecondHalf
  <2> QED BY <1>8, <2>3, HolderFacts DEF WireFine
<1>11. torn[c] \in BOOLEAN /\ Gives(c, k, t, inbox[c], o, client[c], torn[c])
  BY <1>1, <1>5, <1>7, <1>8, OwnParts DEF Gives
<1> QED BY <1>6, <1>7, <1>8, <1>9, <1>10, <1>11, TaskParts

(* A task ends where it does not hold the mutex, or lets it go when the    *)
(* line no longer matters: the client is gone, or the line is torn.        *)
LEMMA TaskEnds ==
    ASSUME ConnInv, NEW c \in Conn, NEW s \in Sub, task' = At(c, s, "end"),
           NEW k \in ConnRecord, conn' = [conn EXCEPT ![c] = k],
           k.holder = Released(c, s), k.phase = conn[c].phase, k.call = conn[c].call,
           k.reply = conn[c].reply, k.writable => conn[c].writable,
           ~k.writable => conn[c].holder \in {Free, s},
           NEW tn \in BOOLEAN, torn' = [torn EXCEPT ![c] = tn], torn[c] => tn,
           conn[c].holder = s => tn \/ client[c].at = "gone",
           UNCHANGED <<run, flag, inbox, out, client>>
    PROVE  Keeps(c)
<1>1. /\ conn[c] \in ConnRecord /\ Fine(conn[c], task[c], out[c], client[c], torn[c])
      /\ out[c] \in Seq(HalfLine) /\ Len(out[c]) <= Capacity
  BY OwnParts
<1>2. PICK t \in [Sub -> TaskRecord] :
         /\ task' = [task EXCEPT ![c] = t]
         /\ t[s].at = "end" /\ t[s].sent = task[c][s].sent
         /\ \A r \in Sub \ {s} : t[r] = task[c][r]
  <2>1. "end" \in TaskAt
    BY DEF TaskAt
  <2> QED BY <2>1, TaskMoves
<1>3. Turns(k, t)
  BY <1>1, <1>2, HolderFacts, SMTT(30) DEF Fine, Turns, Released
<1>4. conn[c].holder # s =>
         (WireFine(conn[c], task[c], out[c], client[c].half)
             => WireFine(k, t, out[c], client[c].half))
  BY <1>2 DEF WireFine, Released
<1>5. Gives(c, k, t, inbox[c], out[c], client[c], tn)
  BY <1>2, OwnParts DEF Gives
<1> QED BY <1>1, <1>3, <1>4, <1>5, TaskParts

(* A notification that cannot be written ends the task.                    *)
LEMMA NotifyFailsKeeps ==
    ASSUME ConnInv, NEW c \in Conn, NEW s \in Sub, NotifyFails(c, s)
    PROVE  Keeps(c)
<1>1. /\ conn[c] \in ConnRecord /\ Fine(conn[c], task[c], out[c], client[c], torn[c])
      /\ conn[c].holder \in {Free, s} /\ (client[c].at = "gone" \/ ~conn[c].writable)
      /\ task' = At(c, s, "end") /\ torn[c] \in BOOLEAN
      /\ torn' = [torn EXCEPT ![c] = torn[c]]
      /\ UNCHANGED <<run, flag, inbox, out, client>>
  BY OwnParts DEF NotifyFails, WriteFails, Broken
<1> DEFINE k == [conn[c] EXCEPT !.holder = Released(c, s)]
<1>2. /\ conn' = [conn EXCEPT ![c] = k] /\ k \in ConnRecord /\ k.holder = Released(c, s)
      /\ k.phase = conn[c].phase /\ k.call = conn[c].call /\ k.reply = conn[c].reply
      /\ k.writable = conn[c].writable
  BY <1>1, OwnParts DEF NotifyFails, ConnRecord, Released
<1> HIDE DEF k
<1>3. conn[c].holder = s => client[c].at = "gone"
  BY <1>1, HolderFacts DEF Fine, Turns
<1> QED BY <1>1, <1>2, <1>3, TaskEnds

(* The stream has failed: the write side is closed under the free mutex.   *)
LEMMA CloseWriterKeeps ==
    ASSUME ConnInv, NEW c \in Conn, NEW s \in Sub, CloseWriter(c, s)
    PROVE  Keeps(c)
<1>1. /\ conn[c] \in ConnRecord /\ conn[c].holder = Free
      /\ task' = At(c, s, "end") /\ torn[c] \in BOOLEAN
      /\ torn' = [torn EXCEPT ![c] = torn[c]]
      /\ UNCHANGED <<run, flag, inbox, out, client>>
  BY OwnParts DEF CloseWriter
<1> DEFINE k == [conn[c] EXCEPT !.writable = FALSE]
<1>2. /\ conn' = [conn EXCEPT ![c] = k] /\ k \in ConnRecord /\ k.holder = Released(c, s)
      /\ k.phase = conn[c].phase /\ k.call = conn[c].call /\ k.reply = conn[c].reply
      /\ ~k.writable
  BY <1>1, OwnParts DEF CloseWriter, ConnRecord, Released
<1> HIDE DEF k
<1>3. conn[c].holder # s
  BY <1>1, HolderFacts
<1> QED BY <1>1, <1>2, <1>3, TaskEnds

(* An aborted task ends where it waits; in the middle of a line it tears it.*)
LEMMA CancelKeeps ==
    ASSUME ConnInv, NEW c \in Conn, NEW s \in Sub, Cancel(c, s)
    PROVE  Keeps(c)
<1>1. /\ conn[c] \in ConnRecord /\ Fine(conn[c], task[c], out[c], client[c], torn[c])
      /\ task' = At(c, s, "end") /\ torn[c] \in BOOLEAN
      /\ UNCHANGED <<run, flag, inbox, out, client>>
  BY OwnParts DEF Cancel
<1>2. CASE task[c][s].at \in {"next", "lock", "fail"} /\ UNCHANGED <<conn, torn>>
  <2>1. PICK k \in ConnRecord : k = conn[c]
    BY <1>1
  <2>2. conn[c].holder # s
    BY <1>1, <1>2 DEF Fine, Turns
  <2>3. /\ conn' = [conn EXCEPT ![c] = k] /\ torn' = [torn EXCEPT ![c] = torn[c]]
        /\ k.holder = Released(c, s) /\ k.phase = conn[c].phase /\ k.call = conn[c].call
        /\ k.reply = conn[c].reply /\ k.writable = conn[c].writable
    BY <1>2, <2>1, <2>2, OwnParts DEF Released
  <2>4. ~k.writable => conn[c].holder \in {Free, s}
    BY <1>1, <2>1 DEF Fine, Turns
  <2> QED BY <1>1, <2>1, <2>2, <2>3, <2>4, TaskEnds
<1>3. CASE /\ task[c][s].at = "write" /\ ~HasRoom(c)
           /\ conn' = [conn EXCEPT ![c].holder = Free]
           /\ torn' = [torn EXCEPT ![c] = TRUE]
  <2> DEFINE k == [conn[c] EXCEPT !.holder = Free]
  <2>1. conn[c].holder = s
    BY <1>1, <1>3 DEF Fine, Turns
  <2>2. /\ conn' = [conn EXCEPT ![c] = k] /\ k \in ConnRecord /\ k.holder = Released(c, s)
        /\ k.phase = conn[c].phase /\ k.call = conn[c].call /\ k.reply = conn[c].reply
        /\ k.writable = conn[c].writable
    BY <1>1, <1>3, <2>1, OwnParts DEF ConnRecord, Released
  <2> HIDE DEF k
  <2>3. PICK tn \in BOOLEAN : tn = TRUE
    OBVIOUS
  <2>4. torn' = [torn EXCEPT ![c] = tn]
    BY <1>3, <2>3
  <2> QED BY <1>1, <2>1, <2>2, <2>3, <2>4, TaskEnds
<1> QED BY <1>2, <1>3 DEF Cancel

-----------------------------------------------------------------------------
(* A step of the client of c: its connection and its tasks stay.           *)
LEMMA ClientParts ==
    ASSUME ConnInv, NEW c \in Conn,
           NEW box \in Seq(Call), NEW o \in Seq(HalfLine), NEW cl \in ClientRecord,
           Len(o) <= Capacity, client[c].at # "off",
           Gives(c, conn[c], task[c], box, o, cl, torn[c]),
           WireFine(conn[c], task[c], out[c], client[c].half)
               => torn[c] \/ cl.at = "gone" \/ WireFine(conn[c], task[c], o, cl.half),
           client[c].at # "gone", cl.garbled => torn[c],
           Answered(conn[c], out[c], client[c], torn[c])
               => Answered(conn[c], o, cl, torn[c])
    PROVE  Keeps(c)
<1>1. /\ conn[c] \in ConnRecord /\ task[c] \in [Sub -> TaskRecord] /\ torn[c] \in BOOLEAN
      /\ Fine(conn[c], task[c], out[c], client[c], torn[c])
  BY OwnParts
<1>2. CallsFine(conn[c], o, cl, torn[c])
  BY <1>1 DEF Fine, CallsFine
<1>3. Fine(conn[c], task[c], o, cl, torn[c])
  BY <1>1, <1>2 DEF Fine
<1> QED BY <1>1, <1>3, NewParts

(* A connection is accepted: nothing has been written on it.               *)
LEMMA AcceptKeeps ==
    ASSUME ConnInv, NEW c \in Conn, Accept(c)
    PROVE  Keeps(c)
<1>1. /\ conn[c] \in ConnRecord /\ task[c] \in [Sub -> TaskRecord] /\ torn[c] \in BOOLEAN
      /\ inbox[c] \in Seq(Call) /\ out[c] \in Seq(HalfLine) /\ Len(out[c]) <= Capacity
      /\ client[c] \in ClientRecord
      /\ Fine(conn[c], task[c], out[c], client[c], torn[c])
      /\ run = "accept" /\ conn[c].phase = "off"
      /\ UNCHANGED <<run, flag, task, inbox, out, torn>>
  BY OwnParts DEF Accept
<1> DEFINE k == [conn[c] EXCEPT !.phase = "spawned"]
           cl == [client[c] EXCEPT !.at = "free"]
<1>2. /\ conn' = [conn EXCEPT ![c] = k] /\ k \in ConnRecord /\ k.phase = "spawned"
      /\ k.holder = conn[c].holder /\ k.writable = conn[c].writable
      /\ k.call = conn[c].call /\ k.reply = conn[c].reply
  BY <1>1, OwnParts DEF Accept, ConnRecord, Phase
<1>3. /\ client' = [client EXCEPT ![c] = cl] /\ cl \in ClientRecord
      /\ cl.at = "free" /\ cl.half = client[c].half /\ cl.garbled = client[c].garbled
  BY <1>1, OwnParts DEF Accept, ClientRecord, ClientAt
<1> HIDE DEF k, cl
<1>4. Gives(c, k, task[c], inbox[c], out[c], cl, torn[c])
  BY <1>1, <1>2, <1>3, OwnParts DEF Gives
<1>5. Turns(k, task[c])
  BY <1>1, <1>2 DEF Fine, Turns
<1>6. CallsFine(k, out[c], cl, torn[c])
  BY <1>1, <1>2 DEF Fine, CallsFine
<1>7. client[c].at = "off"
  BY <1>1 DEF Fine
<1>8. WireFine(conn[c], task[c], out[c], client[c].half)
         => WireFine(k, task[c], out[c], cl.half)
  BY <1>2, <1>3 DEF WireFine
<1>9. Fine(k, task[c], out[c], cl, torn[c])
  BY <1>1, <1>2, <1>3, <1>5, <1>6, <1>7, <1>8 DEF Fine
<1> QED BY <1>1, <1>2, <1>3, <1>4, <1>9, NewParts

(* A call is sent.                                                         *)
LEMMA SendCallKeeps ==
    ASSUME ConnInv, NEW c \in Conn, SendCall(c)
    PROVE  Keeps(c)
<1>1. /\ client[c] \in ClientRecord /\ client[c].at = "free"
      /\ inbox[c] \in Seq(Call) /\ out[c] \in Seq(HalfLine) /\ Len(out[c]) <= Capacity
      /\ Fine(conn[c], task[c], out[c], client[c], torn[c])
      /\ UNCHANGED <<run, flag, conn, task, out, torn>>
  BY OwnParts DEF SendCall
<1>2. PICK kind \in Menu[c] : \E s \in IF kind = "unsubscribe" THEN client[c].named ELSE {None} :
          inbox' = [inbox EXCEPT ![c] =
              Append(@, [kind |-> kind, id |-> client[c].asked + 1, sub |-> s])]
  BY DEF SendCall
<1>3. PICK s \in IF kind = "unsubscribe" THEN client[c].named ELSE {None} :
          inbox' = [inbox EXCEPT ![c] =
              Append(@, [kind |-> kind, id |-> client[c].asked + 1, sub |-> s])]
  BY <1>2
<1>4. PICK call \in Call : call = [kind |-> kind, id |-> client[c].asked + 1, sub |-> s]
  <2>1. kind \in Kinds
    BY CallsAreKnown
  <2>2. s \in Sub \cup {None} /\ client[c].asked + 1 \in Nat
    BY <1>1 DEF ClientRecord
  <2> QED BY <2>1, <2>2 DEF Call
<1>5. PICK box \in Seq(Call) : inbox' = [inbox EXCEPT ![c] = box]
  <2>1. Append(inbox[c], call) \in Seq(Call)
    BY <1>1, AppendProperties
  <2>2. inbox' = [inbox EXCEPT ![c] = Append(inbox[c], call)]
    BY <1>3, <1>4
  <2> QED BY <2>1, <2>2
<1> DEFINE cl == [client[c] EXCEPT !.at = "calling", !.asked = @ + 1]
<1>6. /\ client' = [client EXCEPT ![c] = cl] /\ cl \in ClientRecord
      /\ cl.half = client[c].half /\ cl.garbled = client[c].garbled
      /\ cl.answered = client[c].answered
  <2>1. client[c].asked + 1 \in Nat
    BY <1>1 DEF ClientRecord
  <2>2. /\ cl \in ClientRecord
        /\ cl.half = client[c].half /\ cl.garbled = client[c].garbled
        /\ cl.answered = client[c].answered
    BY <1>1, <2>1 DEF ClientRecord, ClientAt
  <2>3. client' = [client EXCEPT ![c] = cl]
    BY DEF SendCall
  <2> QED BY <2>2, <2>3
<1> HIDE DEF cl
<1>7. Gives(c, conn[c], task[c], box, out[c], cl, torn[c])
  BY <1>1, <1>5, <1>6, OwnParts DEF Gives
<1>8. cl.garbled => torn[c]
  BY <1>1, <1>6 DEF Fine
<1>9. Answered(conn[c], out[c], client[c], torn[c])
         => Answered(conn[c], out[c], cl, torn[c])
  BY <1>1, <1>6 DEF Answered
<1>10. client[c].at # "off" /\ client[c].at # "gone"
  BY <1>1
<1> QED BY <1>1, <1>6, <1>7, <1>8, <1>9, <1>10, ClientParts

(* What a complete line does to the client.                                *)
LEMMA UnderstoodFacts ==
    ASSUME NEW k \in ClientRecord, NEW line \in Line
    PROVE  /\ Understood(k, line) \in ClientRecord
           /\ Understood(k, line).garbled = k.garbled
           /\ k.answered \subseteq Understood(k, line).answered
           /\ line.kind = "answer" => line.id \in Understood(k, line).answered
<1>1. CASE line.kind = "event"
  <2>1. Append(k.queue, line) \in Seq(Line) /\ Append(k.got, line) \in Seq(Line)
    BY AppendProperties DEF ClientRecord
  <2> QED BY <1>1, <2>1 DEF Understood, ClientRecord
<1>2. CASE line.kind # "event"
  <2>1. line.id \in Nat /\ {line.sub} \ {None} \subseteq Sub
    BY DEF Line
  <2> QED BY <1>2, <2>1 DEF Understood, ClientRecord, ClientAt
<1> QED BY <1>1, <1>2

(* next_change returns a queued event.                                     *)
LEMMA PopKeeps ==
    ASSUME ConnInv, NEW c \in Conn, PopNotification(c)
    PROVE  Keeps(c)
<1>1. /\ client[c] \in ClientRecord /\ client[c].at = "free" /\ client[c].queue # <<>>
      /\ inbox[c] \in Seq(Call) /\ out[c] \in Seq(HalfLine) /\ Len(out[c]) <= Capacity
      /\ Fine(conn[c], task[c], out[c], client[c], torn[c])
      /\ UNCHANGED <<run, flag, conn, task, inbox, out, torn>>
  BY OwnParts DEF PopNotification
<1> DEFINE cl == [client[c] EXCEPT !.got = Append(@, Head(client[c].queue)),
                                   !.queue = Tail(client[c].queue)]
<1>2. Append(client[c].got, Head(client[c].queue)) \in Seq(Line) /\ Tail(client[c].queue) \in Seq(Line)
  <2>1. client[c].queue \in Seq(Line) /\ client[c].got \in Seq(Line)
    BY <1>1 DEF ClientRecord
  <2>2. Head(client[c].queue) \in Line /\ Tail(client[c].queue) \in Seq(Line)
    BY <1>1, <2>1, HeadTailProperties
  <2> QED BY <2>1, <2>2, AppendProperties
<1>3. /\ client' = [client EXCEPT ![c] = cl] /\ cl \in ClientRecord
      /\ cl.half = client[c].half /\ cl.garbled = client[c].garbled
      /\ cl.answered = client[c].answered /\ cl.at = client[c].at
  BY <1>1, <1>2 DEF PopNotification, ClientRecord
<1> HIDE DEF cl
<1>4. Gives(c, conn[c], task[c], inbox[c], out[c], cl, torn[c])
  BY <1>1, <1>3, OwnParts DEF Gives
<1>5. cl.garbled => torn[c]
  BY <1>1, <1>3 DEF Fine
<1>6. Answered(conn[c], out[c], client[c], torn[c])
         => Answered(conn[c], out[c], cl, torn[c])
  BY <1>3 DEF Answered
<1>7. client[c].at # "off" /\ client[c].at # "gone"
  BY <1>1
<1> QED BY <1>1, <1>3, <1>4, <1>5, <1>6, <1>7, ClientParts

(* The client leaves, seeing the end of the stream or on its own.          *)
LEMMA LeavingKeeps ==
    ASSUME ConnInv, NEW c \in Conn, SeeClosed(c) \/ HangUp(c)
    PROVE  Keeps(c)
<1>1. /\ client[c].at \in {"free", "calling"}
      /\ inbox[c] \in Seq(Call) /\ out[c] \in Seq(HalfLine) /\ Len(out[c]) <= Capacity
      /\ client' = [client EXCEPT ![c] = Gone]
      /\ UNCHANGED <<run, flag, conn, task, inbox, torn>>
  BY OwnParts DEF SeeClosed, HangUp
<1>2. Gone \in ClientRecord /\ Gone.at = "gone" /\ ~Gone.garbled
  BY EmptySeq DEF Gone, NewClient, ClientRecord, ClientAt
<1>3. PICK o \in Seq(HalfLine) : Len(o) <= Capacity /\ out' = [out EXCEPT ![c] = o]
  <2>1. CASE SeeClosed(c)
    <3>1. out' = out
      BY <2>1 DEF SeeClosed
    <3> QED BY <1>1, <3>1, OwnParts
  <2>2. CASE HangUp(c)
    <3>1. <<>> \in Seq(HalfLine) /\ Len(<<>>) <= Capacity
      BY EmptySeq, SocketHoldsSomething
    <3> QED BY <2>2, <3>1 DEF HangUp
  <2> QED BY <2>1, <2>2
<1>4. Gives(c, conn[c], task[c], inbox[c], o, Gone, torn[c])
  BY <1>1, <1>3, OwnParts DEF Gives
<1>5. Answered(conn[c], o, Gone, torn[c])
  BY <1>2 DEF Answered
<1>6. client[c].at # "off" /\ client[c].at # "gone"
  BY <1>1
<1> QED BY <1>1, <1>2, <1>3, <1>4, <1>5, <1>6, ClientParts

(* What is left on the wire when the client has taken the first half line. *)
LEMMA ReadMessageKeeps ==
    ASSUME ConnInv, NEW c \in Conn, ReadMessage(c)
    PROVE  Keeps(c)
<1>1. /\ client[c] \in ClientRecord /\ client[c].half \in Seq(HalfLine)
      /\ client[c].at \in {"free", "calling"}
      /\ inbox[c] \in Seq(Call) /\ out[c] \in Seq(HalfLine) /\ Len(out[c]) <= Capacity
      /\ conn[c] \in ConnRecord
      /\ Fine(conn[c], task[c], out[c], client[c], torn[c])
      /\ out[c] # <<>>
      /\ UNCHANGED <<run, flag, conn, task, inbox, torn>>
  BY OwnParts DEF ReadMessage, ClientRecord
<1>2. PICK half \in HalfLine, o \in Seq(HalfLine) :
         /\ half = Head(out[c]) /\ o = Tail(out[c]) /\ half = out[c][1]
         /\ Len(o) = Len(out[c]) - 1
         /\ \A i \in 1..Len(o) : o[i] = out[c][i + 1]
  <2>1. /\ Head(out[c]) \in HalfLine /\ Tail(out[c]) \in Seq(HalfLine)
        /\ Len(Tail(out[c])) = Len(out[c]) - 1
        /\ \A i \in 1..Len(Tail(out[c])) : Tail(out[c])[i] = out[c][i + 1]
    BY <1>1, HeadTailProperties
  <2>2. Head(out[c]) = out[c][1]
    BY <1>1
  <2> QED BY <2>1, <2>2
<1>3. half[1] \in Line /\ half[2] \in {1, 2}
  BY DEF HalfLine
<1>4. out' = [out EXCEPT ![c] = o] /\ Len(o) <= Capacity
  <2>1. Len(out[c]) \in Nat
    BY <1>1
  <2> QED BY <1>1, <1>2, <2>1, SocketHoldsSomething DEF ReadMessage
<1>5. PICK line \in Seq(HalfLine) : line = Append(client[c].half, half)
  BY <1>1, AppendProperties
<1> DEFINE held == [client[c] EXCEPT !.half = line]
           heard == [Understood(client[c], half[1]) EXCEPT !.half = <<>>]
           spoilt == [client[c] EXCEPT !.half = <<>>, !.garbled = TRUE, !.at = "free"]
           cl == IF half[2] = 1 THEN held
                 ELSE IF line = <<<<half[1], 1>>, half>> THEN heard ELSE spoilt
<1>6. client' = [client EXCEPT ![c] = cl]
  BY <1>2, <1>5 DEF ReadMessage
<1>7. /\ held \in ClientRecord /\ held.half = line /\ held.garbled = client[c].garbled
      /\ held.answered = client[c].answered /\ held.at = client[c].at
  BY <1>1 DEF ClientRecord
<1>8. /\ heard \in ClientRecord /\ heard.half = <<>> /\ heard.garbled = client[c].garbled
      /\ client[c].answered \subseteq heard.answered
      /\ half[1].kind = "answer" => half[1].id \in heard.answered
  <2>1. PICK k \in ClientRecord : k = Understood(client[c], half[1])
    BY <1>1, <1>3, UnderstoodFacts
  <2>2. /\ k.garbled = client[c].garbled /\ client[c].answered \subseteq k.answered
        /\ half[1].kind = "answer" => half[1].id \in k.answered
    BY <1>1, <1>3, <2>1, UnderstoodFacts
  <2>3. heard = [k EXCEPT !.half = <<>>] /\ <<>> \in Seq(HalfLine)
    BY <2>1, EmptySeq
  <2> HIDE DEF heard
  <2> QED BY <2>2, <2>3 DEF ClientRecord
<1>9. spoilt \in ClientRecord /\ spoilt.half = <<>>
  BY <1>1, EmptySeq DEF ClientRecord, ClientAt
<1> HIDE DEF held, heard, spoilt
<1>10. cl \in ClientRecord
  BY <1>7, <1>8, <1>9
<1>11. torn[c] \/
         /\ half[2] = 2 => line = <<<<half[1], 1>>, half>>
         /\ WireFine(conn[c], task[c], o, cl.half)
  <2> SUFFICES ASSUME ~torn[c]
               PROVE  /\ half[2] = 2 => line = <<<<half[1], 1>>, half>>
                      /\ WireFine(conn[c], task[c], o, cl.half)
    OBVIOUS
  <2>1. WireFine(conn[c], task[c], out[c], client[c].half)
    BY <1>1 DEF Fine
  <2>2. Wire(client[c].half, out[c])
    BY <2>1 DEF WireFine
  <2>3. CASE half[2] = 1
    <3>1. /\ Wire(line, o)
          /\ Whole(client[c].half, out[c]) => Whole(line, o)
          /\ \A w : Halfway(client[c].half, out[c], w) => Halfway(line, o, w)
      <4>1. /\ Head(out[c])[2] = 1 /\ o = Tail(out[c]) /\ half = Head(out[c])
            /\ line = Append(client[c].half, Head(out[c]))
        BY <1>2, <1>5, <2>3
      <4>2. /\ client[c].half \in Seq(HalfLine) /\ out[c] \in Seq(HalfLine)
            /\ out[c] # <<>>
        BY <1>1
      <4>3. /\ Wire(Append(client[c].half, Head(out[c])), o)
            /\ Whole(client[c].half, out[c]) => Whole(Append(client[c].half, Head(out[c])), o)
            /\ \A w : Halfway(client[c].half, out[c], w)
                      => Halfway(Append(client[c].half, Head(out[c])), o, w)
        BY <2>2, <4>1, <4>2, ReadFirstHalf
      <4> QED BY <4>1, <4>3
    <3>2. cl.half = line
      BY <1>7, <2>3
    <3> HIDE DEF cl
    <3> QED BY <2>1, <2>3, <3>1, <3>2 DEF WireFine
  <2>4. CASE half[2] = 2
    <3>1. /\ line = <<<<half[1], 1>>, half>>
          /\ Wire(<<>>, o)
          /\ Whole(client[c].half, out[c]) => Whole(<<>>, o)
          /\ \A w : Halfway(client[c].half, out[c], w) => Halfway(<<>>, o, w)
      <4>1. /\ Head(out[c])[2] = 2 /\ o = Tail(out[c]) /\ half = Head(out[c])
            /\ line = Append(client[c].half, Head(out[c]))
        BY <1>2, <1>5, <2>4
      <4> QED BY <1>1, <2>2, <4>1, ReadSecondHalf
    <3>2. cl.half = <<>>
      BY <1>8, <1>9, <2>4
    <3> HIDE DEF cl
    <3> QED BY <2>1, <3>1, <3>2 DEF WireFine
  <2> QED BY <1>3, <2>3, <2>4
<1>12. cl.garbled => torn[c]
  <2>1. CASE torn[c]
    BY <2>1
  <2>2. CASE ~torn[c]
    <3>1. cl.garbled = client[c].garbled
      BY <1>3, <1>7, <1>8, <1>11, <2>2
    <3> QED BY <1>1, <3>1 DEF Fine
  <2> QED BY <2>1, <2>2
<1>13. ASSUME Answered(conn[c], out[c], client[c], torn[c])
       PROVE  Answered(conn[c], o, cl, torn[c])
  <2> SUFFICES ASSUME ~torn[c] PROVE Answered(conn[c], o, cl, torn[c])
    BY DEF Answered
  <2> DEFINE id == AnswerTo(conn[c].call).id
  <2>1. client[c].answered \subseteq cl.answered
    BY <1>3, <1>7, <1>8, <1>11
  <2>2. half[2] = 2 /\ half[1].kind = "answer" => half[1].id \in cl.answered
    BY <1>8, <1>11
  <2> HIDE DEF cl
  <2>3. ASSUME NEW i \in DOMAIN out[c], out[c][i][1].kind = "answer",
               out[c][i][1].id = id, out[c][i][2] = 2
        PROVE  Answered(conn[c], o, cl, torn[c])
    <3>1. CASE i = 1
      BY <1>2, <2>2, <2>3, <3>1 DEF Answered
    <3>2. CASE i # 1
      <4>1. i - 1 \in 1..Len(o) /\ (i - 1) + 1 = i /\ DOMAIN o = 1..Len(o)
        BY <1>1, <1>2, <3>2
      <4>2. i - 1 \in DOMAIN o /\ o[i - 1] = out[c][i]
        BY <1>2, <4>1
      <4> QED BY <2>3, <4>2 DEF Answered
    <3> QED BY <3>1, <3>2
  <2> QED BY <1>1, <1>13, <2>1, <2>3 DEF Answered
<1> HIDE DEF cl
<1>14. Gives(c, conn[c], task[c], inbox[c], o, cl, torn[c])
  BY <1>1, <1>4, <1>6, OwnParts DEF Gives
<1>15. client[c].at # "off" /\ client[c].at # "gone"
  BY <1>1
<1>16. torn[c] \/ WireFine(conn[c], task[c], o, cl.half)
  BY <1>11
<1> QED BY <1>1, <1>4, <1>10, <1>12, <1>13, <1>14, <1>15, <1>16, ClientParts

-----------------------------------------------------------------------------
(* A fresh daemon has accepted nothing.                                    *)
LEMMA ConnInitInv == ConnInit => ConnInv
<1> SUFFICES ASSUME ConnInit PROVE ConnInv
  OBVIOUS
<1>1. /\ NoCall \in Call /\ NoAnswer \in Line /\ NewClient \in ClientRecord
      /\ <<>> \in Seq(Call) /\ <<>> \in Seq(HalfLine) /\ Len(<<>>) <= Capacity
  <2>1. /\ <<>> \in Seq(Call) /\ <<>> \in Seq(HalfLine) /\ <<>> \in Seq(Line)
        /\ Len(<<>>) <= Capacity
    BY EmptySeq, SocketHoldsSomething
  <2>2. NoCall \in Call /\ NoAnswer \in Line
    BY DEF NoCall, Call, Kinds, NoAnswer, Line, None
  <2>3. NewClient \in ClientRecord
    BY <2>1 DEF NewClient, ClientRecord, ClientAt
  <2> QED BY <2>1, <2>2, <2>3
<1> DEFINE k == [phase |-> "off", fresh |-> FALSE, handshaken |-> FALSE, call |-> NoCall,
                 reply |-> NoAnswer, stop |-> FALSE, known |-> {}, next |-> 1,
                 holder |-> Free, writable |-> TRUE]
           t == [s \in Sub |-> [at |-> "none", aborted |-> FALSE, sent |-> 0]]
<1>2. k \in ConnRecord /\ k.phase = "off" /\ k.holder = Free /\ k.writable /\ k.call = NoCall
  BY <1>1 DEF ConnRecord, Phase
<1>3. t \in [Sub -> TaskRecord] /\ \A s \in Sub : t[s].at = "none"
  BY BoundsAreCounts DEF TaskRecord, TaskAt
<1>4. /\ run = "accept" /\ flag = FALSE /\ conn = [c \in Conn |-> k] /\ task = [c \in Conn |-> t]
      /\ inbox = [c \in Conn |-> <<>>] /\ out = [c \in Conn |-> <<>>]
      /\ client = [c \in Conn |-> NewClient] /\ torn = [c \in Conn |-> FALSE]
  BY DEF ConnInit
<1> HIDE DEF k, t
<1>5. ConnTypes
  BY <1>1, <1>2, <1>3, <1>4 DEF ConnTypes
<1>6. NewClient.at = "off" /\ NewClient.half = <<>> /\ ~NewClient.garbled
  BY DEF NewClient
<1>7. Turns(k, t)
  BY <1>2, <1>3, HolderFacts DEF Turns
<1>8. WireFine(k, t, <<>>, <<>>)
  <2>1. Wire(<<>>, <<>>) /\ Whole(<<>>, <<>>)
    BY EmptySeq DEF Wire, Whole
  <2> QED BY <1>2, <2>1, HolderFacts DEF WireFine
<1>9. Fine(k, t, <<>>, NewClient, FALSE)
  BY <1>2, <1>6, <1>7, <1>8 DEF Fine, CallsFine
<1>10. \A c \in Conn : ConnFine(c)
  BY <1>4, <1>9 DEF ConnFine
<1> QED BY <1>4, <1>5, <1>10 DEF ConnInv, DownJoined

(* The loop ends: every connection that is being served has news.          *)
LEMMA BeginDrainInv == ConnInv /\ BeginDrain => ConnInv'
<1> SUFFICES ASSUME ConnInv, BeginDrain PROVE ConnInv'
  OBVIOUS
<1>1. /\ ConnTypes /\ run' = "drain" /\ flag' = TRUE /\ conn' = Raised(conn)
      /\ UNCHANGED <<task, inbox, out, client, torn>>
  BY DEF ConnInv, BeginDrain
<1>2. ASSUME NEW d \in Conn
      PROVE  conn'[d] \in ConnRecord /\ ConnFine(d)'
  <2> DEFINE b == conn[d].fresh \/ conn[d].phase \notin {"off", "spawned", "done"}
  <2>1. conn'[d] = [conn[d] EXCEPT !.fresh = b]
    BY <1>1 DEF Raised
  <2>2. conn[d] \in ConnRecord /\ b \in BOOLEAN
    BY <1>1 DEF ConnTypes
  <2> HIDE DEF b
  <2>3. conn'[d] \in ConnRecord
    BY <2>1, <2>2 DEF ConnRecord
  <2>4. Fine(conn[d], task[d], out[d], client[d], torn[d])
    BY OwnParts
  <2>5. Fine([conn[d] EXCEPT !.fresh = b], task[d], out[d], client[d], torn[d])
    BY <2>2, <2>4, NewsIsHarmless
  <2> QED BY <1>1, <2>1, <2>3, <2>5 DEF ConnFine
<1>3. conn' \in [Conn -> ConnRecord]
  <2>1. conn' = [d \in Conn |-> conn'[d]]
    BY <1>1 DEF Raised
  <2> QED BY <1>2, <2>1
<1>4. ConnTypes'
  BY <1>1, <1>3 DEF ConnTypes
<1> QED BY <1>1, <1>2, <1>4 DEF ConnInv, DownJoined

(* The process ends, and with it the tasks that still run: a line that one *)
(* of them was in the middle of is torn.                                   *)
LEMMA FinishInv == ConnInv /\ Finish => ConnInv'
<1> SUFFICES ASSUME ConnInv, Finish PROVE ConnInv'
  OBVIOUS
<1>1. /\ ConnTypes /\ run' = "down" /\ \A c \in Conn : conn[c].phase \in {"off", "done"}
      /\ task' = [c \in Conn |-> [s \in Sub |-> [task[c][s] EXCEPT !.at = "end"]]]
      /\ conn' = [c \in Conn |-> [conn[c] EXCEPT !.holder = Free]]
      /\ torn' = [c \in Conn |-> torn[c] \/ conn[c].holder # Free]
      /\ UNCHANGED <<flag, inbox, out, client>>
  BY DEF ConnInv, Finish
<1>2. ASSUME NEW d \in Conn
      PROVE  /\ conn'[d] \in ConnRecord /\ task'[d] \in [Sub -> TaskRecord]
             /\ conn'[d].phase = conn[d].phase /\ ConnFine(d)'
  <2> DEFINE k == [conn[d] EXCEPT !.holder = Free]
             t == [s \in Sub |-> [task[d][s] EXCEPT !.at = "end"]]
             tn == torn[d] \/ conn[d].holder # Free
  <2>1. /\ conn[d] \in ConnRecord /\ task[d] \in [Sub -> TaskRecord]
        /\ Fine(conn[d], task[d], out[d], client[d], torn[d])
    BY OwnParts
  <2>2. conn'[d] = k /\ task'[d] = t /\ torn'[d] = tn
    BY <1>1
  <2>3. /\ k \in ConnRecord /\ k.holder = Free /\ k.phase = conn[d].phase
        /\ k.writable = conn[d].writable /\ k.call = conn[d].call /\ k.reply = conn[d].reply
    BY <2>1 DEF ConnRecord
  <2>4. t \in [Sub -> TaskRecord] /\ \A s \in Sub : t[s].at = "end"
    <3>1. ASSUME NEW s \in Sub PROVE t[s] \in TaskRecord /\ t[s].at = "end"
      BY <2>1 DEF TaskRecord, TaskAt
    <3> QED BY <3>1
  <2> HIDE DEF k, t
  <2>5. Turns(k, t)
    BY <1>1, <2>3, <2>4, HolderFacts DEF Turns
  <2>6. conn[d].holder = Free =>
           (WireFine(conn[d], task[d], out[d], client[d].half)
               => WireFine(k, t, out[d], client[d].half))
    BY <2>3, HolderFacts DEF WireFine
  <2>7. CallsFine(k, out[d], client[d], tn)
    BY <2>1, <2>3 DEF Fine, CallsFine, Answered
  <2>8. Fine(k, t, out[d], client[d], tn)
    BY <2>1, <2>3, <2>5, <2>6, <2>7 DEF Fine
  <2> QED BY <1>1, <2>2, <2>3, <2>4, <2>8 DEF ConnFine
<1>3. conn' \in [Conn -> ConnRecord] /\ task' \in [Conn -> [Sub -> TaskRecord]]
  <2>1. conn' = [d \in Conn |-> conn'[d]] /\ task' = [d \in Conn |-> task'[d]]
    BY <1>1
  <2> QED BY <1>2, <2>1
<1>4. torn' \in [Conn -> BOOLEAN]
  BY <1>1
<1>5. ConnTypes'
  BY <1>1, <1>3, <1>4 DEF ConnTypes
<1>6. DownJoined'
  BY <1>1, <1>2 DEF DownJoined
<1> QED BY <1>2, <1>5, <1>6 DEF ConnInv

(* Every step keeps the invariant.                                         *)
LEMMA ConnStepInv == ConnInv /\ [ConnNext]_connVars => ConnInv'
<1> SUFFICES ASSUME ConnInv, [ConnNext]_connVars PROVE ConnInv'
  OBVIOUS
<1>1. CASE UNCHANGED connVars
  BY <1>1 DEF connVars, ConnInv, ConnTypes, ConnFine, DownJoined
<1>2. CASE BeginDrain
  BY <1>2, BeginDrainInv
<1>3. CASE Finish
  BY <1>3, FinishInv
<1>4. ASSUME NEW c \in Conn, Accept(c) \/ ConnStep(c)
      PROVE  ConnInv'
  <2>1. Keeps(c)
    BY <1>4, AcceptKeeps, ServeKeeps, TopKeeps, SelectKeeps, HandleKeeps, ReplyHeadKeeps,
       ReplyTailKeeps, ReplyFailsKeeps DEF ConnStep
  <2> QED BY <2>1, OneConnection
<1>5. ASSUME NEW c \in Conn, SendCall(c) \/ ClientRead(c) \/ HangUp(c)
      PROVE  ConnInv'
  <2>1. Keeps(c)
    BY <1>5, SendCallKeeps, ReadMessageKeeps, PopKeeps, LeavingKeeps DEF ClientRead
  <2> QED BY <2>1, OneConnection
<1>6. ASSUME NEW c \in Conn, NEW s \in Sub, StreamNext(c, s) \/ TaskWrite(c, s) \/ Cancel(c, s)
      PROVE  ConnInv'
  <2>1. Keeps(c)
    BY <1>6, StreamNextKeeps, NotifyHeadKeeps, NotifyTailKeeps, NotifyFailsKeeps,
       CloseWriterKeeps, CancelKeeps DEF TaskWrite
  <2> QED BY <2>1, OneConnection
<1> QED BY <1>1, <1>2, <1>3, <1>4, <1>5, <1>6 DEF ConnNext

(* The connections of LocalServer keep the invariant, whatever their       *)
(* clients do and whenever their tasks are aborted.                        *)
THEOREM ConnectionsKeepTheInvariant == ConnSpec => []ConnInv
<1> QED BY ConnInitInv, ConnStepInv, PTL DEF ConnSpec

(* The connections' state has its types, and whoever holds the mutex is    *)
(* writing a line.                                                         *)
THEOREM ConnectionTypes == ConnSpec => []ConnTypeOK
<1>1. ASSUME ConnInv PROVE ConnTypeOK
  <2>1. ASSUME NEW c \in Conn
        PROVE  /\ Len(out[c]) <= Capacity
               /\ \A i \in DOMAIN out[c] : out[c][i] \in Line \X {1, 2}
               /\ client[c].at \in ClientAt /\ client[c].named \subseteq Sub
               /\ conn[c].holder = Server => conn[c].phase = "write"
               /\ \A s \in Sub : conn[c].holder = s => task[c][s].at = "write"
    <3>1. out[c] \in Seq(HalfLine) /\ Len(out[c]) <= Capacity
      BY <1>1, OwnParts
    <3>2. \A i \in DOMAIN out[c] : out[c][i] \in HalfLine
      BY <3>1
    <3>3. client[c].at \in ClientAt /\ client[c].named \subseteq Sub
      BY <1>1, OwnParts DEF ClientRecord
    <3>4. Turns(conn[c], task[c])
      BY <1>1, OwnParts DEF Fine
    <3> QED BY <3>1, <3>2, <3>3, <3>4 DEF Turns, HalfLine
  <2>2. ConnTypes
    BY <1>1 DEF ConnInv
  <2> QED BY <2>1, <2>2 DEF ConnTypes, ConnTypeOK, ConnRecord, TaskRecord
<1> QED BY <1>1, ConnectionsKeepTheInvariant, PTL

(* Answers and events of one connection never mix within a line: a client  *)
(* that reads a spoilt line reads what an aborted task has torn.           *)
THEOREM LinesStayWhole == ConnSpec => []LinesAreWhole
<1>1. ConnInv => LinesAreWhole
  BY DEF ConnInv, ConnFine, Fine, LinesAreWhole
<1> QED BY <1>1, ConnectionsKeepTheInvariant, PTL

(* LocalServer::run shuts the engine down when the connections are joined, *)
(* and a connection that has ended has answered the call it took up.       *)
THEOREM CallsAreAnswered == ConnSpec => []AnsweredBeforeDown
<1>1. ASSUME ConnInv PROVE AnsweredBeforeDown
  <2> SUFFICES ASSUME run = "down", NEW c \in Conn
               PROVE  Answered(conn[c], out[c], client[c], torn[c])
    BY DEF AnsweredBeforeDown, Answered
  <2>1. conn[c].phase \in {"off", "done"} /\ CallsFine(conn[c], out[c], client[c], torn[c])
    BY <1>1 DEF ConnInv, DownJoined, ConnFine, Fine
  <2> QED BY <2>1 DEF CallsFine, Answered
<1> QED BY <1>1, ConnectionsKeepTheInvariant, PTL
-----------------------------------------------------------------------------
(* The events of a subscription, from its task to next_change.             *)

(* The half line x completes an event of s, or the answer that names s.    *)
Completes(x, s) == x[1].kind = "event" /\ x[1].sub = s /\ x[2] = 2
NamesIt(x, s) == x[1].kind = "answer" /\ x[1].sub = s /\ x[2] = 2

(* The task has been spawned and has not ended, or has sent something.     *)
Started(r) == r.at \in {"next", "lock", "write", "fail"} \/ r.sent > 0

(* What the client has been handed, or has in its queue.                   *)
Seen(cl) == cl.got \o cl.queue

(* The task r of s has sent its events up to r.sent; the client has seen   *)
(* some of them, the others follow on the socket o, all in their order and *)
(* behind the answer that names s.                                         *)
InOrder(s, seen, named, o, r) ==
    /\ \A i \in 1..Len(seen) : seen[i].sub = s => s \in named /\ seen[i].id \in 1..r.sent
    /\ \A i, j \in 1..Len(seen) :
          i < j /\ seen[i].sub = s /\ seen[j].sub = s => seen[i].id < seen[j].id
    /\ \A p \in 1..Len(o) : Completes(o[p], s) =>
          /\ o[p][1].id \in 1..r.sent
          /\ s \in named \/ \E q \in 1..Len(o) : q < p /\ NamesIt(o[q], s)
          /\ \A i \in 1..Len(seen) : seen[i].sub = s => seen[i].id < o[p][1].id
    /\ \A p, q \in 1..Len(o) :
          p < q /\ Completes(o[p], s) /\ Completes(o[q], s) => o[p][1].id < o[q][1].id
    /\ \A n \in 1..r.sent :
          \/ \E i \in 1..Len(seen) : seen[i].sub = s /\ seen[i].id = n
          \/ \E p \in 1..Len(o) : Completes(o[p], s) /\ o[p][1].id = n
    /\ Started(r) => s \in named \/ \E q \in 1..Len(o) : NamesIt(o[q], s)

Delivers(c) ==
    \/ torn[c] \/ client[c] = Gone
    \/ \A s \in Sub : InOrder(s, Seen(client[c]), client[c].named, out[c], task[c][s])

DeliveryInv == \A c \in Conn : Delivers(c)

(* Nothing is written and nothing taken: the task has not started anew.    *)
LEMMA OrderKeeps ==
    ASSUME NEW s, NEW seen, NEW named, NEW o, NEW r, NEW u,
           InOrder(s, seen, named, o, r), u.sent = r.sent, Started(u) => Started(r)
    PROVE  InOrder(s, seen, named, o, u)
BY DEF InOrder

(* What is written completes no event of s; only the answer that names s   *)
(* starts its task.                                                        *)
LEMMA OrderIgnores ==
    ASSUME NEW s, NEW seen \in Seq(Line), NEW named, NEW o \in Seq(HalfLine), NEW x \in HalfLine,
           NEW p, p = Append(o, x), NEW r, NEW u, r.sent \in Nat,
           InOrder(s, seen, named, o, r), u.sent = r.sent,
           ~Completes(x, s), Started(u) => Started(r) \/ NamesIt(x, s)
    PROVE  InOrder(s, seen, named, p, u)
<1>1. /\ Len(p) = Len(o) + 1 /\ Len(o) \in Nat
      /\ \A i \in 1..Len(o) : p[i] = o[i] /\ i \in 1..Len(p)
      /\ p[Len(o) + 1] = x /\ Len(o) + 1 \in 1..Len(p)
  BY AppendProperties
<1>2. \A i \in 1..Len(p) : Completes(p[i], s) => i \in 1..Len(o) /\ p[i] = o[i]
  <2> SUFFICES ASSUME NEW i \in 1..Len(p), i \notin 1..Len(o) PROVE p[i] = x
    BY <1>1
  <2>1. i = Len(o) + 1
    BY <1>1
  <2> QED BY <1>1, <2>1
<1>3. \A i \in 1..Len(seen) : seen[i].sub = s => s \in named /\ seen[i].id \in 1..u.sent
  BY DEF InOrder
<1>4. \A i, j \in 1..Len(seen) :
         i < j /\ seen[i].sub = s /\ seen[j].sub = s => seen[i].id < seen[j].id
  BY DEF InOrder
<1>5. ASSUME NEW i \in 1..Len(p), Completes(p[i], s)
      PROVE  /\ p[i][1].id \in 1..u.sent
             /\ s \in named \/ \E q \in 1..Len(p) : q < i /\ NamesIt(p[q], s)
             /\ \A j \in 1..Len(seen) : seen[j].sub = s => seen[j].id < p[i][1].id
  <2>1. i \in 1..Len(o) /\ p[i] = o[i]
    BY <1>2, <1>5
  <2>2. /\ o[i][1].id \in 1..r.sent
        /\ s \in named \/ \E q \in 1..Len(o) : q < i /\ NamesIt(o[q], s)
        /\ \A j \in 1..Len(seen) : seen[j].sub = s => seen[j].id < o[i][1].id
    BY <1>5, <2>1 DEF InOrder
  <2> QED BY <1>1, <2>1, <2>2
<1>6. \A i, q \in 1..Len(p) :
         i < q /\ Completes(p[i], s) /\ Completes(p[q], s) => p[i][1].id < p[q][1].id
  BY <1>2 DEF InOrder
<1>7. \A n \in 1..u.sent :
         \/ \E i \in 1..Len(seen) : seen[i].sub = s /\ seen[i].id = n
         \/ \E i \in 1..Len(p) : Completes(p[i], s) /\ p[i][1].id = n
  <2> SUFFICES ASSUME NEW n \in 1..r.sent,
                      \E i \in 1..Len(o) : Completes(o[i], s) /\ o[i][1].id = n
               PROVE  \E i \in 1..Len(p) : Completes(p[i], s) /\ p[i][1].id = n
    BY DEF InOrder
  <2> QED BY <1>1
<1>8. Started(u) => s \in named \/ \E q \in 1..Len(p) : NamesIt(p[q], s)
  <2>1. Started(r) => s \in named \/ \E q \in 1..Len(o) : NamesIt(o[q], s)
    BY DEF InOrder
  <2> QED BY <1>1, <2>1
<1> QED BY <1>3, <1>4, <1>5, <1>6, <1>7, <1>8 DEF InOrder

(* The task completes its next event.                                      *)
LEMMA OrderExtends ==
    ASSUME NEW s, NEW seen \in Seq(Line), NEW named, NEW o \in Seq(HalfLine), NEW x \in HalfLine,
           NEW p, p = Append(o, x), NEW r, NEW u, r.sent \in Nat,
           InOrder(s, seen, named, o, r), Started(r),
           u.sent = r.sent + 1, Completes(x, s), x[1].id = u.sent
    PROVE  InOrder(s, seen, named, p, u)
<1>1. /\ Len(p) = Len(o) + 1 /\ Len(o) \in Nat
      /\ \A i \in 1..Len(o) : p[i] = o[i] /\ i \in 1..Len(p)
      /\ p[Len(o) + 1] = x /\ Len(o) + 1 \in 1..Len(p)
      /\ \A i \in 1..Len(p) : i # Len(o) + 1 => i \in 1..Len(o)
  BY AppendProperties
<1>2. /\ \A n \in 1..r.sent : n \in 1..u.sent /\ n < u.sent
      /\ \A n \in 1..u.sent : n = u.sent \/ n \in 1..r.sent
      /\ u.sent \in 1..u.sent
  OBVIOUS
<1>3. \A i \in 1..Len(seen) : seen[i].sub = s
         => s \in named /\ seen[i].id \in 1..u.sent /\ seen[i].id < u.sent
  BY <1>2 DEF InOrder
<1>4. \A i, j \in 1..Len(seen) :
         i < j /\ seen[i].sub = s /\ seen[j].sub = s => seen[i].id < seen[j].id
  BY DEF InOrder
<1>5. s \in named \/ \E q \in 1..Len(o) : NamesIt(o[q], s)
  BY DEF InOrder
<1>6. ASSUME NEW i \in 1..Len(p), Completes(p[i], s)
      PROVE  /\ p[i][1].id \in 1..u.sent
             /\ s \in named \/ \E q \in 1..Len(p) : q < i /\ NamesIt(p[q], s)
             /\ \A j \in 1..Len(seen) : seen[j].sub = s => seen[j].id < p[i][1].id
  <2>1. CASE i = Len(o) + 1
    <3>1. \A q \in 1..Len(o) : q < i
      BY <1>1, <2>1
    <3> QED BY <1>1, <1>2, <1>3, <1>5, <2>1, <3>1
  <2>2. CASE i \in 1..Len(o)
    <3>1. /\ o[i][1].id \in 1..r.sent
          /\ s \in named \/ \E q \in 1..Len(o) : q < i /\ NamesIt(o[q], s)
          /\ \A j \in 1..Len(seen) : seen[j].sub = s => seen[j].id < o[i][1].id
      BY <1>1, <1>6, <2>2 DEF InOrder
    <3> QED BY <1>1, <1>2, <2>2, <3>1
  <2> QED BY <1>1, <2>1, <2>2
<1>7. ASSUME NEW i \in 1..Len(p), NEW q \in 1..Len(p), i < q, Completes(p[i], s), Completes(p[q], s)
      PROVE  p[i][1].id < p[q][1].id
  <2>1. i \in 1..Len(o)
    BY <1>1, <1>7
  <2>2. CASE q \in 1..Len(o)
    BY <1>1, <1>7, <2>1, <2>2 DEF InOrder
  <2>3. CASE q = Len(o) + 1
    <3>1. o[i][1].id \in 1..r.sent
      BY <1>1, <1>7, <2>1 DEF InOrder
    <3> QED BY <1>1, <1>2, <2>1, <2>3, <3>1
  <2> QED BY <1>1, <2>2, <2>3
<1>8. ASSUME NEW n \in 1..u.sent
      PROVE  \/ \E i \in 1..Len(seen) : seen[i].sub = s /\ seen[i].id = n
             \/ \E i \in 1..Len(p) : Completes(p[i], s) /\ p[i][1].id = n
  <2>1. CASE n = u.sent
    BY <1>1, <2>1
  <2>2. CASE n \in 1..r.sent
    BY <1>1, <2>2 DEF InOrder
  <2> QED BY <1>2, <2>1, <2>2
<1>9. s \in named \/ \E q \in 1..Len(p) : NamesIt(p[q], s)
  BY <1>1, <1>5
<1> QED BY <1>3, <1>4, <1>6, <1>7, <1>8, <1>9 DEF InOrder

(* The client takes a half line that completes no event of s.              *)
LEMMA OrderPasses ==
    ASSUME NEW s, NEW seen \in Seq(Line), NEW named, NEW o \in Seq(HalfLine), o # <<>>,
           NEW r, r.sent \in Nat, InOrder(s, seen, named, o, r), ~Completes(Head(o), s),
           NEW more \in Seq(Line),
           more = seen \/ \E e \in Line : e.sub # s /\ more = Append(seen, e),
           NEW known, named \subseteq known, NamesIt(Head(o), s) => s \in known
    PROVE  InOrder(s, more, known, Tail(o), r)
<1> DEFINE p == Tail(o)
<1>1. /\ Len(p) = Len(o) - 1 /\ Len(o) \in Nat /\ Head(o) = o[1]
      /\ \A i \in 1..Len(p) : p[i] = o[i + 1] /\ i + 1 \in 1..Len(o)
      /\ \A i \in 1..Len(o) : i # 1 => i - 1 \in 1..Len(p) /\ p[i - 1] = o[i]
  <2>1. /\ Len(p) = Len(o) - 1 /\ \A i \in 1..Len(p) : p[i] = o[i + 1]
    BY HeadTailProperties
  <2>2. Len(o) \in Nat /\ Head(o) = o[1]
    OBVIOUS
  <2> HIDE DEF p
  <2>3. ASSUME NEW i \in 1..Len(p) PROVE i + 1 \in 1..Len(o)
    BY <2>1, <2>2
  <2>4. ASSUME NEW i \in 1..Len(o), i # 1 PROVE i - 1 \in 1..Len(p) /\ p[i - 1] = o[i]
    <3>1. i - 1 \in 1..Len(p) /\ (i - 1) + 1 = i
      BY <2>1, <2>2, <2>4
    <3> QED BY <2>1, <3>1
  <2> QED BY <2>1, <2>2, <2>3, <2>4
<1> HIDE DEF p
<1>2. /\ Len(seen) \in Nat
      /\ \A i \in 1..Len(seen) : i \in 1..Len(more) /\ more[i] = seen[i]
      /\ \A i \in 1..Len(more) : more[i].sub = s => i \in 1..Len(seen) /\ more[i] = seen[i]
  <2>1. CASE more = seen
    BY <2>1
  <2>2. CASE more # seen
    <3>1. PICK e \in Line : e.sub # s /\ more = Append(seen, e)
      BY <2>2
    <3>2. /\ Len(more) = Len(seen) + 1 /\ Len(seen) \in Nat
          /\ \A i \in 1..Len(seen) : more[i] = seen[i]
          /\ more[Len(seen) + 1] = e
      BY <3>1, AppendProperties
    <3>3. ASSUME NEW i \in 1..Len(more), more[i].sub = s
          PROVE  i \in 1..Len(seen)
      <4>1. i # Len(seen) + 1
        BY <3>1, <3>2, <3>3
      <4> QED BY <3>2, <4>1
    <3> QED BY <3>2, <3>3
  <2> QED BY <2>1, <2>2
<1>3. ASSUME NEW i \in 1..Len(more), more[i].sub = s
      PROVE  s \in known /\ more[i].id \in 1..r.sent
  BY <1>2, <1>3 DEF InOrder
<1>4. ASSUME NEW i \in 1..Len(more), NEW j \in 1..Len(more),
             i < j, more[i].sub = s, more[j].sub = s
      PROVE  more[i].id < more[j].id
  BY <1>2, <1>4 DEF InOrder
<1>5. ASSUME NEW i \in 1..Len(p), Completes(p[i], s)
      PROVE  /\ p[i][1].id \in 1..r.sent
             /\ s \in known \/ \E q \in 1..Len(p) : q < i /\ NamesIt(p[q], s)
             /\ \A j \in 1..Len(more) : more[j].sub = s => more[j].id < p[i][1].id
  <2>1. i + 1 \in 1..Len(o) /\ Completes(o[i + 1], s)
    BY <1>1, <1>5
  <2>2. /\ o[i + 1][1].id \in 1..r.sent
        /\ s \in named \/ \E q \in 1..Len(o) : q < i + 1 /\ NamesIt(o[q], s)
        /\ \A j \in 1..Len(seen) : seen[j].sub = s => seen[j].id < o[i + 1][1].id
    BY <2>1 DEF InOrder
  <2>3. s \in known \/ \E q \in 1..Len(p) : q < i /\ NamesIt(p[q], s)
    <3>1. CASE s \in named
      BY <3>1
    <3>2. CASE s \notin named
      <4>1. PICK q \in 1..Len(o) : q < i + 1 /\ NamesIt(o[q], s)
        BY <2>2, <3>2
      <4>2. CASE q = 1
        BY <1>1, <4>1, <4>2
      <4>3. CASE q # 1
        <5>1. q - 1 \in 1..Len(p) /\ p[q - 1] = o[q] /\ q - 1 < i
          BY <1>1, <4>1, <4>3
        <5> QED BY <4>1, <5>1
      <4> QED BY <4>2, <4>3
    <3> QED BY <3>1, <3>2
  <2> QED BY <1>1, <1>2, <2>2, <2>3
<1>6. ASSUME NEW i \in 1..Len(p), NEW q \in 1..Len(p), i < q, Completes(p[i], s), Completes(p[q], s)
      PROVE  p[i][1].id < p[q][1].id
  <2>1. i + 1 \in 1..Len(o) /\ q + 1 \in 1..Len(o) /\ i + 1 < q + 1
    BY <1>1, <1>6
  <2>2. Completes(o[i + 1], s) /\ Completes(o[q + 1], s)
    BY <1>1, <1>6
  <2>3. o[i + 1][1].id < o[q + 1][1].id
    BY <2>1, <2>2 DEF InOrder
  <2> QED BY <1>1, <2>3
<1>7. ASSUME NEW n \in 1..r.sent
      PROVE  \/ \E i \in 1..Len(more) : more[i].sub = s /\ more[i].id = n
             \/ \E i \in 1..Len(p) : Completes(p[i], s) /\ p[i][1].id = n
  <2>1. CASE \E i \in 1..Len(seen) : seen[i].sub = s /\ seen[i].id = n
    BY <1>2, <2>1
  <2>2. ASSUME NEW i \in 1..Len(o), Completes(o[i], s), o[i][1].id = n
        PROVE  \E q \in 1..Len(p) : Completes(p[q], s) /\ p[q][1].id = n
    <3>1. i # 1
      BY <1>1, <2>2
    <3> QED BY <1>1, <2>2, <3>1
  <2> QED BY <2>1, <2>2 DEF InOrder
<1>8. ASSUME Started(r)
      PROVE  s \in known \/ \E q \in 1..Len(p) : NamesIt(p[q], s)
  <2>1. s \in named \/ \E q \in 1..Len(o) : NamesIt(o[q], s)
    BY <1>8 DEF InOrder
  <2>2. ASSUME NEW q \in 1..Len(o), NamesIt(o[q], s)
        PROVE  s \in known \/ \E j \in 1..Len(p) : NamesIt(p[j], s)
    <3>1. CASE q = 1
      BY <1>1, <2>2, <3>1
    <3>2. CASE q # 1
      BY <1>1, <2>2, <3>2
    <3> QED BY <3>1, <3>2
  <2> QED BY <2>1, <2>2
<1>9. InOrder(s, more, known, p, r)
  BY <1>3, <1>4, <1>5, <1>6, <1>7, <1>8 DEF InOrder
<1> QED BY <1>9 DEF p

(* The client takes the half line that completes an event of s.            *)
LEMMA OrderDelivers ==
    ASSUME NEW s, NEW seen \in Seq(Line), NEW named, NEW o \in Seq(HalfLine), o # <<>>,
           NEW r, r.sent \in Nat, InOrder(s, seen, named, o, r), Completes(Head(o), s),
           NEW more \in Seq(Line), more = Append(seen, Head(o)[1])
    PROVE  InOrder(s, more, named, Tail(o), r)
<1> DEFINE p == Tail(o)
           x == Head(o)
<1>1. /\ Len(p) = Len(o) - 1 /\ Len(o) \in Nat /\ x = o[1] /\ 1 \in 1..Len(o)
      /\ \A i \in 1..Len(p) : p[i] = o[i + 1] /\ i + 1 \in 1..Len(o) /\ 1 < i + 1
      /\ \A i \in 1..Len(o) : i # 1 => i - 1 \in 1..Len(p) /\ p[i - 1] = o[i]
  <2>1. /\ Len(p) = Len(o) - 1 /\ \A i \in 1..Len(p) : p[i] = o[i + 1]
    BY HeadTailProperties
  <2>2. Len(o) \in Nat /\ x = o[1] /\ 1 \in 1..Len(o)
    OBVIOUS
  <2> HIDE DEF p, x
  <2>3. ASSUME NEW i \in 1..Len(p) PROVE i + 1 \in 1..Len(o) /\ 1 < i + 1
    BY <2>1, <2>2
  <2>4. ASSUME NEW i \in 1..Len(o), i # 1 PROVE i - 1 \in 1..Len(p) /\ p[i - 1] = o[i]
    <3>1. i - 1 \in 1..Len(p) /\ (i - 1) + 1 = i
      BY <2>1, <2>2, <2>4
    <3> QED BY <2>1, <3>1
  <2> QED BY <2>1, <2>2, <2>3, <2>4
<1>2. Completes(x, s) /\ x[1].sub = s /\ more = Append(seen, x[1]) /\ x[1] \in Line
  <2>1. x \in HalfLine
    BY HeadTailProperties
  <2> QED BY <2>1 DEF Completes, HalfLine
<1> HIDE DEF p, x
<1>3. /\ Len(more) = Len(seen) + 1 /\ Len(seen) \in Nat
      /\ \A i \in 1..Len(seen) : i \in 1..Len(more) /\ more[i] = seen[i]
      /\ more[Len(seen) + 1] = x[1] /\ Len(seen) + 1 \in 1..Len(more)
      /\ \A i \in 1..Len(more) : i # Len(seen) + 1 => i \in 1..Len(seen)
  BY <1>2, AppendProperties
<1>4. /\ x[1].id \in 1..r.sent /\ s \in named
      /\ \A j \in 1..Len(seen) : seen[j].sub = s => seen[j].id < x[1].id
  <2>1. ~ \E q \in 1..Len(o) : q < 1 /\ NamesIt(o[q], s)
    BY <1>1
  <2> QED BY <1>1, <1>2, <2>1 DEF InOrder
<1>5. ASSUME NEW i \in 1..Len(more), more[i].sub = s
      PROVE  s \in named /\ more[i].id \in 1..r.sent
  <2>1. CASE i = Len(seen) + 1
    BY <1>3, <1>4, <2>1
  <2>2. CASE i \in 1..Len(seen)
    BY <1>3, <1>5, <2>2 DEF InOrder
  <2> QED BY <1>3, <2>1, <2>2
<1>6. ASSUME NEW i \in 1..Len(more), NEW j \in 1..Len(more),
             i < j, more[i].sub = s, more[j].sub = s
      PROVE  more[i].id < more[j].id
  <2>1. i \in 1..Len(seen)
    BY <1>3, <1>6
  <2>2. CASE j = Len(seen) + 1
    BY <1>3, <1>4, <1>6, <2>1, <2>2
  <2>3. CASE j \in 1..Len(seen)
    BY <1>3, <1>6, <2>1, <2>3 DEF InOrder
  <2> QED BY <1>3, <2>2, <2>3
<1>7. ASSUME NEW i \in 1..Len(p), Completes(p[i], s)
      PROVE  /\ p[i][1].id \in 1..r.sent
             /\ \A j \in 1..Len(more) : more[j].sub = s => more[j].id < p[i][1].id
  <2>1. i + 1 \in 1..Len(o) /\ Completes(o[i + 1], s) /\ p[i] = o[i + 1] /\ 1 < i + 1
    BY <1>1, <1>7
  <2>2. /\ o[i + 1][1].id \in 1..r.sent
        /\ \A j \in 1..Len(seen) : seen[j].sub = s => seen[j].id < o[i + 1][1].id
    BY <2>1 DEF InOrder
  <2>3. x[1].id < o[i + 1][1].id
    BY <1>1, <1>2, <2>1 DEF InOrder
  <2>4. ASSUME NEW j \in 1..Len(more), more[j].sub = s
        PROVE  more[j].id < p[i][1].id
    <3>1. CASE j = Len(seen) + 1
      BY <1>3, <2>1, <2>3, <3>1
    <3>2. CASE j \in 1..Len(seen)
      BY <1>3, <2>1, <2>2, <2>4, <3>2
    <3> QED BY <1>3, <3>1, <3>2
  <2> QED BY <2>1, <2>2, <2>4
<1>8. ASSUME NEW i \in 1..Len(p), NEW q \in 1..Len(p), i < q, Completes(p[i], s), Completes(p[q], s)
      PROVE  p[i][1].id < p[q][1].id
  <2>1. i + 1 \in 1..Len(o) /\ q + 1 \in 1..Len(o) /\ i + 1 < q + 1
    BY <1>1, <1>8
  <2>2. Completes(o[i + 1], s) /\ Completes(o[q + 1], s)
    BY <1>1, <1>8
  <2>3. o[i + 1][1].id < o[q + 1][1].id
    BY <2>1, <2>2 DEF InOrder
  <2> QED BY <1>1, <2>3
<1>9. ASSUME NEW n \in 1..r.sent
      PROVE  \/ \E i \in 1..Len(more) : more[i].sub = s /\ more[i].id = n
             \/ \E i \in 1..Len(p) : Completes(p[i], s) /\ p[i][1].id = n
  <2>1. CASE \E i \in 1..Len(seen) : seen[i].sub = s /\ seen[i].id = n
    BY <1>3, <2>1
  <2>2. ASSUME NEW i \in 1..Len(o), Completes(o[i], s), o[i][1].id = n
        PROVE  \/ \E j \in 1..Len(more) : more[j].sub = s /\ more[j].id = n
               \/ \E q \in 1..Len(p) : Completes(p[q], s) /\ p[q][1].id = n
    <3>1. CASE i = 1
      BY <1>1, <1>2, <1>3, <2>2, <3>1
    <3>2. CASE i # 1
      BY <1>1, <2>2, <3>2
    <3> QED BY <3>1, <3>2
  <2> QED BY <2>1, <2>2 DEF InOrder
<1>10. InOrder(s, more, named, p, r)
  BY <1>4, <1>5, <1>6, <1>7, <1>8, <1>9 DEF InOrder
<1> QED BY <1>10 DEF p

(* The n-th event of s that the client has seen is the n-th that was sent. *)
LEMMA OrderCounts ==
    ASSUME NEW s, NEW seen \in Seq(Line), NEW named, NEW o \in Seq(HalfLine),
           NEW r, r.sent \in Nat, InOrder(s, seen, named, o, r),
           NEW i \in 1..Len(seen), seen[i].sub = s
    PROVE  seen[i].id = Cardinality({j \in {k \in 1..Len(seen) : seen[k].sub = s} : j <= i})
<1> DEFINE B == {j \in {k \in 1..Len(seen) : seen[k].sub = s} : j <= i}
           n == seen[i].id
           f == [j \in B |-> seen[j].id]
<1>1. n \in 1..r.sent /\ n \in Nat /\ Len(seen) \in Nat
  BY DEF InOrder
<1>2. ASSUME NEW j \in B PROVE seen[j].id \in 1..n
  <2>1. seen[j].id \in 1..r.sent
    BY DEF InOrder
  <2>2. j = i \/ seen[j].id < n
    <3>1. j = i \/ j < i
      BY <1>1
    <3> QED BY <3>1 DEF InOrder
  <2> QED BY <1>1, <2>1, <2>2
<1>3. ASSUME NEW j \in B, NEW k \in B, seen[j].id = seen[k].id PROVE j = k
  <2>1. seen[j].id \in Nat
    BY <1>2
  <2>2. ~(j < k) /\ ~(k < j)
    BY <1>3, <2>1 DEF InOrder
  <2> QED BY <1>1, <2>2
<1>4. ASSUME NEW m \in 1..n PROVE \E j \in B : seen[j].id = m
  <2>1. m \in 1..r.sent
    BY <1>1
  <2>2. ~ \E p \in 1..Len(o) : Completes(o[p], s) /\ o[p][1].id = m
    BY <1>1 DEF InOrder
  <2>3. PICK j \in 1..Len(seen) : seen[j].sub = s /\ seen[j].id = m
    BY <2>1, <2>2 DEF InOrder
  <2>4. ~(i < j)
    BY <1>1, <2>3 DEF InOrder
  <2>5. j \in B
    BY <1>1, <2>3, <2>4
  <2> QED BY <2>3, <2>5
<1> HIDE DEF B
<1>5. f \in Bijection(B, 1..n)
  <2>1. f \in Injection(B, 1..n)
    BY <1>2, <1>3, Fun_IsInj
  <2>2. f \in Surjection(B, 1..n)
    BY <1>2, <1>4, Fun_IsSurj
  <2> QED BY <2>1, <2>2 DEF Bijection
<1>6. ExistsBijection(1..n, B)
  <2>1. ExistsBijection(B, 1..n)
    BY <1>5 DEF ExistsBijection
  <2> QED BY <2>1, Fun_ExistsBijSymmetric
<1>7. IsFiniteSet(1..n) /\ Cardinality(1..n) = n
  <2> HIDE DEF n
  <2>1. n \in Int /\ 1 \in Int /\ n - 1 + 1 = n /\ ~(1 > n)
    BY <1>1
  <2> QED BY <2>1, FS_Interval
<1>8. Cardinality(B) = n
  BY <1>6, <1>7, FS_Bijection
<1> QED BY <1>8 DEF B

-----------------------------------------------------------------------------
(* Appending to the queue, or to what was handed out when the queue is     *)
(* empty, appends to what is seen; handing out the head of the queue does  *)
(* not change it.                                                          *)
LEMMA SeenGrows ==
    ASSUME NEW g \in Seq(Line), NEW q \in Seq(Line), NEW e \in Line
    PROVE  /\ g \o q \in Seq(Line)
           /\ g \o Append(q, e) = Append(g \o q, e)
           /\ q = <<>> => Append(g, e) \o q = Append(g \o q, e)
           /\ q # <<>> => Append(g, Head(q)) \o Tail(q) = g \o q
<1>1. g \o q \in Seq(Line) /\ Append(q, e) \in Seq(Line) /\ Append(g \o q, e) \in Seq(Line)
  BY ConcatProperties, AppendProperties
<1>2. g \o Append(q, e) = Append(g \o q, e)
  OBVIOUS
<1>3. q = <<>> => Append(g, e) \o q = Append(g \o q, e)
  OBVIOUS
<1>4. ASSUME q # <<>> PROVE Append(g, Head(q)) \o Tail(q) = g \o q
  BY <1>4
<1> QED BY <1>1, <1>2, <1>3, <1>4

LEMMA SeenParts ==
    ASSUME ConnInv, NEW c \in Conn
    PROVE  /\ client[c].got \in Seq(Line) /\ client[c].queue \in Seq(Line)
           /\ Seen(client[c]) \in Seq(Line)
           /\ \A s \in Sub : task[c][s].sent \in Nat
<1>1. client[c] \in ClientRecord /\ task[c] \in [Sub -> TaskRecord]
  BY OwnParts
<1>2. client[c].got \in Seq(Line) /\ client[c].queue \in Seq(Line)
  BY <1>1 DEF ClientRecord
<1>3. Seen(client[c]) \in Seq(Line)
  BY <1>2, ConcatProperties DEF Seen
<1>4. \A s \in Sub : task[c][s].sent \in Nat
  BY <1>1, BoundsAreCounts DEF TaskRecord
<1> QED BY <1>2, <1>3, <1>4

(* A step that touches neither the socket nor what the client has seen and *)
(* spawns no task.                                                         *)
LEMMA QuietDelivery ==
    ASSUME NEW c \in Conn, Delivers(c), out'[c] = out[c], torn[c] => torn'[c],
           client[c] = Gone => client'[c] = Gone,
           Seen(client'[c]) = Seen(client[c]), client'[c].named = client[c].named,
           \A s \in Sub : /\ task'[c][s].sent = task[c][s].sent
                          /\ Started(task'[c][s]) => Started(task[c][s])
    PROVE  Delivers(c)'
<1>1. ASSUME \A s \in Sub :
                InOrder(s, Seen(client[c]), client[c].named, out[c], task[c][s])
      PROVE  \A s \in Sub :
                InOrder(s, Seen(client'[c]), client'[c].named, out'[c], task'[c][s])
  BY <1>1, OrderKeeps
<1> QED BY <1>1 DEF Delivers

(* The other connections deliver as they did.                              *)
LEMMA DeliveryElsewhere ==
    ASSUME DeliveryInv, NEW c \in Conn, Keeps(c), Delivers(c)'
    PROVE  DeliveryInv'
<1>1. ASSUME NEW d \in Conn \ {c} PROVE Delivers(d)'
  <2>1. /\ task'[d] = task[d] /\ out'[d] = out[d]
        /\ client'[d] = client[d] /\ torn'[d] = torn[d]
    BY DEF Keeps, Elsewhere
  <2>2. Delivers(d)
    BY DEF DeliveryInv
  <2> QED BY <2>1, <2>2 DEF Delivers
<1> QED BY <1>1 DEF DeliveryInv

(* The task of the connection, as long as it writes nothing.               *)
LEMMA ConnectionDelivers ==
    ASSUME ConnInv, NEW c \in Conn, Delivers(c),
           Serve(c) \/ Top(c) \/ Select(c) \/ Handle(c) \/ ReplyFails(c)
    PROVE  Delivers(c)'
<1>1. UNCHANGED <<out, client, torn>>
  BY DEF Serve, Top, Select, Handle, ReplyFails, WriteFails
<1>2. \/ UNCHANGED task
      \/ AbortAll(c)
      \/ Unsubscribe(c)
  BY DEF Serve, Top, Select, Handle, ReplyFails, Leave, Answer, Handshake, Subscribe, Shutdown
<1>3. \A s \in Sub : /\ task'[c][s].sent = task[c][s].sent
                     /\ task'[c][s].at = task[c][s].at
  <2>1. CASE UNCHANGED task
    BY <2>1
  <2>2. CASE AbortAll(c)
    <3>1. PICK marked : marked = conn[c].known
      OBVIOUS
    <3>2. task' = [task EXCEPT ![c] =
             [s \in Sub |-> [task[c][s] EXCEPT !.aborted = @ \/ s \in marked]]]
      BY <2>2, <3>1 DEF AbortAll
    <3>3. ConnTypes
      BY DEF ConnInv
    <3> QED BY <3>2, <3>3, AbortedTasks
  <2>3. CASE Unsubscribe(c)
    <3>1. PICK marked : marked = {conn[c].call.sub} \cap conn[c].known
      OBVIOUS
    <3>2. \A s : s \in marked <=> s = conn[c].call.sub /\ s \in conn[c].known
      BY <3>1
    <3>3. task' = [task EXCEPT ![c] =
             [s \in Sub |-> [task[c][s] EXCEPT !.aborted = @ \/ s \in marked]]]
      BY <2>3, <3>2 DEF Unsubscribe
    <3>4. ConnTypes
      BY DEF ConnInv
    <3> QED BY <3>3, <3>4, AbortedTasks
  <2> QED BY <1>2, <2>1, <2>2, <2>3
<1> QED BY <1>1, <1>3, QuietDelivery DEF Started

(* The answer is written, first one half and then the other; with the      *)
(* second the task of the subscription it names is spawned.                *)
LEMMA ReplyHeadDelivers ==
    ASSUME ConnInv, NEW c \in Conn, Delivers(c), ReplyHead(c)
    PROVE  Delivers(c)'
<1>1. /\ out[c] \in Seq(HalfLine) /\ out \in [Conn -> Seq(HalfLine)]
      /\ conn[c].reply \in Line /\ UNCHANGED <<task, client, torn>>
  BY OwnParts DEF ReplyHead, ConnRecord, ConnInv, ConnTypes
<1>2. PICK x \in HalfLine : x = <<conn[c].reply, 1>>
  BY <1>1 DEF HalfLine
<1>3. out'[c] = Append(out[c], x)
  BY <1>1, <1>2 DEF ReplyHead, WriteHead
<1>4. ASSUME NEW s \in Sub, InOrder(s, Seen(client[c]), client[c].named, out[c], task[c][s])
      PROVE  InOrder(s, Seen(client[c]), client[c].named, out'[c], task[c][s])
  <2>1. ~Completes(x, s)
    BY <1>2 DEF Completes
  <2> QED BY <1>1, <1>3, <1>4, <2>1, SeenParts, OrderIgnores
<1> QED BY <1>1, <1>4 DEF Delivers

LEMMA ReplyTailDelivers ==
    ASSUME ConnInv, NEW c \in Conn, Delivers(c), ReplyTail(c)
    PROVE  Delivers(c)'
<1>1. /\ out[c] \in Seq(HalfLine) /\ out \in [Conn -> Seq(HalfLine)]
      /\ task[c] \in [Sub -> TaskRecord] /\ task \in [Conn -> [Sub -> TaskRecord]]
      /\ conn[c].reply \in Line /\ conn[c].phase = "write" /\ UNCHANGED <<client, torn>>
  BY OwnParts DEF ReplyTail, ConnRecord, ConnInv, ConnTypes
<1>2. conn[c].reply.kind = "answer"
  BY <1>1, OwnParts DEF Fine, CallsFine
<1>3. PICK x \in HalfLine : x = <<conn[c].reply, 2>>
  BY <1>1 DEF HalfLine
<1>4. out'[c] = Append(out[c], x)
  BY <1>1, <1>3 DEF ReplyTail, WriteTail
<1>5. ASSUME NEW s \in Sub
      PROVE  /\ task'[c][s].sent = task[c][s].sent
             /\ Started(task'[c][s]) => Started(task[c][s]) \/ NamesIt(x, s)
  <2>1. CASE task' = Spawned(c, conn[c].reply.sub)
    <3>1. /\ task'[c][s].sent = task[c][s].sent
          /\ s # conn[c].reply.sub => task'[c][s] = task[c][s]
      BY <1>1, <2>1 DEF Spawned, TaskRecord
    <3>2. s = conn[c].reply.sub => NamesIt(x, s)
      BY <1>2, <1>3 DEF NamesIt
    <3> QED BY <3>1, <3>2
  <2>2. CASE AbortAll(c)
    <3>1. PICK marked : marked = conn[c].known
      OBVIOUS
    <3>2. task' = [task EXCEPT ![c] =
             [r \in Sub |-> [task[c][r] EXCEPT !.aborted = @ \/ r \in marked]]]
      BY <2>2, <3>1 DEF AbortAll
    <3>3. ConnTypes
      BY DEF ConnInv
    <3>4. /\ task'[c][s].sent = task[c][s].sent
          /\ task'[c][s].at = task[c][s].at
      BY <3>2, <3>3, AbortedTasks
    <3> QED BY <3>4 DEF Started
  <2>3. CASE UNCHANGED task
    BY <2>3
  <2> QED BY <2>1, <2>2, <2>3 DEF ReplyTail
<1>6. ASSUME NEW s \in Sub, InOrder(s, Seen(client[c]), client[c].named, out[c], task[c][s])
      PROVE  InOrder(s, Seen(client[c]), client[c].named, out'[c], task'[c][s])
  <2>1. ~Completes(x, s)
    BY <1>2, <1>3 DEF Completes
  <2> QED BY <1>1, <1>4, <1>5, <1>6, <2>1, SeenParts, OrderIgnores
<1> QED BY <1>1, <1>6 DEF Delivers

(* The task of a subscription writes an event.                             *)
LEMMA NotifyHeadDelivers ==
    ASSUME ConnInv, NEW c \in Conn, NEW s \in Sub, Delivers(c), NotifyHead(c, s)
    PROVE  Delivers(c)'
<1>1. /\ out[c] \in Seq(HalfLine) /\ out \in [Conn -> Seq(HalfLine)]
      /\ task[c][s].at = "lock" /\ UNCHANGED <<client, torn>>
  BY OwnParts DEF NotifyHead, ConnInv, ConnTypes
<1>2. PICK x \in HalfLine : x = <<Event(c, s), 1>>
  BY EventIsLine DEF HalfLine
<1>3. out'[c] = Append(out[c], x)
  BY <1>1, <1>2 DEF NotifyHead, WriteHead
<1>4. PICK t \in [Sub -> TaskRecord] :
         /\ task' = [task EXCEPT ![c] = t]
         /\ t[s].at = "write" /\ t[s].sent = task[c][s].sent
         /\ \A r \in Sub \ {s} : t[r] = task[c][r]
  <2>1. "write" \in TaskAt /\ task' = At(c, s, "write")
    BY DEF TaskAt, NotifyHead
  <2> QED BY <2>1, TaskMoves
<1>5. task'[c] = t
  BY <1>4 DEF ConnInv, ConnTypes
<1>6. ASSUME NEW r \in Sub, InOrder(r, Seen(client[c]), client[c].named, out[c], task[c][r])
      PROVE  InOrder(r, Seen(client[c]), client[c].named, out'[c], task'[c][r])
  <2>1. ~Completes(x, r)
    BY <1>2 DEF Completes
  <2>2. t[r].sent = task[c][r].sent /\ (Started(t[r]) => Started(task[c][r]))
    BY <1>1, <1>4 DEF Started
  <2> QED BY <1>1, <1>3, <1>5, <1>6, <2>1, <2>2, SeenParts, OrderIgnores
<1> QED BY <1>1, <1>6 DEF Delivers

LEMMA NotifyTailDelivers ==
    ASSUME ConnInv, NEW c \in Conn, NEW s \in Sub, Delivers(c), NotifyTail(c, s)
    PROVE  Delivers(c)'
<1>1. /\ out[c] \in Seq(HalfLine) /\ out \in [Conn -> Seq(HalfLine)]
      /\ task[c] \in [Sub -> TaskRecord] /\ task \in [Conn -> [Sub -> TaskRecord]]
      /\ task[c][s].at = "write" /\ UNCHANGED <<client, torn>>
  BY OwnParts DEF NotifyTail, ConnInv, ConnTypes
<1>2. PICK x \in HalfLine : x = <<Event(c, s), 2>>
  BY EventIsLine DEF HalfLine
<1>3. out'[c] = Append(out[c], x)
  BY <1>1, <1>2 DEF NotifyTail, WriteTail
<1>4. /\ task'[c][s].sent = task[c][s].sent + 1
      /\ \A r \in Sub \ {s} : task'[c][r] = task[c][r]
  BY <1>1 DEF NotifyTail, TaskRecord
<1>5. /\ Completes(x, s) /\ x[1].id = task[c][s].sent + 1
      /\ \A r \in Sub \ {s} : ~Completes(x, r)
  BY <1>2 DEF Completes, Event
<1>6. ASSUME NEW r \in Sub, InOrder(r, Seen(client[c]), client[c].named, out[c], task[c][r])
      PROVE  InOrder(r, Seen(client[c]), client[c].named, out'[c], task'[c][r])
  <2>1. CASE r = s
    <3>1. Started(task[c][s])
      BY <1>1 DEF Started
    <3> QED BY <1>1, <1>3, <1>4, <1>5, <1>6, <2>1, <3>1, SeenParts, OrderExtends
  <2>2. CASE r # s
    <3>1. task'[c][r] = task[c][r] /\ ~Completes(x, r)
      BY <1>4, <1>5, <2>2
    <3> QED BY <1>1, <1>3, <1>6, <3>1, SeenParts, OrderIgnores
  <2> QED BY <2>1, <2>2
<1> QED BY <1>1, <1>6 DEF Delivers

(* The task moves on without writing, or ends.                             *)
LEMMA TaskDelivers ==
    ASSUME ConnInv, NEW c \in Conn, NEW s \in Sub, Delivers(c),
           StreamNext(c, s) \/ NotifyFails(c, s) \/ CloseWriter(c, s) \/ Cancel(c, s)
    PROVE  Delivers(c)'
<1>1. UNCHANGED <<out, client>>
  BY DEF StreamNext, NotifyFails, WriteFails, CloseWriter, Cancel
<1>2. torn[c] => torn'[c]
  BY DEF StreamNext, NotifyFails, CloseWriter, Cancel, ConnInv, ConnTypes
<1>3. PICK place \in TaskAt :
         /\ task' = At(c, s, place)
         /\ place = "end" \/ (place \in {"lock", "fail"} /\ task[c][s].at = "next")
  BY DEF StreamNext, NotifyFails, CloseWriter, Cancel, TaskAt
<1>4. PICK t \in [Sub -> TaskRecord] :
         /\ task' = [task EXCEPT ![c] = t]
         /\ t[s].at = place /\ t[s].sent = task[c][s].sent
         /\ \A r \in Sub \ {s} : t[r] = task[c][r]
  BY <1>3, TaskMoves
<1>5. task'[c] = t
  BY <1>4 DEF ConnInv, ConnTypes
<1>6. \A r \in Sub : /\ t[r].sent = task[c][r].sent
                     /\ Started(t[r]) => Started(task[c][r])
  BY <1>3, <1>4 DEF Started
<1> QED BY <1>1, <1>2, <1>5, <1>6, QuietDelivery

(* The client connects, calls and pops its queue: it sees no more than it  *)
(* did.                                                                    *)
LEMMA ClientDelivers ==
    ASSUME ConnInv, NEW c \in Conn, Delivers(c),
           Accept(c) \/ SendCall(c) \/ PopNotification(c)
    PROVE  Delivers(c)'
<1>1. UNCHANGED <<task, out, torn>>
  BY DEF Accept, SendCall, PopNotification
<1>2. client \in [Conn -> ClientRecord] /\ client[c] \in ClientRecord
  BY OwnParts DEF ConnInv, ConnTypes
<1>3. client[c] # Gone
  <2>1. Gone.at = "gone"
    BY DEF Gone, NewClient
  <2>2. CASE Accept(c)
    <3>1. client[c].at = "off"
      BY <2>2, OwnParts DEF Fine, Accept
    <3> QED BY <2>1, <3>1
  <2>3. CASE SendCall(c) \/ PopNotification(c)
    <3>1. client[c].at = "free"
      BY <2>3 DEF SendCall, PopNotification
    <3> QED BY <2>1, <3>1
  <2> QED BY <2>2, <2>3
<1>4. Seen(client'[c]) = Seen(client[c]) /\ client'[c].named = client[c].named
  <2>1. CASE Accept(c) \/ SendCall(c)
    <3>1. /\ client'[c].got = client[c].got /\ client'[c].queue = client[c].queue
          /\ client'[c].named = client[c].named
      BY <1>2, <2>1 DEF Accept, SendCall, ClientRecord
    <3> QED BY <3>1 DEF Seen
  <2>2. CASE PopNotification(c)
    <3>1. /\ client'[c].got = Append(client[c].got, Head(client[c].queue))
          /\ client'[c].queue = Tail(client[c].queue)
          /\ client'[c].named = client[c].named /\ client[c].queue # <<>>
      BY <1>2, <2>2 DEF PopNotification, ClientRecord
    <3>2. Append(client[c].got, Head(client[c].queue)) \o Tail(client[c].queue)
             = client[c].got \o client[c].queue
      <4>1. Head(client[c].queue) \in Line
        BY <3>1, SeenParts, HeadTailProperties
      <4> QED BY <3>1, <4>1, SeenParts, SeenGrows
    <3> QED BY <3>1, <3>2 DEF Seen
  <2> QED BY <2>1, <2>2
<1> QED BY <1>1, <1>3, <1>4, QuietDelivery

(* The client takes half a line.  As long as nothing was torn, the second  *)
(* half of an event follows its first half and the event is seen.          *)
LEMMA ReadDelivers ==
    ASSUME ConnInv, ConnInv', NEW c \in Conn, Delivers(c), ReadMessage(c)
    PROVE  Delivers(c)'
<1> SUFFICES ASSUME ~torn[c] PROVE Delivers(c)'
  BY DEF ReadMessage, Delivers
<1>1. /\ out[c] \in Seq(HalfLine) /\ out[c] # <<>> /\ out'[c] = Tail(out[c])
      /\ client[c] \in ClientRecord /\ client \in [Conn -> ClientRecord]
      /\ client[c].at \in {"free", "calling"}
      /\ client[c].at = "free" => client[c].queue = <<>>
      /\ UNCHANGED <<task, torn>>
  BY OwnParts DEF ReadMessage, ConnInv, ConnTypes
<1>2. PICK half \in HalfLine : half = Head(out[c])
  BY <1>1, HeadTailProperties
<1>3. half[1] \in Line /\ half[2] \in {1, 2}
  BY DEF HalfLine
<1>4. \A s \in Sub : InOrder(s, Seen(client[c]), client[c].named, out[c], task[c][s])
  <2>1. Gone.at = "gone"
    BY DEF Gone, NewClient
  <2> QED BY <1>1, <2>1 DEF Delivers
<1>5. ~client'[c].garbled
  <2>1. Fine(conn'[c], task'[c], out'[c], client'[c], torn'[c])
    BY DEF ConnInv, ConnFine
  <2> QED BY <1>1, <2>1 DEF Fine
<1> DEFINE k == client[c]
           heard == Understood(k, half[1])
<1>6. /\ half[2] = 1 => /\ client'[c].got = k.got /\ client'[c].queue = k.queue
                        /\ client'[c].named = k.named
      /\ half[2] = 2 => /\ client'[c].got = heard.got /\ client'[c].queue = heard.queue
                        /\ client'[c].named = heard.named
  <2> DEFINE line == Append(k.half, half)
             held == [k EXCEPT !.half = line]
             whole == [heard EXCEPT !.half = <<>>]
             spoilt == [k EXCEPT !.half = <<>>, !.garbled = TRUE, !.at = "free"]
  <2>1. client'[c] = IF half[2] = 1 THEN held
                     ELSE IF line = <<<<half[1], 1>>, half>> THEN whole ELSE spoilt
    BY <1>1, <1>2 DEF ReadMessage
  <2>2. held.got = k.got /\ held.queue = k.queue /\ held.named = k.named
    BY <1>1 DEF ClientRecord
  <2>3. spoilt.garbled
    BY <1>1 DEF ClientRecord
  <2>4. whole.got = heard.got /\ whole.queue = heard.queue /\ whole.named = heard.named
    <3>1. PICK h \in ClientRecord : h = heard
      BY <1>1, <1>3, UnderstoodFacts
    <3>2. whole = [h EXCEPT !.half = <<>>]
      BY <3>1
    <3> HIDE DEF heard, whole
    <3> QED BY <3>1, <3>2 DEF ClientRecord
  <2> HIDE DEF held, whole, spoilt, line
  <2> QED BY <1>3, <1>5, <2>1, <2>2, <2>3, <2>4
<1> HIDE DEF heard
<1>7. k.got \in Seq(Line) /\ k.queue \in Seq(Line) /\ Seen(k) \in Seq(Line)
  BY SeenParts
<1>8. ASSUME half[2] = 2, half[1].kind = "event"
      PROVE  Seen(client'[c]) = Append(Seen(k), half[1]) /\ client'[c].named = k.named
  <2>1. CASE k.at = "calling"
    <3>1. heard.got = k.got /\ heard.queue = Append(k.queue, half[1]) /\ heard.named = k.named
      BY <1>1, <1>8, <2>1 DEF heard, Understood, ClientRecord
    <3>2. client'[c].got = k.got /\ client'[c].queue = Append(k.queue, half[1])
      BY <1>6, <1>8, <3>1
    <3>3. k.got \o Append(k.queue, half[1]) = Append(k.got \o k.queue, half[1])
      BY <1>3, <1>7, SeenGrows
    <3>4. client'[c].named = k.named
      BY <1>6, <1>8, <3>1
    <3> QED BY <3>2, <3>3, <3>4 DEF Seen
  <2>2. CASE k.at # "calling"
    <3>1. heard.got = Append(k.got, half[1]) /\ heard.queue = k.queue /\ heard.named = k.named
      BY <1>1, <1>8, <2>2 DEF heard, Understood, ClientRecord
    <3>2. k.queue = <<>>
      BY <1>1, <2>2
    <3>3. client'[c].got = Append(k.got, half[1]) /\ client'[c].queue = k.queue
      BY <1>6, <1>8, <3>1
    <3>4. Append(k.got, half[1]) \o k.queue = Append(k.got \o k.queue, half[1])
      BY <1>3, <1>7, <3>2, SeenGrows
    <3>5. client'[c].named = k.named
      BY <1>6, <1>8, <3>1
    <3> QED BY <3>3, <3>4, <3>5 DEF Seen
  <2> QED BY <2>1, <2>2
<1>9. ASSUME ~(half[2] = 2 /\ half[1].kind = "event")
      PROVE  /\ Seen(client'[c]) = Seen(k) /\ k.named \subseteq client'[c].named
             /\ \A s \in Sub : NamesIt(half, s) => s \in client'[c].named
  <2>1. CASE half[2] = 1
    <3>1. /\ client'[c].got = k.got /\ client'[c].queue = k.queue
          /\ client'[c].named = k.named
      BY <1>6, <2>1
    <3>2. \A s \in Sub : ~NamesIt(half, s)
      BY <2>1 DEF NamesIt
    <3> QED BY <3>1, <3>2 DEF Seen
  <2>2. CASE half[2] = 2
    <3>1. /\ heard.got = k.got /\ heard.queue = k.queue
          /\ heard.named = k.named \cup ({half[1].sub} \ {None})
      BY <1>1, <1>9, <2>2 DEF heard, Understood, ClientRecord
    <3>2. \A s \in Sub : NamesIt(half, s) => s \in heard.named
      BY <3>1, HolderFacts DEF NamesIt
    <3> QED BY <1>6, <2>2, <3>1, <3>2 DEF Seen
  <2> QED BY <1>3, <2>1, <2>2
<1>10. ASSUME NEW s \in Sub
       PROVE  InOrder(s, Seen(client'[c]), client'[c].named, out'[c], task'[c][s])
  <2>1. InOrder(s, Seen(k), k.named, out[c], task[c][s]) /\ task[c][s].sent \in Nat
    BY <1>4, SeenParts
  <2>2. PICK more \in Seq(Line) : more = Seen(client'[c])
    BY <1>3, <1>7, <1>8, <1>9, AppendProperties
  <2>3. CASE half[2] = 2 /\ half[1].kind = "event"
    <3>1. more = Append(Seen(k), half[1]) /\ client'[c].named = k.named
      BY <1>8, <2>2, <2>3
    <3>2. CASE half[1].sub = s
      <4>1. Completes(Head(out[c]), s) /\ more = Append(Seen(k), Head(out[c])[1])
        BY <1>2, <2>3, <3>1, <3>2 DEF Completes
      <4>2. InOrder(s, more, k.named, Tail(out[c]), task[c][s])
        BY <1>1, <1>7, <2>1, <4>1, OrderDelivers
      <4> QED BY <1>1, <2>2, <3>1, <4>2
    <3>3. CASE half[1].sub # s
      <4>1. ~Completes(Head(out[c]), s) /\ ~NamesIt(Head(out[c]), s)
        BY <1>2, <2>3, <3>3 DEF Completes, NamesIt
      <4>2. InOrder(s, more, k.named, Tail(out[c]), task[c][s])
        BY <1>1, <1>3, <1>7, <2>1, <3>1, <3>3, <4>1, OrderPasses
      <4> QED BY <1>1, <2>2, <3>1, <4>2
    <3> QED BY <3>2, <3>3
  <2>4. CASE ~(half[2] = 2 /\ half[1].kind = "event")
    <3>1. ~Completes(Head(out[c]), s)
      BY <1>2, <2>4 DEF Completes
    <3>2. /\ more = Seen(k) /\ k.named \subseteq client'[c].named
          /\ NamesIt(Head(out[c]), s) => s \in client'[c].named
      BY <1>2, <1>9, <2>2, <2>4
    <3>3. InOrder(s, more, client'[c].named, Tail(out[c]), task[c][s])
      BY <1>1, <1>7, <2>1, <3>1, <3>2, OrderPasses
    <3> QED BY <1>1, <2>2, <3>3
  <2> QED BY <2>3, <2>4
<1> QED BY <1>10 DEF Delivers

(* Every step keeps the events in order.                                   *)
LEMMA DeliveryStep ==
    ASSUME ConnInv, ConnInv', DeliveryInv, [ConnNext]_connVars
    PROVE  DeliveryInv'
<1>1. CASE UNCHANGED connVars \/ BeginDrain
  BY <1>1 DEF connVars, BeginDrain, DeliveryInv, Delivers
<1>2. CASE Finish
  <2> SUFFICES ASSUME NEW c \in Conn PROVE Delivers(c)'
    BY DEF DeliveryInv
  <2>1. Delivers(c) /\ UNCHANGED <<out, client>> /\ (torn[c] => torn'[c])
    BY <1>2 DEF DeliveryInv, Finish
  <2>2. ASSUME NEW s \in Sub
        PROVE  task'[c][s].sent = task[c][s].sent /\ ~(task'[c][s].at \in {"next", "lock", "write", "fail"})
    <3>1. task[c][s] \in TaskRecord
      BY OwnParts
    <3>2. task'[c][s] = [task[c][s] EXCEPT !.at = "end"]
      BY <1>2 DEF Finish
    <3> QED BY <3>1, <3>2 DEF TaskRecord
  <2> QED BY <2>1, <2>2, QuietDelivery DEF Started
<1>3. ASSUME NEW c \in Conn, Accept(c) \/ ConnStep(c) \/ SendCall(c) \/ ClientRead(c) \/ HangUp(c)
      PROVE  DeliveryInv'
  <2>1. Delivers(c)
    BY DEF DeliveryInv
  <2>2. Keeps(c)
    BY <1>3, AcceptKeeps, ServeKeeps, TopKeeps, SelectKeeps, HandleKeeps, ReplyHeadKeeps,
       ReplyTailKeeps, ReplyFailsKeeps, SendCallKeeps, ReadMessageKeeps, PopKeeps, LeavingKeeps
       DEF ConnStep, ClientRead
  <2>3. CASE SeeClosed(c) \/ HangUp(c)
    <3>1. client'[c] = Gone
      BY <2>3 DEF SeeClosed, HangUp, ConnInv, ConnTypes
    <3>2. Delivers(c)'
      BY <3>1 DEF Delivers
    <3> QED BY <2>2, <3>2, DeliveryElsewhere
  <2>4. CASE ~(SeeClosed(c) \/ HangUp(c))
    <3>1. Delivers(c)'
      BY <1>3, <2>1, <2>4, ClientDelivers, ConnectionDelivers, ReplyHeadDelivers,
         ReplyTailDelivers, ReadDelivers DEF ConnStep, ClientRead
    <3> QED BY <2>2, <3>1, DeliveryElsewhere
  <2> QED BY <2>3, <2>4
<1>4. ASSUME NEW c \in Conn, NEW s \in Sub, StreamNext(c, s) \/ TaskWrite(c, s) \/ Cancel(c, s)
      PROVE  DeliveryInv'
  <2>1. Delivers(c)
    BY DEF DeliveryInv
  <2>2. Keeps(c)
    BY <1>4, StreamNextKeeps, NotifyHeadKeeps, NotifyTailKeeps, NotifyFailsKeeps,
       CloseWriterKeeps, CancelKeeps DEF TaskWrite
  <2>3. Delivers(c)'
    BY <1>4, <2>1, NotifyHeadDelivers, NotifyTailDelivers, TaskDelivers DEF TaskWrite
  <2> QED BY <2>2, <2>3, DeliveryElsewhere
<1> QED BY <1>1, <1>2, <1>3, <1>4 DEF ConnNext

(* Nothing was sent and nothing seen at first.                             *)
LEMMA DeliveryInit == ConnInit => DeliveryInv
<1> SUFFICES ASSUME ConnInit, NEW c \in Conn, NEW s \in Sub
             PROVE  InOrder(s, Seen(client[c]), client[c].named, out[c], task[c][s])
  BY DEF DeliveryInv, Delivers
<1>1. out[c] = <<>> /\ client[c].got = <<>> /\ client[c].queue = <<>>
  BY DEF ConnInit, NewClient
<1>2. task[c][s].sent = 0 /\ task[c][s].at = "none"
  BY DEF ConnInit
<1>3. Seen(client[c]) = <<>>
  BY <1>1 DEF Seen
<1>4. 1..Len(<<>>) = {} /\ 1..0 = {} /\ ~Started(task[c][s])
  BY <1>2 DEF Started
<1> QED BY <1>1, <1>2, <1>3, <1>4 DEF InOrder

(* A subscriber that was told of its subscription gets its events one by   *)
(* one in the order of the stream, whether they came before the answer of  *)
(* a call or after it (LocalClient's queue of notifications).              *)
THEOREM EventsComeInOrder == ConnSpec => []EventsInOrder
<1>1. ASSUME ConnInv, DeliveryInv PROVE EventsInOrder
  <2>1. ASSUME NEW c \in Conn, NEW s \in Sub, ~torn[c]
        PROVE  LET seen == client[c].got \o client[c].queue
                   mine == {i \in DOMAIN seen : seen[i].sub = s}
               IN  /\ mine # {} => s \in client[c].named
                   /\ \A i \in mine : seen[i].id = Cardinality({j \in mine : j <= i})
    <3> DEFINE seen == client[c].got \o client[c].queue
               mine == {i \in DOMAIN seen : seen[i].sub = s}
    <3>1. seen = Seen(client[c]) /\ seen \in Seq(Line)
      BY <1>1, SeenParts DEF Seen
    <3>2. CASE client[c] = Gone
      <4>1. client[c].got = <<>> /\ client[c].queue = <<>>
        BY <3>2 DEF Gone, NewClient
      <4>2. DOMAIN seen = {}
        BY <4>1
      <4> HIDE DEF seen
      <4>3. mine = {}
        BY <4>2
      <4> HIDE DEF mine
      <4>4. /\ mine # {} => s \in client[c].named
            /\ \A i \in mine : seen[i].id = Cardinality({j \in mine : j <= i})
        BY <4>3
      <4> QED BY <4>4 DEF mine, seen
    <3>3. CASE client[c] # Gone
      <4>1. InOrder(s, seen, client[c].named, out[c], task[c][s])
        BY <1>1, <2>1, <3>1, <3>3 DEF DeliveryInv, Delivers
      <4>2. out[c] \in Seq(HalfLine) /\ task[c][s].sent \in Nat
        BY <1>1, OwnParts, SeenParts
      <4> HIDE DEF seen
      <4>3. mine = {k \in 1..Len(seen) : seen[k].sub = s}
        BY <3>1
      <4>4. mine # {} => s \in client[c].named
        BY <4>1, <4>3 DEF InOrder
      <4>5. \A i \in 1..Len(seen) : seen[i].sub = s => seen[i].id
               = Cardinality({j \in {k \in 1..Len(seen) : seen[k].sub = s} : j <= i})
        BY <3>1, <4>1, <4>2, OrderCounts
      <4>6. \A i \in mine : seen[i].id = Cardinality({j \in mine : j <= i})
        BY <4>3, <4>5
      <4> QED BY <4>4, <4>6 DEF seen
    <3> QED BY <3>2, <3>3
  <2> QED BY <2>1 DEF EventsInOrder
<1>2. ConnSpec => []DeliveryInv
  BY ConnectionsKeepTheInvariant, DeliveryInit, DeliveryStep, PTL DEF ConnSpec
<1> QED BY <1>1, <1>2, ConnectionsKeepTheInvariant, PTL
=============================================================================
