---------------------------- MODULE Connections ----------------------------
(***************************************************************************)
(* The daemon's connections: the accept loop of LocalServer::run, the task *)
(* that serves each connection, the tasks of its subscriptions, the mutex  *)
(* they share for writing to it, the shutdown flag that all of them watch, *)
(* and LocalClient at the other end of the stream.                         *)
(*                                                                         *)
(* A line is written in two halves, since write_all may stop between them  *)
(* when the socket's buffer is full; a task that is aborted there has      *)
(* written half a line.                                                    *)
(***************************************************************************)
EXTENDS Naturals, Sequences, FiniteSets

CONSTANTS
    Conn,       \* connections
    Menu,       \* the calls each connection's client makes
    MaxCalls,   \* bound: calls of each client
    MaxSubs,    \* bound: subscriptions of one connection
    MaxEvents,  \* bound: events of one subscription
    Capacity    \* half lines the socket holds

Kinds == {"handshake", "routed", "oversized", "subscribe", "unsubscribe", "shutdown"}

ASSUME CallsAreKnown == Menu \in [Conn -> SUBSET Kinds]
ASSUME CallsAreBounded == MaxCalls \in [Conn -> Nat]
ASSUME BoundsAreCounts == MaxSubs \in Nat /\ MaxEvents \in Nat
ASSUME SocketHoldsSomething == Capacity \in Nat \ {0}

VARIABLES
    run,     \* LocalServer::run: accepting, draining, or the process is gone
    flag,    \* the value of the shutdown watch channel
    conn,    \* the task of each connection and the state it owns
    task,    \* the task of each of its subscriptions
    inbox,   \* requests sent and not yet read
    out,     \* half lines written and not yet read
    client,  \* LocalClient
    torn     \* history: a task was aborted between two halves of a line

connVars == <<run, flag, conn, task, inbox, out, client, torn>>

Sub == 1..MaxSubs  \* "subscription-n"
None == 0
Server == 0        \* the connection's task as the holder of the mutex
Free == MaxSubs + 1

Call == [kind : Kinds, id : Nat, sub : Sub \cup {None}]

(* An answer carries the id of its call, or none when the request could    *)
(* not be read; an event its subscription and its place in the stream.     *)
Line == [kind : {"answer"}, id : Nat, sub : Sub \cup {None}]
            \cup [kind : {"event"}, id : Nat, sub : Sub]

Phase == {"off", "spawned", "top", "select", "handle", "reply", "write", "done"}
TaskAt == {"none", "next", "lock", "write", "fail", "end"}
ClientAt == {"off", "free", "calling", "gone"}

NoAnswer == [kind |-> "answer", id |-> None, sub |-> None]
NoCall == [kind |-> "routed", id |-> None, sub |-> None]

(* The mutex is held only by a task that is writing a line.                *)
ConnTypeOK ==
    /\ run \in {"accept", "drain", "down"}
    /\ flag \in BOOLEAN
    /\ \A c \in Conn :
          /\ conn[c] \in [phase : Phase, fresh : BOOLEAN, handshaken : BOOLEAN,
                          call : Call, reply : Line, known : SUBSET Sub,
                          stop : BOOLEAN, next : Nat, holder : Sub \cup {Server, Free},
                          writable : BOOLEAN]
          /\ task[c] \in [Sub -> [at : TaskAt, aborted : BOOLEAN, sent : 0..MaxEvents]]
          /\ inbox[c] \in Seq(Call)
          /\ Len(out[c]) <= Capacity
          /\ \A i \in DOMAIN out[c] : out[c][i] \in Line \X {1, 2}
          /\ client[c].at \in ClientAt
          /\ client[c].named \subseteq Sub
          /\ conn[c].holder = Server => conn[c].phase = "write"
          /\ \A s \in Sub : conn[c].holder = s => task[c][s].at = "write"
    /\ torn \in [Conn -> BOOLEAN]

NewClient ==
    [at |-> "off", asked |-> 0, queue |-> <<>>, half |-> <<>>, named |-> {},
     got |-> <<>>, answered |-> {}, garbled |-> FALSE]

ConnInit ==
    /\ run = "accept"
    /\ flag = FALSE
    /\ conn = [c \in Conn |->
          [phase |-> "off", fresh |-> FALSE, handshaken |-> FALSE, call |-> NoCall,
           reply |-> NoAnswer, stop |-> FALSE, known |-> {}, next |-> 1,
           holder |-> Free, writable |-> TRUE]]
    /\ task = [c \in Conn |->
          [s \in Sub |-> [at |-> "none", aborted |-> FALSE, sent |-> 0]]]
    /\ inbox = [c \in Conn |-> <<>>]
    /\ out = [c \in Conn |-> <<>>]
    /\ client = [c \in Conn |-> NewClient]
    /\ torn = [c \in Conn |-> FALSE]

-----------------------------------------------------------------------------
(* The accept loop.                                                        *)

(* A client connects and its connection is accepted and spawned; select!   *)
(* may choose it although the flag is already raised.                      *)
Accept(c) ==
    /\ run = "accept"
    /\ conn[c].phase = "off"
    /\ conn' = [conn EXCEPT ![c].phase = "spawned"]
    /\ client' = [client EXCEPT ![c].at = "free"]
    /\ UNCHANGED <<run, flag, task, inbox, out, torn>>

(* shutdown_tx.send(true): every receiver there is has an unseen value.    *)
Raised(k) == [c \in Conn |->
    [k[c] EXCEPT !.fresh = @ \/ k[c].phase \notin {"off", "spawned", "done"}]]

(* The loop ends: the flag has been raised, a signal came or accept failed;*)
(* the loop raises the flag itself.                                        *)
BeginDrain ==
    /\ run = "accept"
    /\ run' = "drain"
    /\ flag' = TRUE
    /\ conn' = Raised(conn)
    /\ UNCHANGED <<task, inbox, out, client, torn>>

(* Mutant: shuts the engine down without joining the connections.          *)
FinishUnjoined ==
    /\ run = "drain"
    /\ run' = "down"
    /\ task' = [c \in Conn |-> [s \in Sub |-> [task[c][s] EXCEPT !.at = "end"]]]
    /\ conn' = [c \in Conn |-> [conn[c] EXCEPT !.holder = Free]]
    /\ torn' = [c \in Conn |-> torn[c] \/ conn[c].holder # Free]
    /\ UNCHANGED <<flag, inbox, out, client>>

(* Every connection has been joined: the engine is shut down and the       *)
(* process ends, with it the subscriptions that are still running.         *)
Finish ==
    /\ run = "drain"
    /\ \A c \in Conn : conn[c].phase \in {"off", "done"}
    /\ run' = "down"
    /\ task' = [c \in Conn |-> [s \in Sub |-> [task[c][s] EXCEPT !.at = "end"]]]
    /\ conn' = [c \in Conn |-> [conn[c] EXCEPT !.holder = Free]]
    /\ torn' = [c \in Conn |-> torn[c] \/ conn[c].holder # Free]
    /\ UNCHANGED <<flag, inbox, out, client>>

-----------------------------------------------------------------------------
(* Writing a line under the connection's mutex.                            *)

HasRoom(c) == Len(out[c]) < Capacity
Broken(c) == client[c].at = "gone" \/ ~conn[c].writable

(* Mutant: writes without taking the mutex.                                *)
WriteHeadUnlocked(c, line) ==
    /\ ~Broken(c) /\ HasRoom(c)
    /\ out' = [out EXCEPT ![c] = Append(@, <<line, 1>>)]

WriteHead(c, line) ==
    /\ conn[c].holder = Free
    /\ ~Broken(c) /\ HasRoom(c)
    /\ out' = [out EXCEPT ![c] = Append(@, <<line, 1>>)]

WriteTail(c, who, line) ==
    /\ conn[c].holder = who
    /\ ~Broken(c) /\ HasRoom(c)
    /\ out' = [out EXCEPT ![c] = Append(@, <<line, 2>>)]

(* The write returns an error, which may be in the middle of the line.     *)
WriteFails(c, who) ==
    /\ conn[c].holder \in {Free, who}
    /\ Broken(c)
    /\ UNCHANGED out

Released(c, who) == IF conn[c].holder = who THEN Free ELSE conn[c].holder

-----------------------------------------------------------------------------
(* The task of a connection.                                               *)

(* The first poll of serve subscribes to the flag as it then is.           *)
Serve(c) ==
    /\ conn[c].phase = "spawned"
    /\ conn' = [conn EXCEPT ![c].phase = "top", ![c].fresh = FALSE]
    /\ UNCHANGED <<run, flag, task, inbox, out, client, torn>>

(* After the loop the subscriptions' tasks are aborted.                    *)
AbortAll(c) ==
    task' = [task EXCEPT ![c] =
        [s \in Sub |-> [task[c][s] EXCEPT !.aborted = @ \/ s \in conn[c].known]]]

Leave(c) ==
    /\ conn' = [conn EXCEPT ![c].phase = "done"]
    /\ AbortAll(c)

(* Mutant: waits for the flag to change without looking at it first.       *)
TopUnchecked(c) ==
    /\ conn[c].phase = "top"
    /\ conn' = [conn EXCEPT ![c].phase = "select"]
    /\ UNCHANGED <<run, flag, task, inbox, out, client, torn>>

(* The head of the loop looks at the flag before it waits.                 *)
Top(c) ==
    /\ conn[c].phase = "top"
    /\ \/ flag /\ Leave(c)
       \/ /\ ~flag
          /\ conn' = [conn EXCEPT ![c].phase = "select"]
          /\ UNCHANGED task
    /\ UNCHANGED <<run, flag, inbox, out, client, torn>>

(* select!: a frame, the end of the stream, a read error (which ends serve *)
(* at once, without aborting anything), or a change of the flag.           *)
Select(c) ==
    /\ conn[c].phase = "select"
    /\ \/ /\ inbox[c] # <<>>
          /\ conn' = [conn EXCEPT ![c].phase = "handle", ![c].call = Head(inbox[c])]
          /\ inbox' = [inbox EXCEPT ![c] = Tail(@)]
          /\ UNCHANGED task
       \/ /\ inbox[c] = <<>>
          /\ client[c].at = "gone"
          /\ Leave(c)
          /\ UNCHANGED inbox
       \/ /\ client[c].at = "gone"
          /\ conn' = [conn EXCEPT ![c].phase = "done"]
          /\ UNCHANGED <<task, inbox>>
       \/ /\ conn[c].fresh
          /\ Leave(c)
          /\ UNCHANGED inbox
    /\ UNCHANGED <<run, flag, out, client, torn>>

AnswerTo(call) ==
    [kind |-> "answer", id |-> IF call.kind = "oversized" THEN None ELSE call.id,
     sub |-> None]

(* An answer and nothing else: an oversized frame, a call before the       *)
(* handshake, invalid parameters, a deadline that has passed, an error of  *)
(* the engine, or the result of an operation of the engine.                *)
Answer(c) ==
    /\ conn' = [conn EXCEPT ![c].phase = "reply", ![c].reply = AnswerTo(conn[c].call)]
    /\ UNCHANGED task

Handshake(c) ==
    /\ conn[c].call.kind = "handshake"
    /\ conn' = [conn EXCEPT ![c].phase = "reply", ![c].reply = AnswerTo(conn[c].call),
                            ![c].handshaken = TRUE]
    /\ UNCHANGED task

(* Mutant: spawns the subscription's task before the answer is written.    *)
SubscribeSpawnsFirst(c) ==
    /\ conn[c].call.kind = "subscribe" /\ conn[c].handshaken
    /\ conn[c].next \in Sub
    /\ conn' = [conn EXCEPT ![c].phase = "reply", ![c].next = @ + 1,
                            ![c].reply = [AnswerTo(conn[c].call) EXCEPT !.sub = conn[c].next]]
    /\ task' = [task EXCEPT ![c][conn[c].next].at = "next"]

(* handle_subscription, subscribe: takes the next number; the answer names *)
(* the subscription, whose task is spawned after it has been written.      *)
Subscribe(c) ==
    /\ conn[c].call.kind = "subscribe" /\ conn[c].handshaken
    /\ conn[c].next \in Sub
    /\ conn' = [conn EXCEPT ![c].phase = "reply", ![c].next = @ + 1,
                            ![c].reply = [AnswerTo(conn[c].call) EXCEPT !.sub = conn[c].next]]
    /\ UNCHANGED task

(* handle_subscription, unsubscribe: aborts the task, then answers.        *)
Unsubscribe(c) ==
    /\ conn[c].call.kind = "unsubscribe" /\ conn[c].handshaken
    /\ conn' = [conn EXCEPT ![c].phase = "reply", ![c].reply = AnswerTo(conn[c].call),
                            ![c].known = @ \ {conn[c].call.sub}]
    /\ task' = [task EXCEPT ![c] =
          [s \in Sub |-> [task[c][s] EXCEPT
              !.aborted = @ \/ (s = conn[c].call.sub /\ s \in conn[c].known)]]]

(* dispatch, CONTROL_SHUTDOWN: the flag is raised after the answer.        *)
Shutdown(c) ==
    /\ conn[c].call.kind = "shutdown" /\ conn[c].handshaken
    /\ conn' = [conn EXCEPT ![c].phase = "reply", ![c].reply = AnswerTo(conn[c].call),
                            ![c].stop = TRUE]
    /\ UNCHANGED task

Handle(c) ==
    /\ conn[c].phase = "handle"
    /\ Answer(c) \/ Handshake(c) \/ Subscribe(c) \/ Unsubscribe(c) \/ Shutdown(c)
    /\ UNCHANGED <<run, flag, inbox, out, client, torn>>

ReplyHead(c) ==
    /\ conn[c].phase = "reply"
    /\ WriteHead(c, conn[c].reply)
    /\ conn' = [conn EXCEPT ![c].phase = "write", ![c].holder = Server]
    /\ UNCHANGED <<run, flag, task, inbox, client, torn>>

Spawned(c, s) == [task EXCEPT ![c][s].at = "next"]

(* The answer is out: a subscription's task is spawned; a shutdown raises  *)
(* the flag and leaves the loop; anything else goes round.                 *)
ReplyTail(c) ==
    /\ conn[c].phase = "write"
    /\ WriteTail(c, Server, conn[c].reply)
    /\ \/ /\ conn[c].reply.sub # None
          /\ conn' = [conn EXCEPT ![c].phase = "top", ![c].holder = Free,
                                  ![c].known = @ \cup {conn[c].reply.sub}]
          /\ task' = Spawned(c, conn[c].reply.sub)
          /\ UNCHANGED flag
       \/ /\ conn[c].stop
          /\ flag' = TRUE
          /\ conn' = Raised([conn EXCEPT ![c].phase = "done", ![c].holder = Free])
          /\ AbortAll(c)
       \/ /\ conn[c].reply.sub = None /\ ~conn[c].stop
          /\ conn' = [conn EXCEPT ![c].phase = "top", ![c].holder = Free]
          /\ UNCHANGED <<task, flag>>
    /\ UNCHANGED <<run, inbox, client, torn>>

(* A failed write ends serve at once; its subscriptions are not aborted.   *)
ReplyFails(c) ==
    /\ conn[c].phase \in {"reply", "write"}
    /\ WriteFails(c, Server)
    /\ conn' = [conn EXCEPT ![c].phase = "done", ![c].holder = Released(c, Server)]
    /\ UNCHANGED <<run, flag, task, inbox, client, torn>>

ConnStep(c) ==
    \/ Serve(c) \/ Top(c) \/ Select(c) \/ Handle(c)
    \/ ReplyHead(c) \/ ReplyTail(c) \/ ReplyFails(c)

-----------------------------------------------------------------------------
(* The task of a subscription.                                             *)

At(c, s, place) == [task EXCEPT ![c][s].at = place]

(* The stream yields an event or an error.                                 *)
StreamNext(c, s) ==
    /\ task[c][s].at = "next"
    /\ \/ /\ task[c][s].sent < MaxEvents
          /\ task' = At(c, s, "lock")
       \/ task' = At(c, s, "fail")
    /\ UNCHANGED <<run, flag, conn, inbox, out, client, torn>>

Event(c, s) == [kind |-> "event", id |-> task[c][s].sent + 1, sub |-> s]

NotifyHead(c, s) ==
    /\ task[c][s].at = "lock"
    /\ WriteHead(c, Event(c, s))
    /\ task' = At(c, s, "write")
    /\ conn' = [conn EXCEPT ![c].holder = s]
    /\ UNCHANGED <<run, flag, inbox, client, torn>>

NotifyTail(c, s) ==
    /\ task[c][s].at = "write"
    /\ WriteTail(c, s, Event(c, s))
    /\ task' = [task EXCEPT ![c][s].at = "next", ![c][s].sent = @ + 1]
    /\ conn' = [conn EXCEPT ![c].holder = Free]
    /\ UNCHANGED <<run, flag, inbox, client, torn>>

NotifyFails(c, s) ==
    /\ task[c][s].at \in {"lock", "write"}
    /\ WriteFails(c, s)
    /\ task' = At(c, s, "end")
    /\ conn' = [conn EXCEPT ![c].holder = Released(c, s)]
    /\ UNCHANGED <<run, flag, inbox, client, torn>>

(* Mutant: the task ends and leaves the connection open.                   *)
EndQuietly(c, s) ==
    /\ task[c][s].at = "fail"
    /\ conn[c].holder = Free
    /\ task' = At(c, s, "end")
    /\ UNCHANGED <<run, flag, conn, inbox, out, client, torn>>

(* The stream has failed: the write side is shut down, under the mutex.    *)
CloseWriter(c, s) ==
    /\ task[c][s].at = "fail"
    /\ conn[c].holder = Free
    /\ task' = At(c, s, "end")
    /\ conn' = [conn EXCEPT ![c].writable = FALSE]
    /\ UNCHANGED <<run, flag, inbox, out, client, torn>>

(* An aborted task ends where it waits; until then it runs on.  In the     *)
(* middle of a line it waits only when the socket is full.                 *)
Cancel(c, s) ==
    /\ task[c][s].aborted
    /\ \/ /\ task[c][s].at \in {"next", "lock", "fail"}
          /\ UNCHANGED <<conn, torn>>
       \/ /\ task[c][s].at = "write" /\ ~HasRoom(c)
          /\ conn' = [conn EXCEPT ![c].holder = Free]
          /\ torn' = [torn EXCEPT ![c] = TRUE]
    /\ task' = At(c, s, "end")
    /\ UNCHANGED <<run, flag, inbox, out, client>>

TaskWrite(c, s) ==
    NotifyHead(c, s) \/ NotifyTail(c, s) \/ NotifyFails(c, s) \/ CloseWriter(c, s)

-----------------------------------------------------------------------------
(* LocalClient: one call at a time; events that come before the answer are *)
(* queued for next_change.                                                 *)

SendCall(c) ==
    /\ client[c].at = "free"
    /\ client[c].asked < MaxCalls[c]
    /\ \E kind \in Menu[c] :
       \E s \in IF kind = "unsubscribe" THEN client[c].named ELSE {None} :
          inbox' = [inbox EXCEPT ![c] =
              Append(@, [kind |-> kind, id |-> client[c].asked + 1, sub |-> s])]
    /\ client' = [client EXCEPT ![c].at = "calling", ![c].asked = @ + 1]
    /\ UNCHANGED <<run, flag, conn, task, out, torn>>

(* A line is complete: what call and next_change make of it.  An answer    *)
(* that is not the call's own is a ResponseIdMismatch, a line that is not  *)
(* JSON an error; both end the call.                                       *)
Understood(k, line) ==
    IF line.kind = "event"
    THEN IF k.at = "calling"
         THEN [k EXCEPT !.queue = Append(@, line)]
         ELSE [k EXCEPT !.got = Append(@, line)]
    ELSE [k EXCEPT !.at = "free", !.answered = @ \cup {line.id},
                   !.named = @ \cup ({line.sub} \ {None})]

(* Lines::next_line gathers halves up to the end of a line; next_change    *)
(* reads only when its queue is empty.                                     *)
ReadMessage(c) ==
    /\ \/ client[c].at = "calling"
       \/ client[c].at = "free" /\ client[c].queue = <<>>
    /\ out[c] # <<>>
    /\ LET half == Head(out[c])
           line == Append(client[c].half, half)
       IN  client' = [client EXCEPT ![c] =
              IF half[2] = 1 THEN [@ EXCEPT !.half = line]
              ELSE IF line = <<<<half[1], 1>>, half>>
              THEN [Understood(@, half[1]) EXCEPT !.half = <<>>]
              ELSE [@ EXCEPT !.half = <<>>, !.garbled = TRUE, !.at = "free"]]
    /\ out' = [out EXCEPT ![c] = Tail(@)]
    /\ UNCHANGED <<run, flag, conn, task, inbox, torn>>

(* next_change returns a queued event.                                     *)
PopNotification(c) ==
    /\ client[c].at = "free"
    /\ client[c].queue # <<>>
    /\ client' = [client EXCEPT ![c].got = Append(@, Head(client[c].queue)),
                                ![c].queue = Tail(@)]
    /\ UNCHANGED <<run, flag, conn, task, inbox, out, torn>>

(* The stream of a connection is closed when nothing holds its write half. *)
Closed(c) ==
    \/ run = "down"
    \/ ~conn[c].writable
    \/ conn[c].phase = "done" /\ \A s \in Sub : task[c][s].at \in {"none", "end"}

(* LocalClient is dropped, and what it held with it.                       *)
Gone == [NewClient EXCEPT !.at = "gone"]

(* The client sees the end of the stream: ConnectionClosed.                *)
SeeClosed(c) ==
    /\ client[c].at \in {"free", "calling"}
    /\ client[c].queue = <<>> \/ client[c].at = "calling"
    /\ out[c] = <<>>
    /\ Closed(c)
    /\ client' = [client EXCEPT ![c] = Gone]
    /\ UNCHANGED <<run, flag, conn, task, inbox, out, torn>>

(* The client is dropped, whatever it was waiting for.                     *)
HangUp(c) ==
    /\ client[c].at \in {"free", "calling"}
    /\ client' = [client EXCEPT ![c] = Gone]
    /\ out' = [out EXCEPT ![c] = <<>>]
    /\ UNCHANGED <<run, flag, conn, task, inbox, torn>>

ClientRead(c) == ReadMessage(c) \/ PopNotification(c) \/ SeeClosed(c)

-----------------------------------------------------------------------------
ConnNext ==
    \/ BeginDrain \/ Finish
    \/ \E c \in Conn :
          \/ Accept(c) \/ ConnStep(c)
          \/ SendCall(c) \/ ClientRead(c) \/ HangUp(c)
          \/ \E s \in Sub : StreamNext(c, s) \/ TaskWrite(c, s) \/ Cancel(c, s)

ConnSpec == ConnInit /\ [][ConnNext]_connVars

(* The runtime polls every task that can proceed, and the loop sees the    *)
(* flag once it is raised; clients read what they are sent.  Nothing makes *)
(* a client call, hang up or a stream yield.                               *)
FairConnSpec ==
    /\ ConnSpec
    /\ WF_connVars(flag /\ BeginDrain)
    /\ WF_connVars(Finish)
    /\ \A c \in Conn :
          /\ WF_connVars(ConnStep(c))
          /\ WF_connVars(ClientRead(c))
          /\ \A s \in Sub : WF_connVars(TaskWrite(c, s)) /\ WF_connVars(Cancel(c, s))

-----------------------------------------------------------------------------
(* "One line MUST contain exactly one complete JSON-RPC object": answers   *)
(* and notifications of one connection never mix within a line.  The one   *)
(* exception is a line whose writer was aborted half way, which an         *)
(* unsubscribe or the end of the process may do.                           *)
LinesAreWhole ==
    \A c \in Conn : client[c].garbled => torn[c]

(* next_change hands out the events of a subscription in the order of its  *)
(* stream and without a gap, whichever of them came during a call, and     *)
(* none before the client was told of the subscription, although the       *)
(* stream is live from the engine's subscribe on.                          *)
EventsInOrder ==
    \A c \in Conn : \A s \in Sub : torn[c] \/
        LET seen == client[c].got \o client[c].queue
            mine == {i \in DOMAIN seen : seen[i].sub = s}
        IN  /\ mine # {} => s \in client[c].named
            /\ \A i \in mine : seen[i].id = Cardinality({j \in mine : j <= i})

(* The engine is shut down only when every call that a connection has      *)
(* taken up is answered, unless its client is gone, a failed stream has    *)
(* closed the connection, or a line was torn.                              *)
AnsweredBeforeDown ==
    run = "down" => \A c \in Conn :
        LET id == AnswerTo(conn[c].call).id
        IN  \/ conn[c].call = NoCall
            \/ client[c].at = "gone" \/ ~conn[c].writable \/ torn[c]
            \/ id \in client[c].answered
            \/ \E i \in DOMAIN out[c] :
                  out[c][i][1].kind = "answer" /\ out[c][i][1].id = id /\ out[c][i][2] = 2

(* Once the shutdown flag is raised the daemon ends: no connection waits   *)
(* for ever on an idle client, on the mutex, or on a flag it has missed.   *)
ShutdownCompletes == flag ~> (run = "down")

(* A subscription whose stream fails is not lost in silence: its client is *)
(* gone or sees its connection closed.                                     *)
FailureIsNoticed ==
    \A c \in Conn : \A s \in Sub :
        (task[c][s].at = "fail" /\ ~task[c][s].aborted)
            ~> (client[c].at = "gone" \/ task[c][s].aborted)
=============================================================================
