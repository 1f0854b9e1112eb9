------------------------------ MODULE Connections ------------------------------
(***************************************************************************)
(* The WebSockets of one API process and the messages published to them    *)
(* through Redis by requests and workers anywhere.                         *)
(*                                                                         *)
(* A behaviour is about one list of sockets (audience): the dashboards',   *)
(* or that of the customers of one conversation, whose id may also be no   *)
(* UUID.  A message is a status update or a chat message: its request      *)
(* commits it and publishes it in a later step.  The process's one         *)
(* listener task takes the messages of its subscription in turn and sends  *)
(* each to the sockets of the list, by index, while sockets come and go    *)
(* between two sends; a subscription keeps nothing for an absent listener. *)
(*                                                                         *)
(* The branch for a missing Redis client is not modelled: the client       *)
(* exists from the start of the process until its sockets are closed.      *)
(***************************************************************************)
EXTENDS Naturals, Sequences

CONSTANTS Sockets, Messages, NoMessage

ASSUME ConnectionsAssumption == NoMessage \notin Messages

VARIABLES audience,    \* "dashboard", "customer" or "invalid"
          list,        \* dashboard_connections or customer_connections[id]
          socket,      \* where each socket and its handler are
          phase,       \* where each message is
          subscribed,  \* is the listener subscribed?
          buffer,      \* messages of the subscription, not yet taken
          sending,     \* the message the listener sends
          pos,         \* how many sockets it has taken from the list
          failed,      \* those to which the send raised
          detached,    \* was the list it goes through deleted?
          received,    \* messages each socket has received
          order,       \* history: messages in the order of their commits
          due,         \* history: messages published while each socket was open
          shifted,     \* history: messages under which the list moved
          overtaken,   \* history: messages published after one committed later
          broken       \* history: dashboards whose handler died of another error

socketVars == <<list, socket, broken>>
messageVars == <<phase, order, overtaken>>
listenerVars == <<subscribed, buffer>>
loopVars == <<sending, pos, failed, detached, shifted>>
clientVars == <<received, due>>
vars == <<audience, socketVars, messageVars, listenerVars, loopVars, clientVars>>

-------------------------------------------------------------------------------

Elements(s) == {s[i] : i \in DOMAIN s}

\* The listener starts with the process and subscribes after the first requests
\* may have come.
Init == /\ audience \in {"dashboard", "customer", "invalid"}
        /\ list = <<>>
        /\ socket = [s \in Sockets |-> "new"]
        /\ phase = [m \in Messages |-> "idle"]
        /\ subscribed = FALSE
        /\ buffer = <<>>
        /\ sending = NoMessage
        /\ pos = 0
        /\ failed = {}
        /\ detached = FALSE
        /\ received = [s \in Sockets |-> <<>>]
        /\ order = <<>>
        /\ due = [s \in Sockets |-> {}]
        /\ shifted = {}
        /\ overtaken = {}
        /\ broken = {}

(* The sockets' handlers *)

Moves(s, from, to) == /\ socket[s] \in from
                      /\ socket' = [socket EXCEPT ![s] = to]

\* connect_dashboard, connect_customer
Register(s) == /\ Moves(s, {"new"}, "open")
               /\ list' = Append(list, s)
               /\ UNCHANGED <<audience, broken, messageVars, listenerVars, loopVars, clientVars>>

\* Without its client a socket is owed nothing.
Leaves(s, from, to) == /\ Moves(s, from, to)
                       /\ received' = [received EXCEPT ![s] = <<>>]
                       /\ due' = [due EXCEPT ![s] = {}]

ClientLeaves(s) == /\ Leaves(s, {"open"}, "gone")
                   /\ UNCHANGED <<audience, list, broken, messageVars, listenerVars, loopVars>>

Taken == {list[i] : i \in {i \in DOMAIN list : i <= pos}}

\* Each of gone is removed, the others keep their order.
Without(gone) ==
    LET upTo[n \in 0..Len(list)] ==
            IF n = 0 THEN <<>>
            ELSE IF list[n] \in gone THEN upTo[n - 1] ELSE Append(upTo[n - 1], list[n])
    IN upTo[Len(list)]

\* Mutation: the conversation's list is deleted with the first socket that leaves.
RemoveAll(gone) == /\ list' = IF audience = "dashboard" THEN Without(gone) ELSE <<>>
                   /\ detached' = (detached \/ (sending # NoMessage /\ audience # "dashboard"))

\* disconnect_dashboard, disconnect_customer: a conversation's empty list is deleted,
\* and a loop that goes through it ends.
Removed(gone) == /\ list' = Without(gone)
                 /\ detached' = (detached \/ /\ sending # NoMessage
                                             /\ audience # "dashboard"
                                             /\ Without(gone) = <<>>)

\* Only the customers' handler disconnects after errors of its own too.
Disconnect(s) == /\ Leaves(s, IF audience = "dashboard" THEN {"gone"} ELSE {"open", "gone"}, "ended")
                 /\ audience # "invalid"
                 /\ Removed({s})
                 /\ shifted' = shifted \cup {m \in Messages : m = sending /\ s \in Taken}
                 /\ UNCHANGED <<audience, broken, messageVars, listenerVars, sending, pos, failed>>

\* An id that is no UUID: the handler closes the socket and returns.
Refuse(s) == /\ audience = "invalid"
             /\ Leaves(s, {"open", "gone"}, "ended")
             /\ UNCHANGED <<audience, list, broken, messageVars, listenerVars, loopVars>>

\* The dashboards' handler catches no other error than WebSocketDisconnect.
Breaks(s) == /\ audience = "dashboard"
             /\ Leaves(s, {"open", "gone"}, "ended")
             /\ broken' = broken \cup {s}
             /\ UNCHANGED <<audience, list, messageVars, listenerVars, loopVars>>

(* The requests that publish *)

Commit(m) == /\ audience # "invalid"
             /\ phase[m] = "idle"
             /\ phase' = [phase EXCEPT ![m] = "committed"]
             /\ order' = Append(order, m)
             /\ UNCHANGED <<audience, socketVars, overtaken, listenerVars, loopVars, clientVars>>

\* Was a committed before b?
Earlier(a, b) == \E i, j \in DOMAIN order : i < j /\ order[i] = a /\ order[j] = b

Open == {s \in Sockets : socket[s] = "open"}

\* broadcast_to_dashboard, send_to_customer
Publish(m) ==
    /\ subscribed
    /\ phase[m] = "committed"
    /\ phase' = [phase EXCEPT ![m] = "queued"]
    /\ buffer' = Append(buffer, m)
    /\ due' = [s \in Sockets |-> IF s \in Open THEN due[s] \cup {m} ELSE due[s]]
    /\ overtaken' = overtaken \cup {x \in {m} : \E n \in Messages :
                        Earlier(m, n) /\ phase[n] \notin {"idle", "committed"}}
    /\ UNCHANGED <<audience, socketVars, order, subscribed, loopVars, received>>

\* Nobody listens; or Redis does not answer, and the request fails after its commit.
PublishLost(m) == /\ phase[m] = "committed"
                  /\ phase' = [phase EXCEPT ![m] = "lost"]
                  /\ UNCHANGED <<audience, socketVars, order, overtaken, listenerVars, loopVars,
                                 clientVars>>

(* The listener: start_redis_listener *)

Subscribe == /\ ~subscribed
             /\ sending = NoMessage
             /\ subscribed' = TRUE
             /\ UNCHANGED <<audience, socketVars, messageVars, buffer, loopVars, clientVars>>

\* The connection to Redis is lost, and with it what it still held.
ListenerFails == /\ subscribed
                 /\ subscribed' = FALSE
                 /\ buffer' = <<>>
                 /\ phase' = [m \in Messages |-> IF phase[m] = "queued" THEN "lost" ELSE phase[m]]
                 /\ due' = [s \in Sockets |-> due[s] \ Elements(buffer)]
                 /\ UNCHANGED <<audience, socketVars, order, overtaken, loopVars, received>>

\* Mutation: the newest message is taken first.
TakeNewest == /\ sending = NoMessage
              /\ buffer # <<>>
              /\ sending' = buffer[Len(buffer)]
              /\ phase' = [phase EXCEPT ![buffer[Len(buffer)]] = "sending"]
              /\ buffer' = SubSeq(buffer, 1, Len(buffer) - 1)
              /\ UNCHANGED <<audience, socketVars, order, overtaken, subscribed, pos, failed,
                             detached, shifted, clientVars>>

Take == /\ sending = NoMessage
        /\ buffer # <<>>
        /\ sending' = Head(buffer)
        /\ phase' = [phase EXCEPT ![Head(buffer)] = "sending"]
        /\ buffer' = Tail(buffer)
        /\ UNCHANGED <<audience, socketVars, order, overtaken, subscribed, pos, failed,
                       detached, shifted, clientVars>>

More == ~detached /\ pos < Len(list)

\* Mutation: a socket to which the send raised is tried again.
SendRetries == /\ sending # NoMessage
               /\ More
               /\ LET s == list[pos + 1] IN
                  IF socket[s] = "open"
                  THEN /\ received' = [received EXCEPT ![s] = Append(@, sending)]
                       /\ pos' = pos + 1
                       /\ UNCHANGED failed
                  ELSE failed' = failed \cup {s} /\ UNCHANGED <<received, pos>>
               /\ UNCHANGED <<audience, socketVars, messageVars, listenerVars, sending, detached,
                              shifted, due>>

\* A send to a socket that is gone raises, or is not noticed.
SendNext == /\ sending # NoMessage
            /\ More
            /\ LET s == list[pos + 1] IN
               IF socket[s] = "open"
               THEN received' = [received EXCEPT ![s] = Append(@, sending)] /\ UNCHANGED failed
               ELSE failed' \in {failed, failed \cup {s}} /\ UNCHANGED received
            /\ pos' = pos + 1
            /\ UNCHANGED <<audience, socketVars, messageVars, listenerVars, sending, detached,
                           shifted, due>>

\* Mutation: the next loop starts with the sockets that failed in this one.
KeepsFailed == /\ sending' = NoMessage
               /\ phase' = [phase EXCEPT ![sending] = "done"]
               /\ list' = Without(failed)
               /\ pos' = 0
               /\ detached' = FALSE
               /\ UNCHANGED <<audience, socket, broken, failed, order, overtaken, listenerVars,
                              shifted, clientVars>>

\* The loop ends: the sockets that failed leave the list.
LoopEnds == /\ sending' = NoMessage
            /\ phase' = [phase EXCEPT ![sending] = "done"]
            /\ list' = Without(failed)
            /\ pos' = 0
            /\ failed' = {}
            /\ detached' = FALSE
            /\ UNCHANGED <<audience, socket, broken, order, overtaken, listenerVars, shifted,
                           clientVars>>

\* Mutation: a failed send ends the loop.
FinishEarly == sending # NoMessage /\ (~More \/ failed # {}) /\ LoopEnds

Finish == sending # NoMessage /\ ~More /\ LoopEnds

-------------------------------------------------------------------------------

Handler(s) == \/ Register(s) \/ ClientLeaves(s) \/ Disconnect(s)
              \/ Refuse(s) \/ Breaks(s)

Request(m) == Commit(m) \/ Publish(m) \/ PublishLost(m)

Deliver == Take \/ SendNext \/ Finish

Next == \/ \E s \in Sockets : Handler(s)
        \/ \E m \in Messages : Request(m)
        \/ Subscribe \/ ListenerFails \/ Deliver

Spec == Init /\ [][Next]_vars

FairSpec == Spec /\ WF_vars(Deliver)

-------------------------------------------------------------------------------
(* Properties *)

\* Type of the list, the sockets, the messages and the listener.
TypeOK ==
    /\ audience \in {"dashboard", "customer", "invalid"}
    /\ list \in Seq(Sockets)
    /\ socket \in [Sockets -> {"new", "open", "gone", "ended"}]
    /\ phase \in [Messages -> {"idle", "committed", "queued", "sending", "done", "lost"}]
    /\ subscribed \in BOOLEAN
    /\ buffer \in Seq(Messages)
    /\ sending \in Messages \cup {NoMessage}
    /\ pos \in Nat
    /\ failed \subseteq Sockets
    /\ detached \in BOOLEAN
    /\ received \in [Sockets -> Seq(Messages)]
    /\ order \in Seq(Messages)
    /\ due \in [Sockets -> SUBSET Messages]
    /\ shifted \subseteq Messages
    /\ overtaken \subseteq Messages
    /\ broken \subseteq Sockets
    /\ sending = NoMessage => pos = 0 /\ failed = {} /\ ~detached

\* A message that was delivered has reached every socket that was open when it was
\* published and still is, unless another socket left the list during the loop.
MissHasCause ==
    \A s \in Open : \A m \in due[s] :
        phase[m] = "done" => m \in Elements(received[s]) \cup shifted

\* What an open socket received last was overtaken by no delivered message it should
\* have had, unless the list moved or the requests published out of commit order.
StaleStatusHasCause ==
    \A s \in Open : \A n \in due[s] :
        LET m == received[s][Len(received[s])] IN
        received[s] # <<>> /\ Earlier(m, n) /\ phase[n] = "done"
            => n \in shifted \/ m \in overtaken

\* A socket whose client is there stays registered, whoever else leaves; one whose
\* handler has ended is not, unless the conversation's id was refused or the
\* dashboards' handler died of an error it does not catch.
RegisteredWhileHandled ==
    \A s \in Sockets :
        /\ socket[s] = "open" => s \in Elements(list)
        /\ socket[s] = "ended" /\ s \in Elements(list) => audience = "invalid" \/ s \in broken

\* Every message the listener has is delivered to the end or lost with the
\* connection, whatever sockets come and go under the loop.
DrainsEventually ==
    \A m \in Messages : phase[m] \in {"queued", "sending"} ~> phase[m] \in {"done", "lost"}
===============================================================================
