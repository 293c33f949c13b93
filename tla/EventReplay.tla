------------------------------ MODULE EventReplay ------------------------------
(***************************************************************************)
(* The event log of one session and the two ways it is read: the replay a  *)
(* dashboard gets when it resumes the session on its WebSocket, while the  *)
(* same events are also relayed to it as they happen, and the pages an     *)
(* agent of another session asks for through the platform tools.           *)
(*                                                                         *)
(* Events are numbered in the order the orchestrator emits them.  A token  *)
(* is buffered, and logged with its neighbours as one text; the end of a   *)
(* turn carries the turn's last text.  A message to the dashboard is       *)
(* received some time after it was sent, in order.                         *)
(***************************************************************************)
EXTENDS Naturals, Sequences, FiniteSets

CONSTANTS Resumes,         \* session.resume handlers that may be suspended at once
          PageSize,        \* limit of a workspace_events call
          MaxEvents,       \* bound: events emitted
          MaxResumes,      \* bound: session.resume messages sent
          MaxPolls,        \* bound: workspace_events calls
          MaxRestarts      \* bound: restarts of the server

ASSUME BoundsAssumption ==
    /\ PageSize \in Nat \ {0} /\ MaxEvents \in Nat /\ MaxResumes \in Nat
    /\ MaxPolls \in Nat /\ MaxRestarts \in Nat

VARIABLES
    emitted,     \* how many events there were
    final,       \* the tokens of the current turn's last text
    counter,     \* EventLog.seqCounters
    buffer,      \* EventLog.tokenBuffers
    file,        \* the session's file
    signing,     \* ends of turns that are logged and whose images are being signed
    subscribed,  \* the connection is subscribed to the session
    resume,      \* the session.resume handlers of the connection
    asked,       \* session.resume messages on their way to the server
    wire,        \* messages on their way to the dashboard
    connected,   \* the dashboard has a connection
    chat,        \* what useWorkspaceChat shows and remembers
    poller,      \* the cursor of the caller of workspace_events, the entries it got
    cut,         \* history: tokens that were buffered when the log was last read
    lost,        \* history: tokens that were buffered when the server stopped
    disturbed,   \* history: why the replay last begun may show things twice or in disorder
    synced,      \* history: the log was read since the dashboard last cleared its messages
    resumes, polls, restarts

logVars == <<counter, buffer, file>>
serverVars == <<signing, subscribed, resume>>
clientVars == <<asked, connected, chat>>
historyVars == <<cut, lost, disturbed, synced>>
boundVars == <<resumes, polls, restarts>>
vars == <<emitted, final, logVars, serverVars, wire, clientVars, poller, historyVars, boundVars>>

Events == 1..MaxEvents
Entry == [seq : Nat, k : {"text", "tool", "turn.done"}, id : Events, ids : SUBSET Events]
Message == [k : {"token", "text", "tool", "turn.done", "replay_start"}, ids : SUBSET Events]
Idle == [step |-> "idle", todo |-> <<>>]
Blank == [messages |-> <<>>, stream |-> {}, target |-> 0, last |-> {}]

TypeOK ==
    /\ emitted \in 0..MaxEvents
    /\ final \subseteq Events /\ buffer \subseteq Events
    /\ counter \in 0..Len(file)
    /\ file \in Seq(Entry)
    /\ signing \subseteq Entry
    /\ subscribed \in BOOLEAN /\ connected \in BOOLEAN
    /\ resume \in [Resumes -> [step : {"idle", "waking", "sending"}, todo : Seq(Entry)]]
    /\ wire \in Seq(Message)
    /\ chat \in [messages : Seq(SUBSET Events), stream : SUBSET Events,
                 target : Nat, last : SUBSET Events]
    /\ chat.target <= Len(chat.messages)
    /\ poller \in [cursor : Nat, got : Seq(Nat)]
    /\ cut \subseteq Events /\ lost \subseteq Events
    /\ disturbed \in BOOLEAN /\ synced \in BOOLEAN
    /\ asked \in Nat /\ resumes \in 0..MaxResumes
    /\ polls \in 0..MaxPolls /\ restarts \in 0..MaxRestarts

Init ==
    /\ emitted = 0 /\ final = {}
    /\ counter = 0 /\ buffer = {} /\ file = <<>>
    /\ signing = {} /\ subscribed = FALSE
    /\ resume = [h \in Resumes |-> Idle]
    /\ asked = 0 /\ wire = <<>> /\ connected = FALSE
    /\ chat = Blank
    /\ poller = [cursor |-> 0, got |-> <<>>]
    /\ cut = {} /\ lost = {} /\ disturbed = FALSE /\ synced = FALSE
    /\ resumes = 0 /\ polls = 0 /\ restarts = 0

Newest(S) == CHOOSE x \in S : \A y \in S : y <= x
Replaying == {h \in Resumes : resume[h].step = "sending"}

-----------------------------------------------------------------------------
(* EventLog.                                                                 *)

\* The entries flushTokens writes, and those append writes for an event that is
\* not a token.
Flushed ==
    IF buffer = {} THEN <<>>
    ELSE <<[seq |-> counter + 1, k |-> "text", id |-> Newest(buffer), ids |-> buffer]>>
\* Mutant: the event is written before the tokens it ends.
FlushesAfter(k, ids) ==
    <<[seq |-> counter + 1, k |-> k, id |-> emitted + 1, ids |-> ids]>>
    \o [i \in DOMAIN Flushed |-> [Flushed[i] EXCEPT !.seq = @ + 1]]
Logged(k, ids) ==
    Append(Flushed, [seq |-> counter + Len(Flushed) + 1, k |-> k, id |-> emitted + 1, ids |-> ids])

\* Every entry takes the next number; nextSeq starts again at 1 with the server.
Writes(entries) ==
    /\ file' = file \o entries
    /\ counter' = counter + Len(entries)
    /\ buffer' = {}

-----------------------------------------------------------------------------
(* The relay of the orchestrator's events.                                   *)

\* Mutant: what happens during a replay is left to the replay.
SilentWhileReplaying(k, ids, ends) ==
    /\ wire' = IF subscribed /\ Replaying = {} THEN Append(wire, [k |-> k, ids |-> ids]) ELSE wire
    /\ disturbed' = (disturbed \/ (subscribed /\ ends # {}))
\* A live event overtakes what a replay still has to send, and an end of turn that
\* is still being signed.
ToSession(k, ids, ends) ==
    /\ wire' = IF subscribed THEN Append(wire, [k |-> k, ids |-> ids]) ELSE wire
    /\ disturbed' = (disturbed \/ (subscribed /\ (Replaying # {} \/ ends # {})))

EmitsToken ==
    /\ emitted < MaxEvents
    /\ emitted' = emitted + 1
    /\ ToSession("token", {emitted + 1}, signing)
    /\ buffer' = buffer \cup {emitted + 1}
    \* A text begins with the turn and after each tool call.
    /\ final' = (IF emitted \in final THEN final ELSE {}) \cup {emitted + 1}
    /\ UNCHANGED <<counter, file, serverVars, clientVars, poller, cut, lost, synced, boundVars>>

\* Any other event of a turn: tool calls, their results, errors.
EmitsTool ==
    /\ emitted < MaxEvents
    /\ emitted' = emitted + 1
    /\ ToSession("tool", {emitted + 1}, signing)
    /\ Writes(Logged("tool", {emitted + 1}))
    /\ UNCHANGED <<final, serverVars, clientVars, poller, cut, lost, synced, boundVars>>

\* task:done is logged at once and sent when its images are signed.
EmitsDone ==
    /\ emitted < MaxEvents
    /\ emitted' = emitted + 1
    /\ LET entries == Logged("turn.done", final) IN
         /\ Writes(entries)
         /\ signing' = signing \cup {entries[Len(entries)]}
    /\ final' = {}
    /\ UNCHANGED <<subscribed, resume, wire, clientVars, poller, historyVars, boundVars>>

SendsDone ==
    \E e \in signing :
      /\ signing' = signing \ {e}
      /\ ToSession("turn.done", e.ids, signing \ {e})
      /\ UNCHANGED <<emitted, final, logVars, subscribed, resume, clientVars, poller, cut, lost,
                     synced, boundVars>>

-----------------------------------------------------------------------------
(* session.resume: subscribe, wake the container, read the log, send it.     *)

ResumeArrives(h) ==
    /\ asked > 0 /\ resume[h].step = "idle"
    /\ asked' = asked - 1
    /\ subscribed' = TRUE
    /\ resume' = [resume EXCEPT ![h].step = "waking"]
    /\ UNCHANGED <<emitted, final, logVars, signing, wire, connected, chat, poller, historyVars,
                   boundVars>>

\* Images are signed in texts and ends of turns, which the handler awaits; what
\* lies between two of them is sent in one go.
Burst(todo) ==
    LET texts == {i \in DOMAIN todo : todo[i].k # "tool"} IN
    IF texts = {} THEN Len(todo) ELSE (CHOOSE i \in texts : \A j \in texts : i <= j) - 1
\* Mutant: a text is sent without the type of its entry.
SentUntyped(entries) ==
    [i \in DOMAIN entries |-> [k |-> IF entries[i].k = "text" THEN "" ELSE entries[i].k,
                               ids |-> entries[i].ids]]
Sent(entries) == [i \in DOMAIN entries |-> [k |-> entries[i].k, ids |-> entries[i].ids]]

\* Send the entries up to the n-th and await the next, or be done.
Sends(h, todo, n, before) ==
    /\ wire' = wire \o before \o Sent(SubSeq(todo, 1, n))
    /\ resume' = [resume EXCEPT ![h] =
         IF n = Len(todo) THEN Idle
         ELSE [step |-> "sending", todo |-> SubSeq(todo, n + 1, Len(todo))]]

\* A text that a call of workspace_events has written before its end: the end of the
\* turn holds more than the text it should repeat.
TextCut ==
    \E i \in DOMAIN file :
      file[i].k = "text" /\ (i = Len(file) \/ file[i + 1].k = "text")

\* Buffered tokens are not flushed.
Reads(h) ==
    /\ resume[h].step = "waking"
    /\ Sends(h, file, Burst(file),
             IF file = <<>> THEN <<>> ELSE <<[k |-> "replay_start", ids |-> {}]>>)
    /\ cut' = buffer /\ synced' = TRUE
    \* An end of turn that is being signed is read here and sent once more; an empty
    \* log leaves the dashboard what it showed before.
    /\ disturbed' = \/ Replaying # {} \/ signing # {} \/ TextCut
                    \/ file = <<>> /\ chat.messages # <<>>
    /\ UNCHANGED <<emitted, final, logVars, signing, subscribed, clientVars, poller, lost, boundVars>>

SendsNext(h) ==
    /\ resume[h].step = "sending"
    /\ LET todo == resume[h].todo IN Sends(h, todo, 1 + Burst(Tail(todo)), <<>>)
    /\ UNCHANGED <<emitted, final, logVars, signing, subscribed, clientVars, poller, historyVars,
                   boundVars>>

-----------------------------------------------------------------------------
(* useWorkspaceChat.                                                         *)

Connects ==
    /\ ~connected /\ resumes < MaxResumes
    /\ connected' = TRUE /\ asked' = 1 /\ synced' = FALSE
    /\ resumes' = resumes + 1
    /\ UNCHANGED <<emitted, final, logVars, serverVars, wire, chat, poller, cut, lost, disturbed,
                   polls, restarts>>

Drop == /\ connected' = FALSE /\ asked' = 0 /\ wire' = <<>>
        /\ subscribed' = FALSE
        /\ resume' = [h \in Resumes |-> Idle]

\* What is on the wire is lost, and what a handler still sends goes nowhere.
Disconnects ==
    /\ connected
    /\ Drop
    /\ UNCHANGED <<emitted, final, logVars, signing, chat, poller, historyVars, boundVars>>

\* The user goes to another session and comes back, on the same connection.
Revisits ==
    /\ connected /\ resumes < MaxResumes
    /\ chat' = [chat EXCEPT !.messages = <<>>, !.stream = {}, !.target = 0]
    /\ asked' = asked + 1 /\ synced' = FALSE
    /\ resumes' = resumes + 1
    /\ UNCHANGED <<emitted, final, logVars, serverVars, wire, connected, poller, cut, lost, disturbed,
                   polls, restarts>>

Shows(c, ids) == Append(c.messages, ids)

\* The message created for this text, if it is still there, takes the token.
OnToken(c, ids) ==
    LET text == c.stream \cup ids IN
    IF c.target = 0
    THEN [c EXCEPT !.stream = text, !.messages = Shows(c, text), !.target = Len(c.messages) + 1]
    ELSE [c EXCEPT !.stream = text, !.messages[c.target] = text]
OnText(c, ids) == [c EXCEPT !.messages = Shows(c, ids), !.last = ids]
\* A tool call ends the text, which is remembered.
OnTool(c, ids) ==
    [c EXCEPT !.messages = Shows(c, ids), !.stream = {}, !.target = 0,
              !.last = IF c.stream = {} THEN @ ELSE c.stream]
\* The result replaces the text that was streamed; without one it is appended,
\* unless it is the text shown last.
OnDone(c, ids) ==
    [messages |-> IF c.stream = {}
                  THEN IF ids = {} \/ ids = c.last THEN c.messages ELSE Shows(c, ids)
                  ELSE LET text == IF ids = {} THEN c.stream ELSE ids IN
                       IF c.target = 0 THEN Shows(c, text)
                       ELSE [c.messages EXCEPT ![c.target] = text],
     stream |-> {}, target |-> 0, last |-> {}]
\* Mutant: a replay is added to what is shown.
ReplayAdds(c) == [c EXCEPT !.stream = {}, !.target = 0]
OnReplayStart(c) == [c EXCEPT !.messages = <<>>, !.stream = {}, !.target = 0]

\* What is shown and remembered after a message.
After(c, m) ==
    CASE m.k = "token" -> OnToken(c, m.ids)
      [] m.k = "text" -> OnText(c, m.ids)
      [] m.k = "tool" -> OnTool(c, m.ids)
      [] m.k = "turn.done" -> OnDone(c, m.ids)
      [] m.k = "replay_start" -> OnReplayStart(c)

Receives ==
    /\ wire # <<>>
    /\ wire' = Tail(wire)
    /\ chat' = After(chat, Head(wire))
    /\ UNCHANGED <<emitted, final, logVars, serverVars, asked, connected, poller, historyVars, boundVars>>

-----------------------------------------------------------------------------
(* workspace_events, and a restart of the server.                            *)

\* A set of places as a sequence, in their order.
InOrder(S) ==
    [n \in 1..Cardinality(S) |-> CHOOSE i \in S : Cardinality({j \in S : j <= i}) = n]

\* Mutant: the entry at the cursor is read again.
EventsFrom(entries, seq) == InOrder({i \in DOMAIN entries : entries[i].seq >= seq})
\* EventLog.read: the places of the events after a sequence number.
EventsAfter(entries, seq) == InOrder({i \in DOMAIN entries : entries[i].seq > seq})

\* Tokens are flushed; the page is what comes after the cursor in the file.
Polls ==
    /\ polls < MaxPolls
    /\ polls' = polls + 1
    /\ Writes(Flushed)
    /\ LET after == EventsAfter(file', poller.cursor)
           page == SubSeq(after, 1, IF Len(after) < PageSize THEN Len(after) ELSE PageSize) IN
       poller' = IF page = <<>> THEN poller
                 ELSE [cursor |-> file'[page[Len(page)]].seq, got |-> poller.got \o page]
    /\ UNCHANGED <<emitted, final, serverVars, wire, clientVars, historyVars, resumes, restarts>>

\* The file stays.  The turn that was running is over.
Restarts ==
    /\ restarts < MaxRestarts
    /\ restarts' = restarts + 1
    /\ counter' = 0 /\ buffer' = {} /\ lost' = lost \cup buffer
    /\ final' = {} /\ signing' = {}
    /\ Drop
    /\ UNCHANGED <<emitted, file, chat, poller, cut, disturbed, synced, resumes, polls>>

-----------------------------------------------------------------------------
Relays == EmitsToken \/ EmitsTool \/ EmitsDone
Resuming(h) == ResumeArrives(h) \/ Reads(h) \/ SendsNext(h)

Next ==
    \/ Relays \/ SendsDone
    \/ \E h \in Resumes : Resuming(h)
    \/ Connects \/ Disconnects \/ Revisits \/ Receives
    \/ Polls \/ Restarts

Spec == Init /\ [][Next]_vars

-----------------------------------------------------------------------------
(* Properties.                                                               *)

Ids(e) == IF e.k = "text" THEN e.ids ELSE {e.id}
Before(S, T) == \A x \in S, y \in T : x < y

\* The file holds what was emitted in the order it was emitted, each text exactly
\* the tokens between its neighbours, and nothing is missing but what is buffered
\* and what was buffered when a server stopped.
LogKeepsOrder ==
    /\ \A i, j \in DOMAIN file : i < j => Before(Ids(file[i]), Ids(file[j]))
    /\ \A i \in DOMAIN file : Before(Ids(file[i]), buffer)
    /\ (UNION {Ids(file[i]) : i \in DOMAIN file}) \cup buffer \cup lost = 1..emitted

Shown == UNION {chat.messages[i] : i \in DOMAIN chat.messages}
TurnEnds == {e.id : e \in {file[i] : i \in {j \in DOMAIN file : file[j].k = "turn.done"}}}
Quiet ==
    /\ connected /\ synced
    /\ asked = 0 /\ wire = <<>> /\ signing = {}
    /\ \A h \in Resumes : resume[h] = Idle

\* Whatever happened while the dashboard was away, woke the container, or was being
\* sent the log: when the connection falls silent it shows every event, except
\* tokens that were buffered when the log was read.
CaughtUp == Quiet /\ ~disturbed => 1..emitted \subseteq Shown \cup TurnEnds \cup cut \cup lost

\* And it shows them once and in their order; only a text whose beginning was
\* buffered when the log was read may come late, with the end of its turn.
ShownFaithfully ==
    Quiet /\ ~disturbed =>
      \A i, j \in DOMAIN chat.messages :
        i < j /\ chat.messages[j] \cap cut = {} => Before(chat.messages[i], chat.messages[j])

\* The caller of workspace_events that follows the cursor gets the file without a gap
\* or a repetition, as long as the server runs.
PolledInOrder == restarts = 0 => poller.got = [i \in 1..Len(poller.got) |-> i]

=============================================================================
