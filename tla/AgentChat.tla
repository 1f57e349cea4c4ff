----------------------------- MODULE AgentChat -----------------------------
(***************************************************************************)
(* The conversation with the modelling agent: the session, the stream of   *)
(* events that answers a message, the connection's state, the timers of a  *)
(* broken connection, and the files that are uploaded for the agent.       *)
(*                                                                         *)
(* The state outlives the page in part: the page's store is global and is  *)
(* reset when the page is left, but handlers and timers that are not       *)
(* cancelled go on and write to it.                                        *)
(***************************************************************************)
EXTENDS Screen

CONSTANTS
  MaxStreams,   \* bound: messages that are sent
  MaxUploads    \* bound: instants at which files are chosen

\* text: the streams whose words are in the partial answer.  timer is the timer
\* that can be cancelled; a later one takes its place and leaves it running, as
\* a forgotten one.  uploading: the entries of files under way; their keys are
\* instants.
ChatDefault ==
  [kind |-> "chat", here |-> FALSE, panel |-> TRUE, session |-> None,
   page |-> "empty", status |-> "idle", typed |-> FALSE,
   streaming |-> FALSE, text |-> {}, messages |-> <<>>, streams |-> 0,
   timer |-> FALSE, forgotten |-> 0, uploading |-> {}, instant |-> 0]

ChatHere == form.kind = "chat" /\ form.here

\* What ChatPanel shows of a session.
ChatPanelShown == ChatHere /\ form.panel /\ form.session # None

ChatEnter ==
  /\ form.kind = "chat" /\ ~form.here
  /\ form' = [form EXCEPT !.here = TRUE]
  /\ UNCHANGED <<calls, server>>

\* The handlers whose component is gone.
Detached(asks) ==
  [i \in 1..Len(calls) |->
     IF calls[i].ask \in asks THEN [calls[i] EXCEPT !.left = TRUE] ELSE calls[i]]

\* The handlers but the one of the stream, of which there is one at a time.
WithoutStream(cs) == RemoveFirstMatch(cs, LAMBDA c : c.ask = "chat")

\* The page is left: the stream is aborted, the latest timer cancelled, the
\* store reset.
ChatLeave ==
  /\ ChatHere
  /\ form' = [ChatDefault EXCEPT
       !.forgotten = form.forgotten, !.streams = form.streams, !.instant = form.instant]
  /\ calls' = WithoutStream(Detached({"session", "upload"}))
  /\ UNCHANGED server

\* toggleChatPanel: a collapsed panel is not mounted, and what was typed and the
\* progress of uploads is lost with it.
ChatTogglePanel ==
  /\ ChatHere
  /\ form' = [form EXCEPT !.panel = ~@, !.typed = FALSE, !.uploading = {}]
  /\ calls' = Detached({"upload"})
  /\ UNCHANGED server

-----------------------------------------------------------------------------
(* The session. *)

\* The ontology's object types have been loaded: there are some.
ChatFindsObjects ==
  /\ ChatHere /\ form.session = None /\ form.page = "empty" /\ server.objects
  /\ form' = [form EXCEPT !.page = "existing"]
  /\ UNCHANGED <<calls, server>>

\* The list of sessions has been loaded: the latest is taken up again, a
\* completed one too.  Its earlier messages are not shown.
ChatRestores ==
  /\ ChatHere /\ form.panel /\ form.session = None /\ server.session # None
  /\ form' = [form EXCEPT !.session = "session", !.page = "existing"]
  /\ UNCHANGED <<calls, server>>

\* GuidanceCard's handleSubmit; the buttons do not answer while it is under way.
ChatGuide ==
  /\ ChatHere /\ form.page = "empty" /\ form.session = None
  /\ ~\E i \in 1..Len(calls) : calls[i].ask = "session" /\ ~calls[i].left
  /\ Start([ask |-> "session", left |-> FALSE])
  /\ UNCHANGED <<form, server>>

\* The store takes the session, whether the page is still shown or not.
ChatGuided(i) ==
  /\ form.kind = "chat" /\ Waiting(i, "done") /\ calls[i].ask = "session"
  /\ form' = [form EXCEPT !.session = "session", !.page = "existing"]
  /\ Return(i)
  /\ UNCHANGED server

ChatGuideFailed(i) ==
  /\ form.kind = "chat" /\ Waiting(i, "failed") /\ calls[i].ask = "session"
  /\ Return(i)
  /\ UNCHANGED <<form, server>>

-----------------------------------------------------------------------------
(* Messages and answers. *)

ChatType ==
  /\ ChatPanelShown /\ ~form.streaming
  /\ form' = [form EXCEPT !.typed = TRUE]
  /\ UNCHANGED <<calls, server>>

\* Mutant of ChatStream: what an answer that failed has left is not cleared.
ChatStreamOnTop(typed) ==
  LET stream == form.streams + 1
  IN  /\ form' = [form EXCEPT
           !.typed = typed, !.streaming = TRUE, !.status = "connected",
           !.page = "analyzing", !.streams = stream,
           !.messages = Append(@, [by |-> "user", of |-> {stream}])]
      /\ calls' = Append(WithoutStream(calls),
           [ask |-> "chat", stream |-> stream, ended |-> FALSE, left |-> FALSE,
            state |-> "sent"])

\* startStream: the stream before it, which may not have been closed yet, is
\* aborted, and its handler returns.  A timer of it goes on.
ChatStream(typed) ==
  LET stream == form.streams + 1
  IN  /\ form' = [form EXCEPT
           !.typed = typed, !.streaming = TRUE, !.text = {}, !.status = "connected",
           !.page = "analyzing", !.streams = stream,
           !.messages = Append(@, [by |-> "user", of |-> {stream}])]
      /\ calls' = Append(WithoutStream(calls),
           [ask |-> "chat", stream |-> stream, ended |-> FALSE, left |-> FALSE,
            state |-> "sent"])

\* send drops a message while an answer streams.
ChatMaySend ==
  /\ ChatHere /\ form.session # None /\ ~form.streaming /\ form.streams < MaxStreams
  /\ Len(WithoutStream(calls)) < MaxCalls

ChatSend ==
  /\ ChatMaySend /\ form.panel /\ form.typed
  /\ ChatStream(FALSE)
  /\ UNCHANGED server

\* A question about the selected entity that the page proposes.  Some entity may
\* be selected at any time.
ChatPropose ==
  /\ ChatMaySend /\ form.panel
  /\ ChatStream(form.typed)
  /\ UNCHANGED server

\* handleLinkCreate: a link is drawn on the canvas, beside the panel or without it.
ChatDrawLink ==
  /\ ChatMaySend
  /\ ChatStream(form.typed)
  /\ UNCHANGED server

\* handleEvent.  The steps of the agent's plan are left out.
ChatEvent(i) ==
  form.kind = "chat" /\ Waiting(i, "open") /\ calls[i].ask = "chat" /\ ~calls[i].ended

ChatText(i) ==
  /\ ChatEvent(i)
  /\ form' = [form EXCEPT !.text = @ \cup {calls[i].stream}]
  /\ UNCHANGED <<calls, server>>

\* The end of the answer; the stream itself is closed later.
ChatDone(i) ==
  /\ ChatEvent(i)
  /\ form' = [form EXCEPT
       !.messages = IF form.text = {} THEN @
                    ELSE Append(@, [by |-> "assistant", of |-> form.text]),
       !.text = {}, !.streaming = FALSE, !.status = "idle"]
  /\ calls' = [calls EXCEPT ![i].ended = TRUE]
  /\ UNCHANGED server

\* The agent failed: what has been answered so far stays where it is.
ChatError(i) ==
  /\ ChatEvent(i)
  /\ form' = [form EXCEPT !.streaming = FALSE, !.status = "idle"]
  /\ calls' = [calls EXCEPT ![i].ended = TRUE]
  /\ UNCHANGED server

\* adapt_stream of the server ends each stream that it closes with done or error;
\* the client would take a close without either as well, and wait for ever.
ChatStreamOver(call) == call.ended

ChatCloses(i) ==
  /\ form.kind = "chat" /\ Waiting(i, "open") /\ calls[i].ask = "chat"
  /\ ChatStreamOver(calls[i])
  /\ Return(i)
  /\ UNCHANGED <<form, server>>

\* Mutant of ChatBreaks: the connection is given up, the answer is waited for.
ChatBreaksWaiting(i) ==
  /\ form.kind = "chat" /\ \E state \in {"open", "failed"} : Waiting(i, state)
  /\ calls[i].ask = "chat"
  /\ form' = [form EXCEPT
       !.status = "reconnecting",
       !.timer = TRUE, !.forgotten = IF form.timer THEN @ + 1 ELSE @]
  /\ Return(i)
  /\ UNCHANGED server

\* The request is refused, or the stream breaks, before its end or after the
\* last event.  The timer before it is not cancelled.
ChatBreaks(i) ==
  /\ form.kind = "chat" /\ \E state \in {"open", "failed"} : Waiting(i, state)
  /\ calls[i].ask = "chat"
  /\ form' = [form EXCEPT
       !.status = "reconnecting", !.streaming = FALSE,
       !.timer = TRUE, !.forgotten = IF form.timer THEN @ + 1 ELSE @]
  /\ Return(i)
  /\ UNCHANGED server

\* scheduleReconnect gives up after a second; nothing connects again.
ChatTimer ==
  /\ form.kind = "chat" /\ form.timer
  /\ form' = [form EXCEPT !.timer = FALSE, !.status = "disconnected"]
  /\ UNCHANGED <<calls, server>>

ChatForgottenTimer ==
  /\ form.kind = "chat" /\ form.forgotten > 0
  /\ form' = [form EXCEPT !.forgotten = @ - 1, !.status = "disconnected"]
  /\ UNCHANGED <<calls, server>>

\* The banner's button takes the banner away.
ChatReconnect ==
  /\ ChatHere /\ form.status = "disconnected"
  /\ form' = [form EXCEPT !.timer = FALSE, !.status = "idle"]
  /\ UNCHANGED <<calls, server>>

-----------------------------------------------------------------------------
(* Files for the agent. *)

\* handleFile, once for each file that is chosen or dropped: files that are
\* dropped together have the same key.
UploadFile(instant) ==
  /\ ChatPanelShown
  /\ instant \in {form.instant, form.instant + 1} \ {0} /\ instant <= MaxUploads
  /\ Start([ask |-> "upload", instant |-> instant, left |-> FALSE])
  /\ form' = [form EXCEPT !.instant = instant, !.uploading = @ \cup {instant}]
  /\ UNCHANGED server

\* The progress that is shown is made up: the entry comes back when the end of
\* another file with the same key has taken it away.
UploadTick(i) ==
  /\ form.kind = "chat" /\ i \in 1..Len(calls) /\ calls[i].ask = "upload" /\ ~calls[i].left
  /\ form' = [form EXCEPT !.uploading = @ \cup {calls[i].instant}]
  /\ UNCHANGED <<calls, server>>

\* Mutant of UploadEnds: the entry of a file that failed stays.
UploadEndsWell(i) ==
  /\ form.kind = "chat" /\ \E state \in {"done", "failed"} : Waiting(i, state)
  /\ calls[i].ask = "upload"
  /\ form' = [form EXCEPT !.uploading =
       IF calls[i].left \/ calls[i].state = "failed" THEN @ ELSE @ \ {calls[i].instant}]
  /\ Return(i)
  /\ UNCHANGED server

UploadEnds(i) ==
  /\ form.kind = "chat" /\ \E state \in {"done", "failed"} : Waiting(i, state)
  /\ calls[i].ask = "upload"
  /\ form' = [form EXCEPT !.uploading = IF calls[i].left THEN @ ELSE @ \ {calls[i].instant}]
  /\ Return(i)
  /\ UNCHANGED server

-----------------------------------------------------------------------------
\* One session is active at a time; a message needs an active one.
ChatServe(i) ==
  /\ form.kind = "chat" /\ Waiting(i, "sent")
  /\ CASE calls[i].ask = "session" ->
            /\ server.session # "active"
            /\ server' = [server EXCEPT !.session = "active"]
            /\ Answer(i, "done")
       [] calls[i].ask = "chat" ->
            server.session = "active" /\ Answer(i, "open") /\ UNCHANGED server
       [] OTHER -> Answer(i, "done") /\ UNCHANGED server
  /\ UNCHANGED form

\* Another client completes the session.
ChatCompleted ==
  /\ form.kind = "chat" /\ server.session = "active"
  /\ server' = [server EXCEPT !.session = "completed"]
  /\ UNCHANGED <<form, calls>>

ChatInit ==
  /\ form = ChatDefault /\ calls = <<>>
  /\ server \in [session : {None, "active"}, objects : BOOLEAN]

ChatEnds(i) ==
  \/ ChatGuided(i) \/ ChatGuideFailed(i) \/ ChatDone(i) \/ ChatError(i)
  \/ ChatCloses(i) \/ ChatBreaks(i) \/ UploadEnds(i)

ChatNext ==
  \/ ChatEnter \/ ChatLeave \/ ChatTogglePanel
  \/ ChatFindsObjects \/ ChatRestores \/ ChatGuide
  \/ ChatType \/ ChatSend \/ ChatPropose \/ ChatDrawLink
  \/ ChatTimer \/ ChatForgottenTimer \/ ChatReconnect \/ ChatCompleted
  \/ \E instant \in 1..MaxUploads : UploadFile(instant)
  \/ \E i \in 1..MaxCalls :
       \/ ChatText(i) \/ UploadTick(i) \/ ChatServe(i)
       \/ ChatGuided(i) \/ ChatGuideFailed(i) \/ ChatDone(i) \/ ChatError(i)
       \/ ChatCloses(i) \/ ChatBreaks(i) \/ UploadEnds(i)

ChatSpec ==
  ChatInit /\ [][ChatNext \/ \E i \in 1..MaxCalls : Refuse(i) \/ LoseAnswer(i)]_vars

-----------------------------------------------------------------------------
(* Properties. *)

\* An answer in the conversation stands right behind its question and holds
\* words of that answer only: none of one that failed, or that was left behind
\* when the next question was asked.
AnswersAreWhole ==
  form.kind = "chat" =>
    \A k \in 1..Len(form.messages) :
      form.messages[k].by = "assistant" =>
        /\ k > 1 /\ form.messages[k - 1].by = "user"
        /\ form.messages[k].of = form.messages[k - 1].of

\* An entry of a file under way belongs to one, although files that are dropped
\* together share an entry, their ends take it away and their timers bring it
\* back, and the panel may be closed and opened meanwhile.
UploadsShownAreUnderWay ==
  form.kind = "chat" =>
    form.uploading \subseteq
      {calls[i].instant : i \in {j \in 1..Len(calls) : calls[j].ask = "upload"}}

\* The input is never blocked for ever: each answer ends, fails, breaks off, or
\* is aborted with the page.
ChatStreamingEnds ==
  []<>(form.kind = "chat" => ~form.streaming)
=============================================================================
