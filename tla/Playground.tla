----------------------------- MODULE Playground -----------------------------
(***************************************************************************)
(* The chat page of the web console (web/default/src/features/playground). *)
(* One page keeps a list of messages in a React state, sends it to the     *)
(* chat endpoint and applies what comes back to the LAST message of the    *)
(* list.  Three things run against each other:                             *)
(*  - handlers of clicks, which read the list and isGenerating of the last *)
(*    render and replace the whole list; React renders before they return; *)
(*  - events of the requests, which queue updates of the current list and  *)
(*    are rendered some time later;                                        *)
(*  - a reload, which starts again from localStorage.                      *)
(* Text is abstracted to the set of requests it came from.                 *)
(***************************************************************************)
EXTENDS Naturals, Sequences, SequencesExt

CONSTANTS
    MaxKeys,    \* bound on the messages ever created
    Modes       \* the values config.stream may have

ASSUME PlaygroundAssumption ==
    /\ MaxKeys \in Nat
    /\ Modes \subseteq BOOLEAN

VARIABLES
    stream,     \* config.stream
    messages,   \* the list, with every queued update applied
    shown,      \* what the last render saw: the list and isGenerating
    storage,    \* the list in localStorage
    net,        \* the connection of the request made for each key
    source,     \* sseSourceRef: the key of its request, or None
    complete,   \* isStreamCompleteRef, shared by all requests of the page
    editing,    \* editingMessageKey, or None
    made,       \* number of message keys used
    raced       \* an unguarded handler replaced the list while a request was
                \* open or an update not rendered yet

vars == <<stream, messages, shown, storage, net, source, complete, editing,
          made, raced>>

None == 0
Typed == 0      \* in a text: written by the user or by the page itself
Keys == 1..MaxKeys

InFlight == {"loading", "streaming"}
Message ==
    [key: Keys, from: {"user", "assistant"}, text: SUBSET (Keys \cup {Typed}),
     status: InFlight \cup {"complete", "error"}]

createUserMessage(k) ==
    [key |-> k, from |-> "user", text |-> {Typed}, status |-> "complete"]
createLoadingAssistantMessage(k) ==
    [key |-> k, from |-> "assistant", text |-> {}, status |-> "loading"]

TypeOK ==
    /\ stream \in BOOLEAN
    /\ \A list \in {messages, shown.messages, storage} :
          /\ Len(list) <= made
          /\ list \in Seq(Message)
          /\ \A i, j \in DOMAIN list : list[i].key = list[j].key => i = j
    /\ shown.isGenerating \in BOOLEAN
    /\ net \in [Keys -> {"unused", "open", "closed"}]
    /\ {source, editing} \subseteq Keys \cup {None}
    /\ complete \in BOOLEAN
    /\ made \in 0..MaxKeys
    /\ raced \in BOOLEAN

Init ==
    /\ stream \in Modes
    /\ messages = <<>>
    /\ shown = [messages |-> <<>>, isGenerating |-> FALSE]
    /\ storage = <<>>
    /\ net = [k \in Keys |-> "unused"]
    /\ source = None
    /\ complete = FALSE
    /\ editing = None
    /\ made = 0
    /\ raced = FALSE

-----------------------------------------------------------------------------
(* Message lists. *)

(* new, made from the last message, replaces it if it is the assistant's.  *)
updateLastAssistantMessage(list, new) ==
    IF list # <<>> /\ Last(list).from = "assistant"
    THEN [list EXCEPT ![Len(list)] = new]
    ELSE list

Received(m, k) == [m EXCEPT !.text = @ \cup {k}, !.status = "streaming"]
Completed(m) == [m EXCEPT !.status = "complete"]
Erroneous(m) == [m EXCEPT !.status = "error", !.text = {Typed}]

(* Only the last message that is in flight is put right.                   *)
sanitizeMessagesOnLoad(list) ==
    LET stuck == {i \in DOMAIN list : list[i].status \in InFlight}
    IN IF stuck = {} THEN list
       ELSE LET i == CHOOSE i \in stuck : \A j \in stuck : j <= i
            IN [list EXCEPT ![i] =
                   IF @.text # {} THEN Completed(@) ELSE Erroneous(@)]

-----------------------------------------------------------------------------
(* React. *)

Pending == messages # shown.messages

(* A click: its updates and the queued ones are rendered and saved before  *)
(* anything else happens.  isGenerating is read from the reference then.   *)
Click(list, src) ==
    /\ messages' = list
    /\ shown' = [messages |-> list, isGenerating |-> src # None]
    /\ storage' = list
    /\ source' = src

(* updateMessages outside a click: the updater is queued.  It runs (and    *)
(* saves) at once only if nothing is queued, and even then not always.     *)
Queue(list) ==
    /\ messages' = list
    /\ shown' = shown
    /\ \/ storage' = storage
       \/ ~Pending /\ storage' = list

Render ==
    /\ Pending \/ shown.isGenerating # (source # None)
    /\ shown' = [messages |-> messages, isGenerating |-> source # None]
    /\ storage' = messages
    /\ UNCHANGED <<stream, messages, net, source, complete, editing, made, raced>>

-----------------------------------------------------------------------------
(* Clicks. *)

(* sendChat: a stream is remembered in sseSourceRef and resets the shared  *)
(* flag; source.stream() may throw, which ends the message at once.  A     *)
(* plain request leaves no trace in the references.                        *)
sendChat(list, k) ==
    \/ /\ stream
       /\ net' = [net EXCEPT ![k] = "open"]
       /\ complete' = FALSE
       /\ Click(list, k)
    \/ /\ stream
       /\ net' = [net EXCEPT ![k] = "closed"]
       /\ complete' = FALSE
       /\ Click(updateLastAssistantMessage(list, Erroneous(Last(list))), None)
    \/ /\ ~stream
       /\ net' = [net EXCEPT ![k] = "open"]
       /\ complete' = complete
       /\ Click(list, source)

(* An answer is expected or not rendered yet.                              *)
Busy == Pending \/ source # None \/ \E k \in Keys : net[k] = "open"

(* Mutant: nothing is guarded while a request runs.                        *)
GuardedBug == raced' = raced

(* guardAction and the disabled input: refused while the last render saw a *)
(* stream.  A plain request is never seen.                                 *)
Guarded ==
    /\ ~shown.isGenerating
    /\ raced' = (raced \/ (~stream /\ Busy))

Unguarded == raced' = (raced \/ Busy)

handleSendMessage ==
    /\ made + 2 <= MaxKeys
    /\ made' = made + 2
    /\ sendChat(shown.messages \o <<createUserMessage(made + 1),
                    createLoadingAssistantMessage(made + 2)>>, made + 2)
    /\ UNCHANGED <<stream, editing>>

(* The text box and its button.  Without attachments PromptInput reaches   *)
(* onSubmit in a microtask of the click; the wait for pasted files to be   *)
(* read is not modelled.                                                   *)
handleSubmit == Guarded /\ handleSendMessage

(* The suggestions below the text box and on the empty page.               *)
handleSuggestionClick == Unguarded /\ handleSendMessage

(* The buttons below a message: only where it is shown, not edited, and    *)
(* has something to show.                                                  *)
HasActions(i) ==
    /\ i \in DOMAIN shown.messages
    /\ shown.messages[i].key # editing
    /\ shown.messages[i].text # {}

handleRegenerateMessage(i) ==
    /\ Guarded
    /\ HasActions(i)
    /\ shown.messages[i].from = "assistant"
    /\ shown.messages[i].status \notin InFlight
    /\ made < MaxKeys
    /\ made' = made + 1
    /\ sendChat(SubSeq(shown.messages, 1, i - 1)
                    \o <<createLoadingAssistantMessage(made + 1)>>, made + 1)
    /\ UNCHANGED <<stream, editing>>

handleDeleteMessage(i) ==
    /\ Guarded
    /\ HasActions(i)
    /\ Click(RemoveAt(shown.messages, i), source)
    /\ UNCHANGED <<stream, net, complete, editing, made>>

handleEditMessage(i) ==
    /\ ~shown.isGenerating
    /\ HasActions(i)
    /\ editing' = shown.messages[i].key
    /\ Click(messages, source)
    /\ UNCHANGED <<stream, net, complete, made, raced>>

handleEditOpenChange ==
    /\ editing # None
    /\ editing' = None
    /\ Click(messages, source)
    /\ UNCHANGED <<stream, net, complete, made, raced>>

Edited(i) == [shown.messages EXCEPT ![i].text = {Typed}]

(* applyEdit.  The editor stays open, and works, while a request runs.     *)
SaveEdit(i) ==
    /\ Unguarded
    /\ i \in DOMAIN shown.messages
    /\ shown.messages[i].key = editing
    /\ editing' = None
    /\ Click(Edited(i), source)
    /\ UNCHANGED <<stream, net, complete, made>>

SaveEditAndSubmit(i) ==
    /\ Unguarded
    /\ i \in DOMAIN shown.messages
    /\ shown.messages[i].key = editing
    /\ shown.messages[i].from = "user"
    /\ made < MaxKeys
    /\ made' = made + 1
    /\ editing' = None
    /\ sendChat(SubSeq(Edited(i), 1, i)
                    \o <<createLoadingAssistantMessage(made + 1)>>, made + 1)
    /\ UNCHANGED stream

StopFinal(m) == IF m.status \in InFlight THEN Completed(m) ELSE m

(* Mutant: the message is finalized and the connection left open.          *)
stopGenerationBug ==
    /\ shown.isGenerating
    /\ Click(updateLastAssistantMessage(messages, StopFinal(Last(messages))), None)
    /\ UNCHANGED <<stream, net, complete, editing, made, raced>>

(* The stop button, shown in place of send while isGenerating.             *)
stopGeneration ==
    /\ shown.isGenerating
    /\ net' = IF source # None THEN [net EXCEPT ![source] = "closed"] ELSE net
    /\ Click(updateLastAssistantMessage(messages, StopFinal(Last(messages))), None)
    /\ UNCHANGED <<stream, complete, editing, made, raced>>

(* The page is loaded again; its requests are gone.                        *)
Reload ==
    LET list == sanitizeMessagesOnLoad(storage)
    IN
    /\ net' = [k \in Keys |-> IF net[k] = "open" THEN "closed" ELSE net[k]]
    /\ complete' = FALSE
    /\ editing' = None
    /\ Click(list, None)
    /\ UNCHANGED <<stream, made, raced>>

-----------------------------------------------------------------------------
(* Events of the request made for key k (use-stream-request.ts). *)

Streams(k) == stream /\ net[k] = "open"

handleStreamUpdate(k) ==
    LET f(m) == IF m.status = "error" THEN m ELSE Received(m, k)
    IN
    /\ Streams(k)
    /\ Queue(updateLastAssistantMessage(messages, f(Last(messages))))
    /\ UNCHANGED <<stream, net, source, complete, editing, made, raced>>

StreamFinal(m) == IF m.status \in {"complete", "error"} THEN m ELSE Completed(m)

(* Mutant: [DONE] closes the source and does not touch the message.        *)
handleStreamCompleteBug(k) ==
    /\ Streams(k)
    /\ complete' = TRUE
    /\ net' = [net EXCEPT ![k] = "closed"]
    /\ source' = None
    /\ Queue(messages)
    /\ UNCHANGED <<stream, editing, made, raced>>

(* The message [DONE]; the reference is cleared whichever stream it holds. *)
handleStreamComplete(k) ==
    /\ Streams(k)
    /\ complete' = TRUE
    /\ net' = [net EXCEPT ![k] = "closed"]
    /\ source' = None
    /\ Queue(updateLastAssistantMessage(messages, StreamFinal(Last(messages))))
    /\ UNCHANGED <<stream, editing, made, raced>>

(* An error of the transport or of the server, or a chunk that cannot be   *)
(* parsed: ignored if some stream of the page has completed since the last *)
(* one was started.  A transport that failed is closed all the same, after *)
(* a bad chunk the stream goes on.                                         *)
handleError(k) ==
    /\ Streams(k)
    /\ \/ /\ ~complete
          /\ net' = [net EXCEPT ![k] = "closed"]
          /\ source' = None
          /\ Queue(updateLastAssistantMessage(messages, Erroneous(Last(messages))))
       \/ /\ complete
          /\ net' \in {net, [net EXCEPT ![k] = "closed"]}
          /\ UNCHANGED <<source, messages, shown, storage>>
    /\ UNCHANGED <<stream, complete, editing, made, raced>>

(* The server closes the connection without [DONE]: no listener acts, and  *)
(* the page goes on showing the stop button.                               *)
ServerEnds(k) ==
    /\ Streams(k)
    /\ net' = [net EXCEPT ![k] = "closed"]
    /\ UNCHANGED <<stream, messages, shown, storage, source, complete, editing, made, raced>>

(* The answer to a plain request.  Without a choice nothing happens.       *)
sendNonStreamingChat(k) ==
    LET answered(m) == [m EXCEPT !.text = {k}, !.status = "complete"]
    IN
    /\ ~stream
    /\ net[k] = "open"
    /\ net' = [net EXCEPT ![k] = "closed"]
    /\ \/ Queue(updateLastAssistantMessage(messages, answered(Last(messages))))
       \/ Queue(updateLastAssistantMessage(messages, Erroneous(Last(messages))))
       \/ Queue(messages)
    /\ UNCHANGED <<stream, source, complete, editing, made, raced>>

-----------------------------------------------------------------------------

UserClick ==
    \/ handleSubmit
    \/ handleSuggestionClick
    \/ handleEditOpenChange
    \/ stopGeneration
    \/ \E i \in 1..Len(shown.messages) :
          \/ handleRegenerateMessage(i)
          \/ handleDeleteMessage(i)
          \/ handleEditMessage(i)
          \/ SaveEdit(i)
          \/ SaveEditAndSubmit(i)

RequestEvent(k) ==
    \/ handleStreamUpdate(k)
    \/ handleStreamComplete(k)
    \/ handleError(k)
    \/ ServerEnds(k)
    \/ sendNonStreamingChat(k)

Next ==
    \/ UserClick
    \/ Reload
    \/ Render
    \/ \E k \in Keys : RequestEvent(k)

Spec == Init /\ [][Next]_vars

-----------------------------------------------------------------------------
(* Properties.  The page guards most actions by isGenerating of the last   *)
(* render.  The suggestions, the open editor and plain requests pass the   *)
(* guard; what they break is recorded in raced.                            *)

(* However late React renders, the guards let at most one stream be open,  *)
(* and it is the one the stop button closes.                               *)
OneStream ==
    stream /\ ~raced => \A k \in Keys : net[k] = "open" => source = k

(* Every answer stands in the message made for it, although all events are *)
(* applied to whatever message is last.                                    *)
AnswersStayApart ==
    ~raced => \A m \in Range(messages) : m.text \subseteq {Typed, m.key}

(* When no stream is referenced any more no message waits for one.         *)
SettledWhenIdle ==
    stream /\ ~raced /\ source = None =>
        \A m \in Range(messages) : m.status \notin InFlight

(* A reload at any moment leaves no message waiting, although              *)
(* sanitizeMessagesOnLoad puts only one of them right and the storage may  *)
(* be behind the page.                                                     *)
ReloadSettles ==
    stream /\ ~raced =>
        \A m \in Range(sanitizeMessagesOnLoad(storage)) : m.status \notin InFlight

-----------------------------------------------------------------------------
(* What keeps these properties true from step to step.                     *)

Lists == {messages, shown.messages, storage}

(* No message has a key that is still to be given out, and only the        *)
(* assistant's messages wait.                                              *)
KeysMade ==
    \A list \in Lists : \A i \in DOMAIN list :
        /\ list[i].key <= made
        /\ list[i].status \in InFlight => list[i].from = "assistant"

(* Whatever is delayed, a referenced stream can be stopped.                *)
StopOffered == source # None => shown.isGenerating

(* An open request belongs to the last message, which waits for it.        *)
AnswerComesLast ==
    ~raced => \A k \in Keys : net[k] = "open" =>
        /\ messages # <<>>
        /\ messages[Len(messages)].key = k
        /\ stream => messages[Len(messages)].status \in InFlight

(* What is shown or stored has not mixed either.                           *)
TextsApart ==
    ~raced => \A list \in Lists : \A i \in DOMAIN list :
        list[i].text \subseteq {Typed, list[i].key}

(* No message but the last one waits, on the page and in the storage.      *)
OnlyLastWaits ==
    stream /\ ~raced => \A list \in Lists : \A i \in DOMAIN list :
        i < Len(list) => list[i].status \notin InFlight

(* A page that offers no stop button shows no message that waits.          *)
ShownSettled ==
    stream /\ ~raced /\ ~shown.isGenerating =>
        \A i \in DOMAIN shown.messages : shown.messages[i].status \notin InFlight

(* The list with its queued updates, and the one in the storage, are ahead *)
(* of the render, and never take back an end that has been shown.          *)
Follows(list) ==
    /\ Len(list) = Len(shown.messages)
    /\ \A i \in DOMAIN list :
        /\ list[i].key = shown.messages[i].key
        /\ shown.messages[i].status = "error" => list[i].status = "error"
        /\ ~raced /\ shown.messages[i].status = "complete" => list[i].status = "complete"

RenderFollows == stream => Follows(messages) /\ Follows(storage)

(* The page and its storage are in order at every moment: one stream, and  *)
(* a list that a reload can put right.                                     *)
PlaygroundInv ==
    /\ TypeOK
    /\ OneStream
    /\ ReloadSettles
    /\ KeysMade
    /\ StopOffered
    /\ AnswerComesLast
    /\ TextsApart
    /\ OnlyLastWaits
    /\ ShownSettled
    /\ RenderFollows

(* A streamed message once shown as an error is never shown as anything    *)
(* else: late chunks, [DONE], stop, edits and reloads leave it.  While the *)
(* guards hold a finished message stays as it ended, too.                  *)
FinalStays ==
    [][\A m \in Range(shown.messages), n \in Range(shown'.messages) :
          stream /\ m.key = n.key =>
              /\ m.status = "error" => n.status = "error"
              /\ ~raced' /\ m.status = "complete" => n.status = "complete"]_vars

=============================================================================
