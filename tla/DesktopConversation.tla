-------------------------- MODULE DesktopConversation --------------------------
(***************************************************************************)
(* The Conversation page of the desktop: the window (MainWindow, the GUI   *)
(* thread), its ClientWorker on a thread of its own, and the Turns the     *)
(* Core keeps.  The window's requests and the worker's signals are two     *)
(* queues; the worker serves one request at a time and blocks in it.       *)
(*                                                                         *)
(* The window shows one list of messages: those of the pages of Turns it   *)
(* received, the texts the user typed, and the answers to them.  The       *)
(* worker's ClientApplicationService has a current Conversation of its     *)
(* own, and a text is sent to that one.                                    *)
(*                                                                         *)
(* Left out: voice (module DesktopVoice), Tasks, notifications, settings   *)
(* and the privacy question.                                               *)
(***************************************************************************)
EXTENDS TextStream, FiniteSets

CONSTANTS
  Conv,       (* Conversations, those that will be created included        *)
  Saved,      (* the Conversation the settings name at the start           *)
  Stored,     (* for each Conversation, its Turns at the start; 0: unborn  *)
  PageSize,   (* limit of a page of Turns                                  *)
  MaxTurns,   (* bound: Turns of a Conversation when another client adds one *)
  MaxTexts,   (* bound: texts the user types                               *)
  MaxEvents,  (* bound: events of a provider's stream                      *)
  MaxPresses, (* bound: Conversations opened or created, older pages asked *)
  MaxFailures (* bound: calls that fail                                    *)

None == "none"

ASSUME DesktopConversationAssumption ==
  /\ None \notin Conv /\ Saved \in Conv
  /\ Stored \in [Conv -> Nat] /\ Stored[Saved] > 0
  /\ PageSize \in Nat \ {0} /\ {MaxTurns, MaxTexts, MaxEvents, MaxPresses, MaxFailures} \subseteq Nat

VARIABLES
  turns,      (* the Core: for each Conversation, the text of each Turn, 0 for *)
              (* those of other clients and of earlier days                *)
  born,       (* Conversations that exist                                  *)
  requests,   (* requests of the window that the worker has not taken up   *)
  job,        (* the request it is serving                                 *)
  service,    (* service.conversation_id                                   *)
  lost,       (* the last call that was to open a Conversation failed      *)
  told,       (* signals the window has not handled                        *)
  current,    (* _current_conversation_id                                  *)
  row,        (* the selected row of the list of Conversations             *)
  restored,   (* _current_conversation_restored                            *)
  shown,      (* _conversation_messages                                    *)
  oldest,     (* _oldest_loaded_sequence, 0 when there is none             *)
  hasOlder,   (* _has_older_turns                                          *)
  showing,    (* Conversations it has been told of as opened (history)     *)
  crossed,    (* the list holds an older page that was asked for before the *)
              (* Conversation was opened again (history)                   *)
  typed,      (* the texts sent: in which Conversation, was the window settled *)
  went,       (* for each text, the Conversation that stored it            *)
  turnStatus, (* for each text, the status of its Turn                     *)
  answered,   (* the texts whose end the window was told of                *)
  presses, failures

core == <<turns, born, turnStatus>>
clientWorker == <<job, service, lost>>
onPage == <<shown, oldest, hasOlder, crossed>>
window == <<current, row, restored, showing, onPage>>
typing == <<typed, presses>>
pageVars == <<core, requests, clientWorker, told, window, typing, went, answered, failures>>

Idle == [kind |-> "idle"]
Text == 1..MaxTexts

PageInit ==
  /\ turns = [c \in Conv |-> [n \in 1..Stored[c] |-> 0]]
  /\ born = {c \in Conv : Stored[c] > 0}
  /\ requests = <<[kind |-> "list"]>> /\ job = Idle /\ service = None /\ told = <<>>
  /\ lost = FALSE
  /\ current = Saved /\ row = None /\ restored = FALSE
  /\ shown = <<>> /\ oldest = 0 /\ hasOlder = FALSE /\ showing = 0 /\ crossed = FALSE
  /\ typed = <<>> /\ went = [k \in Text |-> None] /\ answered = {}
  /\ turnStatus = [k \in Text |-> None]
  /\ presses = 0 /\ failures = 0

Asks(request) == requests' = Append(requests, request)
Tells(signal) == told' = Append(told, signal)
TellsBoth(s1, s2) == told' = told \o <<s1, s2>>
Fault == failures < MaxFailures /\ failures' = failures + 1

(***************************************************************************)
(* ConversationHistoryService.list_turns: the newest Turns, or the newest  *)
(* before a sequence, oldest first, and whether there are older ones.      *)
(***************************************************************************)
Least(m, n) == IF m < n THEN m ELSE n

Page(c, before) ==
  LET last == Least(before - 1, Len(turns[c]))
      size == Least(PageSize, last)
  IN [numbers |-> [i \in 1..size |-> last - size + i], older |-> last > size]

Newest(c) == Page(c, Len(turns[c]) + 1)
NoTurns == [numbers |-> <<>>, older |-> FALSE]

Opened(c, page) == [kind |-> "opened", conv |-> c, page |-> page]

(***************************************************************************)
(* The user                                                                *)
(***************************************************************************)
Presses == presses < MaxPresses /\ presses' = presses + 1

(* The list, once it is there, has a row for each; the row that is selected *)
(* already, and that of the Conversation on the page, ask for nothing.     *)
SelectConversation(c) ==
  /\ Presses /\ restored /\ c \in born /\ c # row
  /\ row' = c
  /\ IF c = current THEN UNCHANGED requests ELSE Asks([kind |-> "open", conv |-> c])
  /\ UNCHANGED <<core, clientWorker, told, current, restored, showing, onPage, typed, went,
                 answered, failures>>

(* The bound leaves an unborn Conversation for a text that needs one.      *)
NewConversation ==
  /\ Presses
  /\ Cardinality(Conv \ born) >
       1 + Cardinality({i \in DOMAIN requests : requests[i].kind = "new"} \cup
                       {i \in {0} : job.kind = "new"})
  /\ Asks([kind |-> "new"])
  /\ UNCHANGED <<core, clientWorker, told, window, typed, went, answered, failures>>

LoadOlder ==
  /\ Presses /\ oldest > 0 /\ hasOlder
  /\ Asks([kind |-> "older", conv |-> current, before |-> oldest, showing |-> showing])
  /\ UNCHANGED <<core, clientWorker, told, window, typed, went, answered, failures>>

(* Nothing that opens a Conversation is under way, and the last such call  *)
(* did not fail.                                                           *)
Opening(m) == m.kind \in {"list", "open", "new", "opened", "listed"}
Settled ==
  /\ ~lost /\ ~Opening(job)
  /\ \A i \in DOMAIN requests : ~Opening(requests[i])
  /\ \A i \in DOMAIN told : ~Opening(told[i])

SendText ==
  /\ Len(typed) < MaxTexts
  /\ typed' = Append(typed, [conv |-> current, settled |-> Settled])
  /\ shown' = Append(shown, [kind |-> "typed", text |-> Len(typed) + 1])
  /\ Asks([kind |-> "send", text |-> Len(typed) + 1])
  /\ UNCHANGED <<core, clientWorker, told, current, row, restored, showing, oldest, hasOlder, crossed,
                 presses, went,
                 answered, failures>>

(***************************************************************************)
(* The worker                                                              *)
(***************************************************************************)
(* A mutant of Becomes.                                                   *)
ServiceAfterReading == service

(* open_conversation makes the Conversation current before it reads it.    *)
Becomes == IF Head(requests).kind = "open" THEN Head(requests).conv ELSE service

TakeRequest ==
  /\ job = Idle /\ requests # <<>>
  /\ job' = Head(requests) /\ requests' = Tail(requests)
  /\ service' = Becomes
  /\ UNCHANGED <<core, lost, told, window, typing, went, answered, failures>>

Ends == job' = Idle

ListConversations ==
  /\ job.kind = "list"
  /\ Tells([kind |-> "listed"]) /\ Ends
  /\ UNCHANGED <<core, requests, service, lost, window, typing, went, answered, failures>>

OpenConversation ==
  /\ job.kind = "open"
  /\ Tells(Opened(job.conv, Newest(job.conv))) /\ Ends /\ lost' = FALSE
  /\ UNCHANGED <<core, requests, service, window, typing, went, answered, failures>>

LoadOlderTurns ==
  /\ job.kind = "older"
  /\ Tells([kind |-> "older", conv |-> job.conv, page |-> Page(job.conv, job.before),
            showing |-> job.showing]) /\ Ends
  /\ UNCHANGED <<core, requests, service, lost, window, typing, went, answered, failures>>

(* start_new_conversation: asked for, or because a text needs one.  Bound:  *)
(* the Conversations of Conv.                                              *)
Fresh == CHOOSE c \in Conv : c \notin born

CreateConversation ==
  /\ job.kind = "new" \/ (job.kind = "send" /\ service = None)
  /\ born # Conv /\ born' = born \cup {Fresh} /\ service' = Fresh /\ lost' = FALSE
  /\ \/ TellsBoth(Opened(Fresh, NoTurns), [kind |-> "listed"]) /\ UNCHANGED failures
     \/ Tells(Opened(Fresh, NoTurns)) /\ Fault                (* no new list *)
  /\ job' = IF job.kind = "new" THEN Idle ELSE job
  /\ UNCHANGED <<turns, turnStatus, requests, window, typing, went, answered>>

StartStream ==
  /\ job.kind = "send" /\ service # None
  /\ Tells([kind |-> "started", text |-> job.text])
  /\ job' = [kind |-> "stream", text |-> job.text, stream |-> Unheard, heard |-> <<>>]
  /\ UNCHANGED <<core, requests, service, lost, window, typing, went, answered, failures>>

(* The Core stores the Turn, ...                                           *)
Streaming(when) == job.kind = "stream" /\ turnStatus[job.text] = when
Finalize(how) == turnStatus' = [turnStatus EXCEPT ![job.text] = how]

StoreTurn ==
  /\ Streaming(None)
  /\ turns' = [turns EXCEPT ![service] = Append(@, job.text)]
  /\ went' = [went EXCEPT ![job.text] = service]
  /\ Finalize("PROCESSING")
  /\ UNCHANGED <<born, requests, clientWorker, told, window, typing, answered, failures>>

(* ... which fails without a model for it, or when the context is too      *)
(* large or must not leave the machine, ...                                *)
RefuseTurn ==
  /\ Streaming("PROCESSING") /\ job.heard = <<>>
  /\ Finalize("FAILED")
  /\ UNCHANGED <<turns, born, requests, clientWorker, told, window, typing, went, answered, failures>>

(* ... and otherwise ends as its provider's stream says.                   *)
HearProvider(event) ==
  /\ Streaming("PROCESSING") /\ Len(job.heard) < MaxEvents
  /\ job' = [job EXCEPT !.stream = Hear(@, event), !.heard = Append(@, event)]
  /\ UNCHANGED <<core, requests, service, lost, told, window, typing, went, answered, failures>>

EndTurn(raised) ==
  /\ Streaming("PROCESSING")
  /\ Finalize(TurnStatus(job.stream, raised))
  /\ UNCHANGED <<turns, born, requests, clientWorker, told, window, typing, went, answered, failures>>

FinishStream ==
  /\ Streaming("COMPLETED") \/ Streaming("FAILED")
  /\ Tells([kind |-> "finished", text |-> job.text]) /\ Ends
  /\ UNCHANGED <<core, requests, service, lost, window, typing, went, answered, failures>>

(* An error before the Turn is stored, or that leaves it PROCESSING: the   *)
(* worker asks for the last Turn, and never sends the text again.          *)
BreakSilently ==                                               (* a mutant *)
  /\ Streaming(None) \/ Streaming("PROCESSING")
  /\ Fault /\ Ends
  /\ UNCHANGED <<core, requests, service, lost, told, window, typing, went, answered>>

BreakStream ==
  /\ Streaming(None) \/ Streaming("PROCESSING")
  /\ Fault
  /\ Tells([kind |-> "finished", text |-> job.text])
  /\ job' = [kind |-> "recover", text |-> job.text]
  /\ UNCHANGED <<core, requests, service, lost, window, typing, went, answered>>

Recover ==
  /\ job.kind = "recover"
  /\ Tells([kind |-> "recovered", text |-> job.text, conv |-> service,
            number |-> Len(turns[service])])
  /\ Ends
  /\ UNCHANGED <<core, requests, service, lost, window, typing, went, answered, failures>>

(* Any other call fails: the window is told, and only of that.             *)
FailCall ==
  /\ job.kind \in {"list", "open", "older", "new", "send", "recover"} /\ Fault
  /\ lost' = (lost \/ job.kind \in {"list", "open"})
  /\ told' = IF job.kind = "send" THEN Append(told, [kind |-> "failed", text |-> job.text])
                                  ELSE told
  /\ Ends
  /\ UNCHANGED <<core, requests, service, window, typing, went, answered>>

(* Another client, or voice, adds a Turn.                                  *)
OtherTurn(c) ==
  /\ c \in born /\ Len(turns[c]) < MaxTurns
  /\ turns' = [turns EXCEPT ![c] = Append(@, 0)]
  /\ UNCHANGED <<born, turnStatus, requests, clientWorker, told, window, typing, went, answered, failures>>

(***************************************************************************)
(* The window                                                              *)
(***************************************************************************)
Handles(kind) == told # <<>> /\ Head(told).kind = kind /\ told' = Tail(told)

Rendered(c, page) ==
  [i \in DOMAIN page.numbers |-> [kind |-> "turn", conv |-> c, number |-> page.numbers[i]]]

(* An empty page leaves the oldest sequence as it was.                     *)
Marks(page) ==
  /\ oldest' = IF page.numbers = <<>> THEN oldest ELSE Head(page.numbers)
  /\ hasOlder' = page.older

OnConversationsReady ==
  /\ Handles("listed")
  /\ row' = current /\ restored' = TRUE
  /\ IF restored THEN UNCHANGED requests ELSE Asks([kind |-> "open", conv |-> current])
  /\ UNCHANGED <<core, clientWorker, current, showing, onPage, typing, went, answered, failures>>

OnConversationOpened ==
  /\ Handles("opened")
  /\ current' = Head(told).conv /\ restored' = TRUE
  /\ shown' = Rendered(Head(told).conv, Head(told).page)
  /\ Marks(Head(told).page)
  /\ showing' = showing + 1 /\ crossed' = FALSE
  /\ UNCHANGED <<core, requests, clientWorker, row, typing, went, answered, failures>>

Concerns(signal) == signal.conv = current

OnOlderTurnsReady ==
  /\ Handles("older")
  /\ IF Concerns(Head(told))
     THEN /\ shown' = Rendered(Head(told).conv, Head(told).page) \o shown
          /\ Marks(Head(told).page)
          /\ crossed' = (crossed \/ Head(told).showing # showing)
     ELSE UNCHANGED onPage
  /\ UNCHANGED <<core, requests, clientWorker, current, row, restored, showing, typing, went, answered, failures>>

OnStreamStarted ==
  /\ Handles("started")
  /\ shown' = Append(shown, [kind |-> "answer", text |-> Head(told).text])
  /\ UNCHANGED <<core, requests, clientWorker, current, row, restored, showing, oldest, hasOlder, crossed,
                 typing, went,
                 answered, failures>>

OnStreamEnded ==
  /\ Handles("finished") \/ Handles("failed")
  /\ answered' = answered \cup {Head(told).text}
  /\ UNCHANGED <<core, requests, clientWorker, window, typing, went, failures>>

(* The last Turn is taken for that of the text.                            *)
OnConversationRecovered ==
  /\ Handles("recovered")
  /\ shown' = Append(shown, [kind |-> "recovered", conv |-> Head(told).conv,
                             number |-> Head(told).number, text |-> Head(told).text])
  /\ UNCHANGED <<core, requests, clientWorker, current, row, restored, showing, oldest, hasOlder, crossed,
                 typing, went,
                 answered, failures>>

Handle ==
  \/ OnConversationsReady \/ OnConversationOpened \/ OnOlderTurnsReady
  \/ OnStreamStarted \/ OnStreamEnded \/ OnConversationRecovered

Serve ==
  \/ TakeRequest \/ ListConversations \/ OpenConversation \/ LoadOlderTurns \/ CreateConversation
  \/ StartStream \/ StoreTurn \/ RefuseTurn
  \/ \E event \in Events : HearProvider(event)
  \/ \E raised \in BOOLEAN : EndTurn(raised)
  \/ FinishStream \/ Recover

PageNext ==
  \/ \E c \in Conv : SelectConversation(c) \/ OtherTurn(c)
  \/ NewConversation \/ LoadOlder \/ SendText
  \/ Serve \/ BreakStream \/ FailCall
  \/ Handle

(* Both threads run, and the Core answers or fails every call.             *)
PageSpec == PageInit /\ [][PageNext]_pageVars /\ WF_pageVars(Serve) /\ WF_pageVars(Handle)

(***************************************************************************)
(* What the page promises                                                  *)
(***************************************************************************)
PageTypeOK ==
  /\ turns \in [Conv -> Seq(Text \cup {0})] /\ born \subseteq Conv
  /\ service \in Conv \cup {None} /\ current \in Conv
  /\ row \in Conv \cup {None}
  /\ {lost, restored, hasOlder, crossed} \subseteq BOOLEAN /\ {oldest, showing} \subseteq Nat
  /\ turnStatus \in [Text -> {None, "PROCESSING", "COMPLETED", "FAILED"}]
  /\ went \in [Text -> Conv \cup {None}] /\ answered \subseteq DOMAIN typed
  /\ \A c \in Conv : c \notin born => turns[c] = <<>>

(* The Turns of the list are all of the Conversation the window names,     *)
(* older pages are asked from the oldest one shown, and "older messages"   *)
(* is offered exactly while there are some: a page that arrives late, from *)
(* _on_older_turns_ready, never mixes two Conversations.  It may cross the *)
(* Conversation's being opened again: it is put before the new list then,  *)
(* and the next pages are asked from a Turn that is not the oldest shown.  *)
Pages == {shown[i] : i \in {j \in DOMAIN shown : shown[j].kind = "turn"}}

TranscriptIsOfOneConversation ==
  /\ PageTypeOK
  /\ \A entry \in Pages : entry.conv = current /\ (crossed \/ entry.number >= oldest)
  /\ Pages # {} => (\E entry \in Pages : entry.number = oldest) /\ hasOlder = (oldest > 1)

(* A text is stored in the Conversation the user saw when he sent it,      *)
(* unless one was being opened then or had failed to open: the worker and  *)
(* the window each have a current Conversation of their own.               *)
TextGoesWhereShown ==
  \A k \in DOMAIN typed : typed[k].settled /\ went[k] # None => went[k] = typed[k].conv

(* An answer is stored as complete exactly when the provider's stream was  *)
(* text and one completion at its end, and did not raise: the flags that   *)
(* _stream_text_locked keeps amount to the contract of the whole stream.   *)
CompletesText(k) == turnStatus'[k] # turnStatus[k] /\ turnStatus'[k] = "COMPLETED"
AnswerIsWhole ==
  [][\A k \in Text :
       /\ CompletesText(k) => Whole(job.heard)
       /\ EndTurn(FALSE) /\ job.text = k /\ Whole(job.heard) => CompletesText(k)]_pageVars

(* The window is told of the end of every text, also when the Core fails   *)
(* in the middle of an answer (ClientWorker.send_text).                    *)
SendIsAnswered == \A k \in Text : k \in DOMAIN typed ~> k \in answered

(* The page is true at every step: it shows one Conversation, and a text    *)
(* goes to the one it shows.                                                *)
PageIsTrue == TranscriptIsOfOneConversation /\ TextGoesWhereShown
================================================================================
