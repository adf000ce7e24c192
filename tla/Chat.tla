------------------------------- MODULE Chat --------------------------------
(***************************************************************************)
(* The chat screen on top of Trust: what the user is told of the peer's    *)
(* key, and whether the send button is on (client/ui/app.py,               *)
(* client/ui/screens/chat.py).  The screen keeps one banner and one switch.*)
(* Three things set them: the end of a history load, the end of a send,    *)
(* and a message that arrives; the settings screen clears the warning.     *)
(* The cache of Trust knows more than the screen shows.                    *)
(*                                                                         *)
(* Every step of Trust is a step here; a message that the ws task has      *)
(* opened is displayed only after it is saved, so the trust may change in  *)
(* between.                                                                *)
(***************************************************************************)
EXTENDS Trust

VARIABLES
    chat,     \* "closed", "loading" (until the history is shown), "ready"
    banner,   \* code of ChatScreen._banner: "none", "key_changed", "other"
    sendOn,   \* the send button is enabled
    busy,     \* the handler of the message pump: "idle", "history" or "send"
    note,     \* an opened message on its way to the screen, or None
    crossed   \* history: the trust changed while a warning was on its way or up

screen == <<chat, banner, sendOn, busy>>
cvars == <<screen, note, crossed>>

ChatInit ==
    /\ Init
    /\ chat = "closed"
    /\ banner = "none"
    /\ sendOn = TRUE
    /\ busy = "idle"
    /\ note = None
    /\ crossed = FALSE

-----------------------------------------------------------------------------
(* Screen states *)

\* trust_state_to_view_model: the banner of the current session.
TrustBanner ==
    IF slot = 0 THEN "none"
    ELSE IF heap[slot].key_changed /\ heap[slot].verified THEN "key_changed"
    ELSE IF heap[slot].verified THEN "none" ELSE "other"

\* build_screen_state: the first banner by priority, and key_changed is first.
Primary(first, second) ==
    IF "key_changed" \in {first, second} THEN "key_changed"
    ELSE IF first = "none" THEN second ELSE first

\* set_banner and _set_send_enabled from a screen state, unless it was closed.
Display(code, disabled) ==
    IF chat = "closed"
    THEN UNCHANGED <<banner, sendOn>>
    ELSE /\ banner' = code
         /\ sendOn' = (~disabled /\ code # "key_changed")

OnTop == chat # "closed" /\ shown = "closed"

\* decrypt_envelope succeeds or refuses the message.  active_chat is looked up
\* now; the settings screen may be up before it has asked for its fingerprint.
Opens(changed) ==
    note' \in {None} \cup [changed : {changed}, active : {FALSE, OnTop}]

-----------------------------------------------------------------------------
(* Trust's steps, with what they mean for the screen *)

Publish(k) == upload_keys(k) /\ UNCHANGED cvars

Fetch(t) == get_keys(t) /\ UNCHANGED cvars

\* The message pump creates a session within a send or a history load.
FindNoSession(t) ==
    /\ StartSession(t)
    /\ IF t = "ui" THEN busy # "idle" ELSE note = None
    /\ UNCHANGED cvars

RekeyArrives == ReceiveRekey /\ note = None /\ UNCHANGED cvars

NoSession(t) == stage[t] = "boot" /\ KeysFail(t) /\ UNCHANGED cvars

NewSession(t) ==
    /\ Bootstrap(t)
    /\ crossed' = (crossed \/ slot # 0)
    /\ UNCHANGED <<screen, note>>

\* The keys cannot be fetched or are refused: the message is opened all the same.
CheckSkipped ==
    /\ stage["ws"] = "check"
    /\ KeysFail("ws")
    /\ Opens(FALSE)
    /\ UNCHANGED <<screen, crossed>>

\* The user hears of the change when the message that revealed it is shown.
KeyChecked ==
    LET changed == heap[ref].pub # fetched["ws"].key IN
    /\ CheckKey
    /\ Opens(changed)
    /\ crossed' = (crossed \/ ref # slot)
    /\ UNCHANGED screen

\* A message without key material.
PlainArrives ==
    /\ stage["ws"] = "idle" /\ slot # 0 /\ note = None
    /\ Opens(FALSE)
    /\ UNCHANGED <<vars, screen, crossed>>

\* save_message fails: only a banner.
SaveFails ==
    /\ note # None
    /\ banner' = IF note.active THEN "other" ELSE banner
    /\ note' = None
    /\ UNCHANGED <<vars, chat, sendOn, busy, crossed>>

\* The message is added to the screen that was active, with the warning.
ShowMessage ==
    /\ note # None
    /\ IF note.active /\ note.changed
       THEN Display("key_changed", TRUE)
       ELSE UNCHANGED <<banner, sendOn>>
    /\ note' = None
    /\ UNCHANGED <<vars, chat, busy, crossed>>

-----------------------------------------------------------------------------
(* The message pump and the screens *)

\* A new ChatScreen asks for its history when it is mounted.
OpenChat ==
    /\ chat = "closed" /\ busy = "idle"
    /\ chat' = "loading"
    /\ busy' = "history"
    /\ crossed' = FALSE
    /\ UNCHANGED <<vars, banner, sendOn, note>>

\* Local messages were read, or could not be: then the trust is read and the
\* screen state is shown.
ShowHistory ==
    /\ busy = "history" /\ stage["ui"] = "idle"
    /\ \E degraded \in {"none", "other"} : Display(Primary(degraded, TrustBanner), FALSE)
    /\ chat' = IF chat = "closed" THEN "closed" ELSE "ready"
    /\ busy' = "idle"
    /\ crossed' = (crossed /\ note # None)
    /\ UNCHANGED <<vars, note>>

\* The button or the Enter key, which does not look at the button.
Send ==
    /\ OnTop /\ busy = "idle"
    /\ busy' = "send"
    /\ UNCHANGED <<vars, chat, banner, sendOn, note, crossed>>

\* _map_send_message_result: success clears the banner and turns the button on;
\* a network or server error has its banner; a refused bundle and a storage
\* error turn the button off.
SendEnds ==
    /\ busy = "send" /\ stage["ui"] = "idle"
    /\ \/ slot # 0 /\ Display("none", FALSE)
       \/ \E disabled \in BOOLEAN : Display("other", disabled)
    /\ busy' = "idle"
    /\ UNCHANGED <<vars, chat, note, crossed>>

PushSettings == OpenSettings /\ OnTop /\ busy = "idle" /\ UNCHANGED cvars

\* Mutant of Verify: the banner is left to the next history load.
VerifyKeepsBanner ==
    /\ MarkVerified
    /\ crossed' = (crossed \/ (note # None /\ note.changed))
    /\ UNCHANGED <<screen, note>>

\* The key is marked and clear_key_warning is called.  The button stays as it is.
Verify ==
    /\ MarkVerified
    /\ banner' = IF banner = "key_changed" THEN "none" ELSE banner
    /\ crossed' = (crossed \/ (note # None /\ note.changed))
    /\ UNCHANGED <<chat, sendOn, busy, note>>

PopSettings == CloseSettings /\ UNCHANGED cvars

NoScreen ==
    /\ chat' = "closed"
    /\ banner' = "none" /\ sendOn' = TRUE
    /\ crossed' = FALSE

\* A message or an answer still on its way goes to a screen that is gone.
CloseChat ==
    /\ OnTop
    /\ NoScreen
    /\ note' = IF note = None THEN None ELSE [note EXCEPT !.active = FALSE]
    /\ UNCHANGED <<vars, busy>>

ClientRestarts ==
    /\ Restart
    /\ NoScreen
    /\ busy' = "idle" /\ note' = None

ChatNext ==
    \/ \E k \in Keys : Publish(k)
    \/ \E t \in Tasks : Fetch(t) \/ FindNoSession(t) \/ NoSession(t) \/ NewSession(t)
    \/ RekeyArrives \/ CheckSkipped \/ KeyChecked \/ PlainArrives
    \/ SaveFails \/ ShowMessage
    \/ OpenChat \/ ShowHistory \/ Send \/ SendEnds \/ CloseChat
    \/ PushSettings \/ Verify \/ PopSettings
    \/ ClientRestarts

ChatSpec == ChatInit /\ [][ChatNext]_<<vars, cvars>>

-----------------------------------------------------------------------------
(* Properties *)

\* The chat warns of a changed key, and blocks its send button for it, only when
\* the flag of the contact is up: except when the user verified or another task
\* replaced the session while the warning was on its way.
AlarmIsTrue ==
    chat # "closed" /\ banner = "key_changed" =>
        /\ ~sendOn
        /\ crossed \/ heap[slot].key_changed

-----------------------------------------------------------------------------
(* Statements of the documentation that the code does not keep *)

Flagged == slot # 0 /\ heap[slot].verified /\ heap[slot].key_changed

\* "`key_changed` for a verified contact must remain visible until explicitly
\* resolved": while the flag is up, no step of the open chat (apply_send_result,
\* a failed save) takes the warning off the screen.
WarningRemains ==
    [][chat = "ready" /\ chat' = "ready" /\ Flagged /\ Flagged' /\ banner = "key_changed"
           => banner' = "key_changed"]_<<vars, cvars>>

=============================================================================
