----------------------------- MODULE CallHistory -----------------------------
(***************************************************************************)
(* CallManager with two facts the code does not record: whether the user   *)
(* has pressed Hang Up since the last call was placed or accepted, and     *)
(* whether the words of the session in progress were confirmed during it.  *)
(***************************************************************************)
EXTENDS CallManager

VARIABLES
    hungUp,  \* the user pressed Hang Up and has not called or answered since
    vouched  \* the user confirmed the words of the current session

historyVars == <<vars, hungUp, vouched>>

HistoryInit == Init /\ hungUp = FALSE /\ vouched = FALSE

(* CallWidget._on_hangup_clicked, then end_call. *)
HangUpClicked ==
    /\ "hangup" \in UserMay /\ widget
    /\ HangUp \/ (callState \notin Endable /\ UNCHANGED vars)
    /\ hungUp' = TRUE /\ vouched' = FALSE

HistoryNext ==
    \/ HangUpClicked
    \/ /\ Next /\ ~HangUp
       /\ hungUp' = (hungUp /\ ~PlaceCall /\ ~AcceptCall)
       /\ vouched' = (sock' # None /\ sock' = sock /\ (vouched \/ ConfirmSas))

HistorySpec == HistoryInit /\ [][HistoryNext]_historyVars

(* "_user_ended distinguishes a deliberate hang-up from a dropped circuit  *)
(* so we don't reconnect after the user ends the call themselves": once    *)
(* Hang Up was pressed there is no call until the user makes one.          *)
HangUpSticks == hungUp => callState # "IN_CALL"

(* "Real microphone audio is neither transmitted nor played until the user *)
(* confirms the SAS words match": the words of this session.               *)
SasGate == callState = "IN_CALL" /\ RequireSas /\ sasConfirmed => vouched
=============================================================================
