--------------------------- MODULE MCTelegramInput ---------------------------
(* Instances of TelegramInput for TLC.                                        *)
EXTENDS TelegramInput, TLC

\* One outcome for one file, and no update forgotten before its outcome is durable
\* (handleIncomingUpdates, acceptIncomingFile, processIncomingAudio).
InputInv ==
    /\ TypeOK /\ OneOutcome /\ NothingSkipped
    /\ OffsetIsHandled /\ HandledHasOutcome /\ HandlerInOrder /\ FileIsClaimed /\ BudgetLeft

\* What was announced, sent or downloaded stays as it is.
OutcomeHolds == OutcomeStable /\ DownloadKept

\* Every update is acknowledged to Telegram and every accepted file is answered.
InputAnswered == OffsetAdvances /\ AcceptedIsAnswered
=============================================================================
