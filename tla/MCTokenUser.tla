----------------------------- MODULE MCTokenUser -----------------------------
EXTENDS Session, TLC

\* Two users of one browser, both allowed to hold a token.
MCRole == "ann" :> "ADMIN" @@ "bob" :> "AUDITOR"

\* They take turns: nobody logs in over a live session.
TakesTurns == login'.status = "pending" => session.user = nobody

TakesTurnsSpec == SessionInit /\ [][SessionNext /\ TakesTurns]_sessionVars
=============================================================================
