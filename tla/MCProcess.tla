----------------------------- MODULE MCProcess -----------------------------
(* Environments that load and that do not: lifetimes that fit, that wrap to *)
(* something else, and that wrap to nothing positive, with a bound of 128.  *)
EXTENDS Process

Complete == [DATABASE_URL |-> TRUE, ACCESS_TOKEN_SECRET |-> TRUE,
             BREVO_API_KEY |-> FALSE, BREVO_API |-> TRUE,
             ACCESS_TOKEN_TTL_SECONDS |-> 2, REFRESH_TOKEN_TTL_DAYS |-> 2]
MCEnv == {Complete,
          [Complete EXCEPT !.DATABASE_URL = FALSE],
          [Complete EXCEPT !.BREVO_API = FALSE],
          [Complete EXCEPT !.ACCESS_TOKEN_TTL_SECONDS = 20],
          [Complete EXCEPT !.REFRESH_TOKEN_TTL_DAYS = -20]}
=============================================================================
