------------------------------- MODULE MCAccounts -------------------------------
(***************************************************************************)
(* Small instances of Accounts for TLC.                                    *)
(***************************************************************************)
EXTENDS Accounts, TLC

Symmetry == Permutations(Calls) \cup Permutations(UserIds) \cup Permutations(Tokens)

\* An identifier as it is and with a space after it.
MCSpellings == {"plain", "padded"}
MCTrim == [typed \in MCSpellings |-> IF typed = "padded" THEN "plain" ELSE typed]

\* Five seconds and thirty, as units of the model's clock.
Steps == <<1, 2>>

\* A login fails, or types its identifier otherwise, only where all there is is one
\* account, and its passenger does nothing but sign in: to no other handler does it
\* matter what logins were recorded.
NoneFails ==
  /\ \A c \in Calls : call[c].typed \in {"plain", NULL} /\ call[c].pc # "logFailure"
  /\ \A i \in DOMAIN events : events[i].type # "LOGIN_FAILURE"

OnlyLogins ==
  /\ \A c \in Calls : call[c].op \in {"login", NULL}
  /\ \A t \in Tokens : token[t] = NoToken
  /\ Cardinality(wallets) = 1 /\ user[CHOOSE u \in wallets : TRUE].password = 0
  /\ \A i \in CodeIds : code[i] = NoCode

\* Accounts are registered, verified and created where nobody signs in, and who signs
\* in is the passenger there was: no token matters to the former, and to the latter
\* it does not matter how the account came about.
SignsIn ==
  \/ \E t \in Tokens : token[t] # NoToken
  \/ \E c \in Calls : call[c].op \in {"login", "refresh", "logout"}

Registers ==
  \/ \E c \in Calls : call[c].op \in {"register", "verify", "createUser"}
  \/ \E i \in CodeIds : code[i].purpose = "REGISTRATION"
  \/ \A u \in wallets : ~user[u].kept
  \/ Cardinality({u \in UserIds : user[u] # NoUser}) # 1

MCNext == Next /\ ~(SignsIn' /\ Registers') /\ (NoneFails' \/ OnlyLogins')

MCSpec == Init /\ [][MCNext]_vars
================================================================================
