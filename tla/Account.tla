------------------------------- MODULE Account -------------------------------
(***************************************************************************)
(* The tokens of one account: account/account.ts reads the row, refreshes  *)
(* a token that is about to expire through a cache which all callers of    *)
(* the process share, and account/repo.ts stores what the server answers.  *)
(*                                                                         *)
(* A token names the login it comes from and how often it was refreshed;   *)
(* a refresh token goes with each access token and is good for one refresh.*)
(***************************************************************************)
EXTENDS Naturals

CONSTANTS
    Callers,      \* calls of token, orgs or config
    NoRow,
    MaxLogins,    \* a bound
    MaxRefreshes  \* a bound on the refreshes of one login

VARIABLES
    row,     \* the account's row in the table
    expired, \* tokens for which isTokenFresh is false
    caller,  \* where each call is, the row it has read and the token it returns
    lookup,  \* the entry of refreshTokenCache: where its lookup is, and with which row
    granted, \* how often the server has refreshed each login
    lost,    \* tokens that were spent on an answer that never arrived
    reused   \* tokens that were spent twice

tokenVars == <<row, expired, caller, lookup, granted, lost, reused>>

Tokens == [login : 1..MaxLogins, refreshed : 0..MaxRefreshes]
NoLookup == [stage |-> "none", row |-> NoRow]
Refreshed(token) == [token EXCEPT !.refreshed = @ + 1]
Logins == DOMAIN granted
Fresh(token) == token \notin expired

\* The user has logged in once.
Init ==
    /\ row = [login |-> 1, refreshed |-> 0]
    /\ granted = [l \in {1} |-> 0]
    /\ expired = {} /\ lost = {} /\ reused = {}
    /\ caller = [c \in Callers |-> [stage |-> "new", row |-> NoRow, token |-> NoRow]]
    /\ lookup = NoLookup

-----------------------------------------------------------------------------
(* resolveAccess *)

ResolveAccess(c) ==
    /\ caller[c].stage = "new"
    /\ caller' = [caller EXCEPT ![c] =
          IF row # NoRow /\ ~Fresh(row)
          THEN [@ EXCEPT !.stage = "stale", !.row = row]
          ELSE [stage |-> "done", row |-> row, token |-> row]]
    /\ UNCHANGED <<row, expired, lookup, granted, lost, reused>>

\* Mutant: each call asks the server with the row that it has read.
GetAlone(c) ==
    /\ caller[c].stage = "stale" /\ lookup.stage \notin {"begun", "asking"}
    /\ caller' = [caller EXCEPT ![c].stage = "waiting"]
    /\ lookup' = [stage |-> "asking", row |-> caller[c].row]
    /\ UNCHANGED <<row, expired, granted, lost, reused>>

\* Cache.get: the first call begins a lookup, those that come before its end share it.
Get(c) ==
    /\ caller[c].stage = "stale"
    /\ caller' = [caller EXCEPT ![c].stage = "waiting"]
    /\ lookup' = IF lookup = NoLookup THEN [stage |-> "begun", row |-> caller[c].row] ELSE lookup
    /\ UNCHANGED <<row, expired, granted, lost, reused>>

-----------------------------------------------------------------------------
(* The lookup.  Nothing stays in the cache: its timeToLive is zero. *)

Complete(stage, token) ==
    /\ lookup' = NoLookup
    /\ caller' = [c \in Callers |-> IF caller[c].stage = "waiting"
                                    THEN [caller[c] EXCEPT !.stage = stage, !.token = token] ELSE caller[c]]

\* Mutant: the lookup trusts the row that the caller has read.
LookupTrusting ==
    /\ lookup.stage = "begun"
    /\ lookup' = [lookup EXCEPT !.stage = "asking"]
    /\ UNCHANGED <<caller, row, expired, granted, lost, reused>>

\* The row is read again: it may have been refreshed, or removed, meanwhile.
Lookup ==
    /\ lookup.stage = "begun"
    /\ IF row = NoRow THEN Complete("failed", NoRow)
       ELSE IF Fresh(row) THEN Complete("done", row)
       ELSE lookup' = [stage |-> "asking", row |-> row] /\ UNCHANGED caller
    /\ UNCHANGED <<row, expired, granted, lost, reused>>

\* The server takes a refresh token once.
Answer ==
    /\ lookup.stage = "asking"
    /\ LET spent == lookup.row.refreshed < granted[lookup.row.login]
       IN /\ spent \/ lookup.row.refreshed < MaxRefreshes
          /\ reused' = IF spent THEN reused \cup {lookup.row} ELSE reused
          /\ granted' = IF spent THEN granted ELSE [granted EXCEPT ![lookup.row.login] = @ + 1]
          /\ lookup' = [lookup EXCEPT !.stage = IF spent THEN "refused" ELSE "answered"]
    /\ UNCHANGED <<row, expired, caller, lost>>

\* No answer, one that does not decode, or the caller that looks up is interrupted.
Fail ==
    /\ lookup.stage \in {"asking", "answered", "refused"}
    /\ Complete("failed", NoRow)
    /\ lost' = IF lookup.stage = "answered" THEN lost \cup {lookup.row} ELSE lost
    /\ UNCHANGED <<row, expired, granted, reused>>

\* Mutant: the row is written whether or not it is there.
PersistAnyway ==
    /\ lookup.stage = "answered"
    /\ row' = Refreshed(lookup.row)
    /\ Complete("done", Refreshed(lookup.row))
    /\ UNCHANGED <<expired, granted, lost, reused>>

\* persistToken updates the row of this account, if there is one.
PersistToken ==
    /\ lookup.stage = "answered"
    /\ row' = IF row = NoRow THEN NoRow ELSE Refreshed(lookup.row)
    /\ Complete("done", Refreshed(lookup.row))
    /\ UNCHANGED <<expired, granted, lost, reused>>

-----------------------------------------------------------------------------
(* Meanwhile *)

\* poll has its answer: persistAccount.
Login ==
    /\ Logins # 1..MaxLogins
    /\ LET l == CHOOSE l \in 1..MaxLogins : l \notin Logins /\ \A k \in 1..l - 1 : k \in Logins
       IN /\ row' = [login |-> l, refreshed |-> 0]
          /\ granted' = [k \in Logins \cup {l} |-> IF k = l THEN 0 ELSE granted[k]]
    /\ UNCHANGED <<expired, caller, lookup, lost, reused>>

Remove ==
    /\ row # NoRow
    /\ row' = NoRow
    /\ UNCHANGED <<expired, caller, lookup, granted, lost, reused>>

\* Five minutes before its end a token counts as expired; some live no longer than that.
Expire ==
    /\ \/ row # NoRow /\ Fresh(row) /\ expired' = expired \cup {row}
       \/ lookup.stage = "answered" /\ expired' = expired \cup {Refreshed(lookup.row)}
    /\ UNCHANGED <<row, caller, lookup, granted, lost, reused>>

\* The request ends: the server answers, or the connection fails.
GoesOn == Lookup \/ Fail \/ PersistToken \/ \E c \in Callers : Get(c)

Next == GoesOn \/ Answer \/ Login \/ Remove \/ Expire \/ \E c \in Callers : ResolveAccess(c)

Spec == Init /\ [][Next]_tokenVars /\ WF_tokenVars(GoesOn)

-----------------------------------------------------------------------------
(* Properties *)

TypeOK ==
    /\ row \in Tokens \cup {NoRow} /\ expired \subseteq Tokens /\ lost \subseteq Tokens /\ reused \subseteq Tokens
    /\ caller \in [Callers -> [stage : {"new", "stale", "waiting", "done", "failed"},
                               row : Tokens \cup {NoRow}, token : Tokens \cup {NoRow}]]
    /\ lookup \in [stage : {"none", "begun", "asking", "answered", "refused"}, row : Tokens \cup {NoRow}]
    /\ Logins \subseteq 1..MaxLogins /\ \A l \in Logins : granted[l] \in 0..MaxRefreshes

\* However many calls find the token expired, it is spent once, unless an answer was lost.
SpentOnce == reused \subseteq lost

\* The stored refresh token is the one that the server takes, except while it is being
\* refreshed and when an answer was lost.
StoredIsTaken ==
    row # NoRow =>
        \/ row.refreshed = granted[row.login]
        \/ row \in lost
        \/ lookup.stage = "answered" /\ lookup.row = row

\* Who has found the token expired gets a later one, or that of another login.
ReturnsLater ==
    \A c \in Callers : caller[c].stage = "done" /\ caller[c].token # caller[c].row =>
        \/ caller[c].token.login # caller[c].row.login
        \/ caller[c].token.refreshed > caller[c].row.refreshed

\* A call waits for a lookup that is there.
WaitsForLookup == (\E c \in Callers : caller[c].stage = "waiting") <=> lookup # NoLookup

\* The tokens of an account.
TokensKept == TypeOK /\ SpentOnce /\ StoredIsTaken /\ ReturnsLater /\ WaitsForLookup

\* Nobody waits for a token.
NobodyWaits == \A c \in Callers : caller[c].stage \notin {"stale", "waiting"}

\* A refresh that ends after the account was removed does not bring it back.
RemovedStays == [][row = NoRow /\ row' # NoRow => granted' # granted]_tokenVars

\* Wanted, but does not hold:
\* A refresh that ends late does not take the place of a login that came meanwhile.
LoginKept == [][row # NoRow /\ row' # NoRow => row'.login >= row.login]_tokenVars
=============================================================================
