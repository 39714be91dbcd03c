------------------------------ MODULE Session ------------------------------
(***************************************************************************)
(* Signing in: the auth service (backend/src/auth) and the browser side of *)
(* it (web/src: stores/authStore, lib/api, ProtectedRoute, TopBar and the  *)
(* login and register pages), for one account used from several tabs.      *)
(*                                                                         *)
(* The tabs share the browser's local storage, where two entries tell of   *)
(* the session: aatos_token, which lib/api sends with every request, and   *)
(* aatos-auth, the copy of the store that zustand writes whenever a tab    *)
(* sets anything in it and reads when a page is loaded.  In between every  *)
(* tab goes by its own memory.  On the server a login works on a copy of   *)
(* the user row and saves it (module Repository).                          *)
(***************************************************************************)
EXTENDS Integers, FiniteSets, Repository

CONSTANTS
    Tab,         \* tabs of the browser
    Token,       \* JWTs the server may issue: bounds successful logins
    LockAfter,   \* failed logins that lock the account: 5 in the code
    MaxFailures  \* bounds the wrong passwords tried

ASSUME ConstantsAssumption ==
    /\ LockAfter \in Nat \ {0}
    /\ MaxFailures \in Nat

VARIABLES
    account,   \* the user row: {} before registration
    tokens,    \* what has become of each JWT
    storage,   \* the browser's local storage
    tabs,      \* the page each tab shows, and its store
    logins,    \* the login or registration each tab waits for
    failures   \* wrong passwords so far (only to state LockIsEarned)

vars == <<account, tokens, storage, tabs, logins, failures>>

\* failed: failedLoginCount; locked: whether lockedUntil is set.
User == [failed : Nat, locked : BOOLEAN]

Columns == {"failed", "locked"}

\* The part of the store that is persisted; {}: null.
Auth == [token : SUBSET Token, signedIn : BOOLEAN]

SignedOut == [token |-> {}, signedIn |-> FALSE]

SignedIn(k) == [token |-> {k}, signedIn |-> TRUE]

Storage == [token : SUBSET Token, auth : Auth]

\* sent: the Authorization headers of the requests in flight.
Page == [page   : {"login", "checking", "app"},
         memory : Auth,
         sent   : SUBSET SUBSET Token]

\* The answers: a token, 401, or another error.
Answer == {"welcome", "refused", "error"}

\* answer: what the handler will answer once its save is complete.
Login == [step    : {"idle", "hash", "compare", "save", "update", "answer"},
          copies  : SUBSET User,
          columns : SUBSET Columns,
          answer  : Answer]

Idle == [step |-> "idle", copies |-> {}, columns |-> {}, answer |-> "error"]

At(step, copies, answer) ==
    [Idle EXCEPT !.step = step, !.copies = copies, !.answer = answer]

Reply(answer) == At("answer", {}, answer)

Show(page, auth) == [page |-> page, memory |-> auth, sent |-> {}]

\* JwtStrategy.validate refuses requests without a token, or an expired one.
Valid(header) == \E k \in header : tokens[k] = "valid"

\* What ProtectedRoute shows when the application is loaded: the store is
\* read from the storage, and checked with the server if it looks signed out
\* although there is a token.
Loaded(stored) ==
    IF ~ stored.auth.signedIn /\ stored.token # {}
    THEN [Show("checking", stored.auth) EXCEPT !.sent = {stored.token}]
    ELSE IF stored.auth.token \cup stored.token # {}
         THEN Show("app", stored.auth)
         ELSE Show("login", stored.auth)

Init ==
    /\ account = {}
    /\ tokens = [k \in Token |-> "new"]
    /\ storage = [token |-> {}, auth |-> SignedOut]
    /\ tabs = [t \in Tab |-> Show("login", SignedOut)]
    /\ logins = [t \in Tab |-> Idle]
    /\ failures = 0

-----------------------------------------------------------------------------
(* Submitting the forms: set({isLoading: true}) writes the tab's store to   *)
(* the storage, then the request goes out.                                 *)

\* Bound: every login in progress can still be given a token.
TokensLeft == Cardinality({k \in Token : tokens[k] = "new"})
                 > Cardinality({t \in Tab : logins[t] # Idle})

Submit(t, frame) ==
    /\ TokensLeft
    /\ tabs[t].page = "login"
    /\ logins[t] = Idle
    /\ logins' = [logins EXCEPT ![t] = frame]
    /\ storage' = [storage EXCEPT !.auth = tabs[t].memory]
    /\ UNCHANGED <<account, tokens, tabs, failures>>

\* AuthService.register looks the address up.
SubmitRegistration(t) ==
    Submit(t, IF account = {} THEN At("hash", {}, "welcome")
                              ELSE Reply("error"))

\* AuthService.login looks the user up.
SubmitLogin(t) ==
    Submit(t, IF account = {} THEN Reply("refused")
                              ELSE At("compare", account, "refused"))

-----------------------------------------------------------------------------
(* On the server.                                                          *)

Serve(t, frame) == logins' = [logins EXCEPT ![t] = frame]

\* The user is inserted once the password is hashed; the unique constraint
\* on the address refuses the second of two.
InsertUser(t) ==
    /\ logins[t].step = "hash"
    /\ IF account = {}
       THEN /\ account' = {[failed |-> 0, locked |-> FALSE]}
            /\ Serve(t, Reply("welcome"))
       ELSE /\ Serve(t, Reply("error"))
            /\ UNCHANGED account
    /\ UNCHANGED <<tokens, storage, tabs, failures>>

\* Mutant of Failed: off by one.
FailedOneEarly(user) ==
    [failed |-> user.failed + 1,
     locked |-> user.locked \/ user.failed + 2 >= LockAfter]

\* The copy with one more failure.
Failed(user) ==
    [failed |-> user.failed + 1,
     locked |-> user.locked \/ user.failed + 1 >= LockAfter]

WrongPassword(t) ==
    /\ logins[t].step = "compare"
    /\ failures < MaxFailures
    /\ failures' = failures + 1
    /\ \E user \in logins[t].copies :
          Serve(t, At("save", {Failed(user)}, "refused"))
    /\ UNCHANGED <<account, tokens, storage, tabs>>

\* Refused if the lock the copy tells of is not over: half an hour.
RightPassword(t) ==
    /\ logins[t].step = "compare"
    /\ \E user \in logins[t].copies :
          \/ user.locked /\ Serve(t, Reply("refused"))
          \/ Serve(t, At("save", {[failed |-> 0, locked |-> FALSE]}, "welcome"))
    /\ UNCHANGED <<account, tokens, storage, tabs, failures>>

SaveCompare(t) ==
    /\ logins[t].step = "save"
    /\ \E user \in logins[t].copies, row \in account :
          LET dirty == Dirty(user, row)
          IN  Serve(t, IF dirty = {} THEN Reply(logins[t].answer)
                       ELSE [logins[t] EXCEPT !.step = "update",
                                              !.columns = dirty])
    /\ UNCHANGED <<account, tokens, storage, tabs, failures>>

SaveUpdate(t) ==
    /\ logins[t].step = "update"
    /\ \E user \in logins[t].copies, row \in account :
          account' = {Flush(user, logins[t].columns, row)}
    /\ Serve(t, Reply(logins[t].answer))
    /\ UNCHANGED <<tokens, storage, tabs, failures>>

\* A token is valid for JWT_EXPIRES_IN.
Expire(k) ==
    /\ tokens[k] = "valid"
    /\ tokens' = [tokens EXCEPT ![k] = "expired"]
    /\ UNCHANGED <<account, storage, tabs, logins, failures>>

-----------------------------------------------------------------------------
(* Back in the tab.                                                        *)

\* Mutant of Welcome: the tab keeps a token that the server did not sign.
WelcomeUnsigned(t, k) ==
    /\ logins[t] = Reply("welcome")
    /\ tokens[k] = "new"
    /\ storage' = [token |-> {k}, auth |-> SignedIn(k)]
    /\ tabs' = [tabs EXCEPT ![t] = Loaded(storage')]
    /\ Serve(t, Idle)
    /\ UNCHANGED <<account, tokens, failures>>

\* The token goes to both entries and the application is loaded.
Welcome(t, k) ==
    /\ logins[t] = Reply("welcome")
    /\ tokens[k] = "new"
    /\ tokens' = [tokens EXCEPT ![k] = "valid"]
    /\ storage' = [token |-> {k}, auth |-> SignedIn(k)]
    /\ tabs' = [tabs EXCEPT ![t] = Loaded(storage')]
    /\ Serve(t, Idle)
    /\ UNCHANGED <<account, failures>>

\* The interceptor of lib/api takes this 401 like any other, and removes the
\* token; the store writes its copy; the login page is loaded again.
Refused(t) ==
    /\ logins[t] = Reply("refused")
    /\ storage' = [token |-> {}, auth |-> tabs[t].memory]
    /\ tabs' = [tabs EXCEPT ![t] = Show("login", storage'.auth)]
    /\ Serve(t, Idle)
    /\ UNCHANGED <<account, tokens, failures>>

\* Any other error is displayed; here too the store writes its copy.
Rejected(t) ==
    /\ logins[t] = Reply("error")
    /\ storage' = [storage EXCEPT !.auth = tabs[t].memory]
    /\ Serve(t, Idle)
    /\ UNCHANGED <<account, tokens, tabs, failures>>

\* The user loads a page, in a tab that waits for no login.
Visit(t, page) ==
    /\ logins[t] = Idle
    /\ tabs' = [tabs EXCEPT ![t] = IF page = "login"
                                   THEN Show("login", storage.auth)
                                   ELSE Loaded(storage)]
    /\ UNCHANGED <<account, tokens, storage, logins, failures>>

\* TopBar asks for notifications every 30 seconds.
Poll(t) ==
    /\ tabs[t].page = "app"
    /\ tabs[t].sent = {}
    /\ tabs' = [tabs EXCEPT ![t].sent = {storage.token}]
    /\ UNCHANGED <<account, tokens, storage, logins, failures>>

\* Mutant of PollAnswered: the interceptor does not load the login page.
PollAnsweredInPlace(t) ==
    /\ tabs[t].page = "app"
    /\ \E header \in tabs[t].sent :
          storage' = [storage EXCEPT !.token = IF Valid(header) THEN @ ELSE {}]
    /\ tabs' = [tabs EXCEPT ![t].sent = {}]
    /\ UNCHANGED <<account, tokens, logins, failures>>

\* 401: the interceptor removes whatever token there is by then and loads the
\* login page.
PollAnswered(t) ==
    /\ tabs[t].page = "app"
    /\ \E header \in tabs[t].sent :
          IF Valid(header)
          THEN tabs' = [tabs EXCEPT ![t].sent = {}] /\ UNCHANGED storage
          ELSE /\ storage' = [storage EXCEPT !.token = {}]
               /\ tabs' = [tabs EXCEPT ![t] = Show("login", storage.auth)]
    /\ UNCHANGED <<account, tokens, logins, failures>>

\* refreshUser: signed in, with no token of its own if the store had none; or
\* logged out.
Refreshed(t) ==
    /\ tabs[t].page = "checking"
    /\ \E header \in tabs[t].sent :
          IF Valid(header)
          THEN LET auth == [tabs[t].memory EXCEPT !.signedIn = TRUE]
               IN  /\ storage' = [storage EXCEPT !.auth = auth]
                   /\ tabs' = [tabs EXCEPT ![t] = Loaded(storage')]
          ELSE /\ storage' = [token |-> {}, auth |-> SignedOut]
               /\ tabs' = [tabs EXCEPT ![t] = Show("login", SignedOut)]
    /\ UNCHANGED <<account, tokens, logins, failures>>

\* ProtectedRoute renders again when the user goes to another page.
Navigate(t) ==
    /\ tabs[t].page = "app"
    /\ tabs[t].memory.token \cup storage.token = {}
    /\ tabs' = [tabs EXCEPT ![t] = Show("login", tabs[t].memory)]
    /\ UNCHANGED <<account, tokens, storage, logins, failures>>

Logout(t) ==
    /\ tabs[t].page = "app"
    /\ storage' = [token |-> {}, auth |-> SignedOut]
    /\ tabs' = [tabs EXCEPT ![t] = Show("login", SignedOut)]
    /\ UNCHANGED <<account, tokens, logins, failures>>

-----------------------------------------------------------------------------
\* What goes on without the user.
Respond(t) ==
    \/ InsertUser(t)
    \/ SaveCompare(t)
    \/ SaveUpdate(t)
    \/ \E k \in Token : Welcome(t, k)
    \/ Refused(t)
    \/ Rejected(t)
    \/ Poll(t)
    \/ PollAnswered(t)
    \/ Refreshed(t)

Next ==
    \/ \E t \in Tab :
          \/ SubmitRegistration(t)
          \/ SubmitLogin(t)
          \/ WrongPassword(t)
          \/ RightPassword(t)
          \/ \E page \in {"login", "app"} : Visit(t, page)
          \/ Navigate(t)
          \/ Logout(t)
          \/ Respond(t)
    \/ \E k \in Token : Expire(k)

Spec == Init /\ [][Next]_vars

\* Timers fire, as every tab is visible some time (the timer of a hidden one
\* pauses), and requests are answered, at least once in a while before the
\* user reloads the page; users do what they like.
Fairness == \A t \in Tab : WF_vars(Poll(t)) /\ SF_vars(PollAnswered(t))

FairSpec == Spec /\ Fairness

-----------------------------------------------------------------------------
(* What must hold.                                                         *)

\* Every variable keeps its type; tokens in the browser have been issued.
TypeOK ==
    /\ account \in SUBSET User /\ \A u, v \in account : u = v
    /\ tokens \in [Token -> {"new", "valid", "expired"}]
    /\ storage \in Storage
    /\ tabs \in [Tab -> Page]
    /\ logins \in [Tab -> Login]
    /\ failures \in 0 .. MaxFailures
    /\ \A k \in storage.token \cup storage.auth.token : tokens[k] # "new"

\* The account is locked only after LockAfter wrong passwords, in whatever
\* order the copies that concurrent logins count on are saved.
LockIsEarned == \A user \in account : user.locked => failures >= LockAfter

\* A tab that shows the application while the browser holds no valid token,
\* because another tab logged out, or was refused, or the token expired,
\* comes to the login page, unless a new token comes first.
StaleTabsLeave ==
    \A t \in Tab :
        (tabs[t].page = "app" /\ ~ Valid(storage.token))
            ~> (tabs[t].page # "app" \/ Valid(storage.token))

=============================================================================
