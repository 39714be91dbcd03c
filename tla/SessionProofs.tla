--------------------------- MODULE SessionProofs ----------------------------
(***************************************************************************)
(* Proofs about Session, for any tabs, tokens and limits: types, and that  *)
(* an account is locked only by wrong passwords.  The lock is decided on   *)
(* copies of the user row that concurrent logins save over each other, so  *)
(* the invariant speaks of every copy in flight: none counts more failures *)
(* than there were, and none is locked before LockAfter of them.           *)
(***************************************************************************)
EXTENDS Session, TLAPS

\* What a tab remembers, and what the storage tells it when it loads, are
\* tokens that the server has issued.
Issued(auth) == \A k \in auth.token : tokens[k] # "new"

IssuedInv == \A t \in Tab : Issued(tabs[t].memory)

\* A user row, or a copy of one, counts no failure that did not happen.
Counted(user) ==
    /\ user.failed <= failures
    /\ user.locked => failures >= LockAfter

LockInv ==
    /\ \A user \in account : Counted(user)
    /\ \A t \in Tab : \A user \in logins[t].copies : Counted(user)

-----------------------------------------------------------------------------
(* Lemmas about the operators.                                             *)

\* Comparing and flushing yields a user again, each of whose columns is the
\* saved copy's if it was dirty and the row's otherwise.
LEMMA FlushUser ==
    ASSUME NEW user \in User, NEW row \in User, NEW D
    PROVE  /\ Flush(user, D, row) \in User
           /\ Flush(user, D, row).failed =
                 IF "failed" \in D THEN user.failed ELSE row.failed
           /\ Flush(user, D, row).locked =
                 IF "locked" \in D THEN user.locked ELSE row.locked
<1> DEFINE merged == [failed |-> IF "failed" \in D THEN user.failed ELSE row.failed,
                      locked |-> IF "locked" \in D THEN user.locked ELSE row.locked]
<1>1. DOMAIN row = {"failed", "locked"}
  BY DEF User
<1>2. Flush(user, D, row) = merged
  BY <1>1 DEF Flush
<1>3. merged \in User
  BY DEF User
<1> QED
  BY <1>2, <1>3

\* The dirty columns are columns.
LEMMA DirtyUser ==
    ASSUME NEW user, NEW row \in User PROVE Dirty(user, row) \subseteq Columns
<1>1. DOMAIN row = {"failed", "locked"}
  BY DEF User
<1> QED
  BY <1>1 DEF Dirty, Columns

\* One failure more makes a user again.
LEMMA FailedUser ==
    ASSUME NEW user \in User
    PROVE  /\ Failed(user) \in User
           /\ Failed(user).failed = user.failed + 1
           /\ Failed(user).locked = (user.locked \/ user.failed + 1 >= LockAfter)
<1> DEFINE more == user.failed + 1
           lock == user.locked \/ user.failed + 1 >= LockAfter
<1>1. more \in Nat
  BY DEF User
<1>2. lock \in BOOLEAN
  OBVIOUS
<1>3. Failed(user) = [failed |-> more, locked |-> lock]
  BY DEF Failed
<1> HIDE DEF more, lock
<1>4. [failed |-> more, locked |-> lock] \in User
  BY <1>1, <1>2 DEF User
<1> QED
  BY <1>3, <1>4 DEF more, lock

\* The account as it is registered.
LEMMA FreshUser == [failed |-> 0, locked |-> FALSE] \in User
  BY DEF User

\* The frames of a login in progress.
LEMMA LoginFrames ==
    ASSUME NEW step \in {"idle", "hash", "compare", "save", "update", "answer"},
           NEW copies \in SUBSET User, NEW answer \in Answer
    PROVE  /\ At(step, copies, answer) \in Login
           /\ At(step, copies, answer).copies = copies
           /\ Reply(answer) \in Login /\ Reply(answer).copies = {}
           /\ Idle \in Login /\ Idle.copies = {}
  BY DEF At, Reply, Idle, Login, Answer

\* A page that shows a store remembers that store.
LEMMA ShownPage ==
    ASSUME NEW page \in {"login", "checking", "app"}, NEW auth \in Auth
    PROVE  Show(page, auth) \in Page /\ Show(page, auth).memory = auth
  BY DEF Show, Page

\* A page that loads the application remembers the store it finds.
LEMMA LoadedPage ==
    ASSUME NEW stored \in Storage
    PROVE  Loaded(stored) \in Page /\ Loaded(stored).memory = stored.auth
<1>1. stored.auth \in Auth /\ stored.token \in SUBSET Token
  BY DEF Storage
<1>2. /\ [Show("checking", stored.auth) EXCEPT !.sent = {stored.token}] \in Page
      /\ [Show("checking", stored.auth) EXCEPT !.sent = {stored.token}].memory = stored.auth
  BY <1>1 DEF Show, Page
<1> QED
  BY <1>1, <1>2, ShownPage DEF Loaded

\* A step that gives a login a new frame.
LEMMA ServeType ==
    ASSUME TypeOK, NEW t \in Tab, NEW frame \in Login, Serve(t, frame)
    PROVE  logins' \in [Tab -> Login]
  BY DEF TypeOK, Serve

\* A step that shows another page in a tab.
LEMMA TabType ==
    ASSUME TypeOK, IssuedInv, NEW t \in Tab, NEW page \in Page,
           tabs' = [tabs EXCEPT ![t] = page], UNCHANGED tokens,
           Issued(page.memory)
    PROVE  tabs' \in [Tab -> Page] /\ IssuedInv'
  BY DEF TypeOK, IssuedInv, Issued

-----------------------------------------------------------------------------
(* Types.                                                                  *)

\* The initial state has the types.
LEMMA InitTypeOK == Init => TypeOK /\ IssuedInv
<1> SUFFICES ASSUME Init PROVE TypeOK /\ IssuedInv
  OBVIOUS
<1>1. SignedOut \in Auth /\ SignedOut.token = {}
  BY DEF SignedOut, Auth
<1>2. Show("login", SignedOut) \in Page /\ Show("login", SignedOut).memory = SignedOut
  BY <1>1, ShownPage
<1>3. Idle \in Login
  BY DEF Idle, Login, Answer
<1> QED
  BY <1>1, <1>2, <1>3, ConstantsAssumption DEF Init, TypeOK, IssuedInv, Issued, Storage

\* Submitting a form: the login gets a frame, the storage the tab's store.
LEMMA SubmitType ==
    ASSUME TypeOK, IssuedInv, NEW t \in Tab, NEW frame \in Login, Submit(t, frame)
    PROVE  TypeOK' /\ IssuedInv'
<1>1. tabs[t].memory \in Auth /\ Issued(tabs[t].memory)
  BY DEF TypeOK, IssuedInv, Page
<1>2. storage' \in Storage /\ storage'.token = storage.token
      /\ storage'.auth = tabs[t].memory
  BY <1>1 DEF Submit, TypeOK, Storage
<1> QED
  BY <1>1, <1>2 DEF Submit, TypeOK, IssuedInv, Issued

\* A step of the server that changes neither the browser nor the tokens.
LEMMA ServerType ==
    ASSUME TypeOK, IssuedInv, NEW t \in Tab, NEW frame \in Login, Serve(t, frame),
           account' \in SUBSET User, \A u, v \in account' : u = v,
           failures' \in 0 .. MaxFailures, UNCHANGED <<tokens, storage, tabs>>
    PROVE  TypeOK' /\ IssuedInv'
  BY ServeType DEF TypeOK, IssuedInv, Issued

\* A step of a tab that leaves the account and the tokens alone.
LEMMA BrowserType ==
    ASSUME TypeOK, IssuedInv, NEW t \in Tab, NEW page \in Page,
           tabs' = [tabs EXCEPT ![t] = page], Issued(page.memory),
           storage' \in Storage, Issued(storage'.auth), Issued(storage'),
           logins' \in [Tab -> Login], UNCHANGED <<account, tokens, failures>>
    PROVE  TypeOK' /\ IssuedInv'
  BY TabType DEF TypeOK, Issued

\* Every step keeps the types, and what the browser holds is issued.
LEMMA NextTypeOK == TypeOK /\ IssuedInv /\ [Next]_vars => TypeOK' /\ IssuedInv'
<1> SUFFICES ASSUME TypeOK, IssuedInv, [Next]_vars PROVE TypeOK' /\ IssuedInv'
  OBVIOUS
<1> USE ConstantsAssumption
<1>0. /\ storage \in Storage /\ Issued(storage) /\ Issued(storage.auth)
      /\ storage.auth \in Auth /\ storage.token \in SUBSET Token
      /\ account \in SUBSET User /\ failures \in 0 .. MaxFailures
      /\ \A u, v \in account : u = v
  BY DEF TypeOK, Issued, Storage
<1>00. ASSUME NEW t \in Tab
       PROVE  /\ tabs[t] \in Page /\ tabs[t].memory \in Auth /\ Issued(tabs[t].memory)
              /\ logins[t] \in Login /\ logins[t].copies \in SUBSET User
              /\ logins[t].answer \in Answer
  <2>1. tabs[t] \in Page /\ logins[t] \in Login
    BY DEF TypeOK
  <2> QED
    BY <2>1 DEF IssuedInv, Page, Login
<1>a. /\ SignedOut \in Auth /\ Issued(SignedOut)
  BY DEF SignedOut, Auth, Issued
<1>b. {} \in SUBSET User /\ {} \in SUBSET Token
  OBVIOUS
<1>1. ASSUME NEW t \in Tab, SubmitRegistration(t) PROVE TypeOK' /\ IssuedInv'
  <2>1. At("hash", {}, "welcome") \in Login /\ Reply("error") \in Login
    BY LoginFrames, <1>b DEF Answer
  <2> QED
    BY <1>1, <2>1, SubmitType DEF SubmitRegistration
<1>2. ASSUME NEW t \in Tab, SubmitLogin(t) PROVE TypeOK' /\ IssuedInv'
  <2>1. At("compare", account, "refused") \in Login /\ Reply("refused") \in Login
    BY LoginFrames, <1>0 DEF Answer
  <2> QED
    BY <1>2, <2>1, SubmitType DEF SubmitLogin
<1>3. ASSUME NEW t \in Tab, WrongPassword(t) PROVE TypeOK' /\ IssuedInv'
  <2>1. PICK user \in logins[t].copies : Serve(t, At("save", {Failed(user)}, "refused"))
    BY <1>3 DEF WrongPassword
  <2>2. {Failed(user)} \in SUBSET User
    BY <1>00, <2>1, FailedUser
  <2>3. At("save", {Failed(user)}, "refused") \in Login
    BY <2>2, LoginFrames DEF Answer
  <2>4. failures' \in 0 .. MaxFailures /\ UNCHANGED <<account, tokens, storage, tabs>>
    BY <1>0, <1>3 DEF WrongPassword
  <2> QED
    BY <1>0, <2>1, <2>3, <2>4, ServerType
<1>4. ASSUME NEW t \in Tab, RightPassword(t) PROVE TypeOK' /\ IssuedInv'
  <2> DEFINE fresh == [failed |-> 0, locked |-> FALSE]
  <2>1. \/ Serve(t, Reply("refused"))
        \/ Serve(t, At("save", {fresh}, "welcome"))
    BY <1>4 DEF RightPassword
  <2>2. Reply("refused") \in Login /\ At("save", {fresh}, "welcome") \in Login
    <3>1. {fresh} \in SUBSET User
      BY FreshUser
    <3> QED
      BY <3>1, LoginFrames DEF Answer
  <2>3. UNCHANGED <<account, tokens, storage, tabs, failures>>
    BY <1>4 DEF RightPassword
  <2> HIDE DEF fresh
  <2> QED
    BY <1>0, <2>1, <2>2, <2>3, ServerType
<1>5. ASSUME NEW t \in Tab, Visit(t, "login") \/ Visit(t, "app")
      PROVE  TypeOK' /\ IssuedInv'
  <2>1. /\ Show("login", storage.auth) \in Page
        /\ Show("login", storage.auth).memory = storage.auth
        /\ Loaded(storage) \in Page /\ Loaded(storage).memory = storage.auth
    BY <1>0, ShownPage, LoadedPage
  <2>2. PICK page \in Page : /\ tabs' = [tabs EXCEPT ![t] = page]
                             /\ page.memory = storage.auth
    BY <1>5, <2>1 DEF Visit
  <2>3. /\ UNCHANGED <<account, tokens, storage, failures>>
        /\ logins' \in [Tab -> Login]
    BY <1>5 DEF Visit, TypeOK
  <2>4. Issued(page.memory)
    BY <1>0, <2>2
  <2>5. storage' \in Storage /\ Issued(storage'.auth) /\ Issued(storage')
    BY <1>0, <2>3
  <2> QED
    BY <2>2, <2>3, <2>4, <2>5, BrowserType
<1>6. ASSUME NEW t \in Tab, Navigate(t) PROVE TypeOK' /\ IssuedInv'
  <2>1. /\ Show("login", tabs[t].memory) \in Page
        /\ Issued(Show("login", tabs[t].memory).memory)
    BY <1>00, ShownPage
  <2>2. /\ tabs' = [tabs EXCEPT ![t] = Show("login", tabs[t].memory)]
        /\ UNCHANGED <<account, tokens, storage, logins, failures>>
    BY <1>6 DEF Navigate
  <2>3. storage' \in Storage /\ Issued(storage'.auth) /\ Issued(storage')
    BY <1>0, <2>2
  <2>4. logins' \in [Tab -> Login]
    BY <2>2 DEF TypeOK
  <2> QED
    BY <2>1, <2>2, <2>3, <2>4, BrowserType
<1>7. ASSUME NEW t \in Tab, Logout(t) PROVE TypeOK' /\ IssuedInv'
  <2>1. /\ Show("login", SignedOut) \in Page
        /\ Issued(Show("login", SignedOut).memory)
    BY <1>a, ShownPage
  <2>2. /\ tabs' = [tabs EXCEPT ![t] = Show("login", SignedOut)]
        /\ storage' = [token |-> {}, auth |-> SignedOut]
        /\ UNCHANGED <<account, tokens, logins, failures>>
    BY <1>7 DEF Logout
  <2>3. storage' \in Storage /\ Issued(storage'.auth) /\ Issued(storage')
    BY <1>a, <2>2 DEF Storage, Issued
  <2>4. logins' \in [Tab -> Login]
    BY <2>2 DEF TypeOK
  <2> QED
    BY <2>1, <2>2, <2>3, <2>4, BrowserType
<1>8. ASSUME NEW t \in Tab, InsertUser(t) PROVE TypeOK' /\ IssuedInv'
  <2> DEFINE fresh == [failed |-> 0, locked |-> FALSE]
  <2>1. Reply("welcome") \in Login /\ Reply("error") \in Login
    BY LoginFrames, <1>b DEF Answer
  <2>2. PICK frame \in Login : Serve(t, frame)
    BY <1>8, <2>1 DEF InsertUser
  <2>3. account' = {fresh} \/ account' = account
    BY <1>8 DEF InsertUser
  <2>4. UNCHANGED <<tokens, storage, tabs, failures>>
    BY <1>8 DEF InsertUser
  <2>5. fresh \in User
    BY FreshUser
  <2> HIDE DEF fresh
  <2>6. account' \in SUBSET User /\ \A u, v \in account' : u = v
    BY <1>0, <2>3, <2>5
  <2> QED
    BY <1>0, <2>2, <2>4, <2>6, ServerType
<1>9. ASSUME NEW t \in Tab, SaveCompare(t) PROVE TypeOK' /\ IssuedInv'
  <2>1. PICK user \in logins[t].copies, row \in account :
           Serve(t, IF Dirty(user, row) = {} THEN Reply(logins[t].answer)
                    ELSE [logins[t] EXCEPT !.step = "update",
                                           !.columns = Dirty(user, row)])
    BY <1>9, Zenon DEF SaveCompare
  <2>2. Dirty(user, row) \in SUBSET Columns
    BY <1>0, DirtyUser
  <2>3. Reply(logins[t].answer) \in Login
    BY <1>00, <1>b, LoginFrames
  <2>4. ASSUME NEW D \in SUBSET Columns
        PROVE  [logins[t] EXCEPT !.step = "update", !.columns = D] \in Login
    BY <1>00 DEF Login
  <2>5. PICK frame \in Login : Serve(t, frame)
    BY <2>1, <2>2, <2>3, <2>4
  <2>6. UNCHANGED <<account, tokens, storage, tabs, failures>>
    BY <1>9 DEF SaveCompare
  <2> QED
    BY <1>0, <2>5, <2>6, ServerType
<1>10. ASSUME NEW t \in Tab, SaveUpdate(t) PROVE TypeOK' /\ IssuedInv'
  <2>1. PICK user \in logins[t].copies, row \in account :
           account' = {Flush(user, logins[t].columns, row)}
    BY <1>10, Zenon DEF SaveUpdate
  <2>2. Flush(user, logins[t].columns, row) \in User
    <3>1. user \in User /\ row \in User
      BY <1>0, <1>00
    <3> QED
      BY <3>1, FlushUser
  <2>3. account' \in SUBSET User /\ \A u, v \in account' : u = v
    BY <2>1, <2>2
  <2>4. Reply(logins[t].answer) \in Login
    BY <1>00, <1>b, LoginFrames
  <2>5. Serve(t, Reply(logins[t].answer)) /\ UNCHANGED <<tokens, storage, tabs, failures>>
    BY <1>10 DEF SaveUpdate
  <2> QED
    BY <1>0, <2>3, <2>4, <2>5, ServerType
<1>11. ASSUME NEW t \in Tab, NEW k \in Token, Welcome(t, k)
       PROVE  TypeOK' /\ IssuedInv'
  <2>1. /\ tokens' = [tokens EXCEPT ![k] = "valid"]
        /\ storage' = [token |-> {k}, auth |-> SignedIn(k)]
        /\ tabs' = [tabs EXCEPT ![t] = Loaded(storage')]
        /\ Serve(t, Idle)
        /\ UNCHANGED <<account, failures>>
    BY <1>11 DEF Welcome
  <2>2. /\ tokens' \in [Token -> {"new", "valid", "expired"}] /\ tokens'[k] = "valid"
        /\ \A j \in Token : tokens[j] # "new" => tokens'[j] # "new"
    BY <2>1 DEF TypeOK
  <2>3. storage' \in Storage /\ storage'.token = {k} /\ storage'.auth.token = {k}
    BY <2>1 DEF Storage, Auth, SignedIn
  <2>4. Loaded(storage') \in Page /\ Loaded(storage').memory = storage'.auth
    BY <2>3, LoadedPage
  <2>5. tabs' \in [Tab -> Page]
    BY <2>1, <2>4 DEF TypeOK
  <2>6. logins' \in [Tab -> Login]
    BY <2>1, <1>b, LoginFrames, ServeType DEF Answer
  <2>7. ASSUME NEW s \in Tab PROVE Issued(tabs[s].memory)'
    <3>1. CASE s = t
      BY <2>1, <2>2, <2>3, <2>4, <3>1 DEF TypeOK, Issued
    <3>2. CASE s # t
      <4>1. tabs'[s] = tabs[s]
        BY <2>1, <3>2 DEF TypeOK
      <4>2. tabs[s].memory.token \in SUBSET Token
        BY <1>00 DEF Auth
      <4> QED
        BY <1>00, <2>2, <4>1, <4>2 DEF Issued
    <3> QED
      BY <3>1, <3>2
  <2> QED
    BY <1>0, <2>1, <2>2, <2>3, <2>5, <2>6, <2>7 DEF TypeOK, IssuedInv
<1>12. ASSUME NEW t \in Tab, Refused(t) PROVE TypeOK' /\ IssuedInv'
  <2>1. /\ storage' = [token |-> {}, auth |-> tabs[t].memory]
        /\ tabs' = [tabs EXCEPT ![t] = Show("login", storage'.auth)]
        /\ Serve(t, Idle)
        /\ UNCHANGED <<account, tokens, failures>>
    BY <1>12 DEF Refused
  <2>2. /\ storage' \in Storage /\ storage'.auth = tabs[t].memory
        /\ Issued(storage'.auth) /\ Issued(storage')
    BY <1>00, <2>1 DEF Storage, Issued
  <2>3. /\ Show("login", storage'.auth) \in Page
        /\ Issued(Show("login", storage'.auth).memory)
    BY <1>00, <2>2, ShownPage
  <2>4. logins' \in [Tab -> Login]
    BY <2>1, <1>b, LoginFrames, ServeType DEF Answer
  <2> QED
    BY <2>1, <2>2, <2>3, <2>4, BrowserType
<1>13. ASSUME NEW t \in Tab, Rejected(t) PROVE TypeOK' /\ IssuedInv'
  <2>1. /\ storage' = [storage EXCEPT !.auth = tabs[t].memory]
        /\ Serve(t, Idle)
        /\ UNCHANGED <<account, tokens, tabs, failures>>
    BY <1>13 DEF Rejected
  <2>2. /\ storage' \in Storage /\ storage'.auth = tabs[t].memory
        /\ storage'.token = storage.token
    BY <1>0, <1>00, <2>1 DEF Storage
  <2>3. logins' \in [Tab -> Login]
    BY <2>1, <1>b, LoginFrames, ServeType DEF Answer
  <2> QED
    BY <1>0, <1>00, <2>1, <2>2, <2>3 DEF TypeOK, IssuedInv, Issued
<1>14. ASSUME NEW t \in Tab, Poll(t) PROVE TypeOK' /\ IssuedInv'
  <2> DEFINE page == [tabs[t] EXCEPT !.sent = {storage.token}]
  <2>1. page \in Page /\ page.memory = tabs[t].memory
    BY <1>0, <1>00 DEF Page
  <2>2. tabs' = [tabs EXCEPT ![t] = page]
    BY <1>14 DEF Poll
  <2>3. UNCHANGED <<account, tokens, storage, logins, failures>>
    BY <1>14 DEF Poll
  <2>4. storage' \in Storage /\ Issued(storage'.auth) /\ Issued(storage')
    BY <1>0, <2>3
  <2>5. Issued(page.memory) /\ logins' \in [Tab -> Login]
    BY <1>00, <2>1, <2>3 DEF TypeOK
  <2> HIDE DEF page
  <2> QED
    BY <2>1, <2>2, <2>3, <2>4, <2>5, BrowserType
<1>15. ASSUME NEW t \in Tab, PollAnswered(t) PROVE TypeOK' /\ IssuedInv'
  <2>1. PICK header \in tabs[t].sent :
           IF Valid(header)
           THEN tabs' = [tabs EXCEPT ![t].sent = {}] /\ UNCHANGED storage
           ELSE /\ storage' = [storage EXCEPT !.token = {}]
                /\ tabs' = [tabs EXCEPT ![t] = Show("login", storage.auth)]
    BY <1>15, Zenon DEF PollAnswered
  <2>2. UNCHANGED <<account, tokens, logins, failures>> /\ logins' \in [Tab -> Login]
    BY <1>15 DEF PollAnswered, TypeOK
  <2>3. CASE Valid(header)
    <3> DEFINE page == [tabs[t] EXCEPT !.sent = {}]
    <3>1. page \in Page /\ page.memory = tabs[t].memory
      BY <1>00 DEF Page
    <3>2. tabs' = [tabs EXCEPT ![t] = page] /\ UNCHANGED storage
      BY <2>1, <2>3
    <3>3. storage' \in Storage /\ Issued(storage'.auth) /\ Issued(storage')
      BY <1>0, <2>2, <3>2
    <3>4. Issued(page.memory)
      BY <1>00, <3>1
    <3> HIDE DEF page
    <3> QED
      BY <2>2, <3>1, <3>2, <3>3, <3>4, BrowserType
  <2>4. CASE ~ Valid(header)
    <3>1. /\ storage' = [storage EXCEPT !.token = {}]
          /\ tabs' = [tabs EXCEPT ![t] = Show("login", storage.auth)]
      BY <2>1, <2>4
    <3>2. /\ storage' \in Storage /\ storage'.token = {}
          /\ storage'.auth = storage.auth
      BY <1>0, <3>1 DEF Storage
    <3>3. Issued(storage'.auth) /\ Issued(storage')
      BY <1>0, <3>2 DEF Issued
    <3>4. /\ Show("login", storage.auth) \in Page
          /\ Issued(Show("login", storage.auth).memory)
      BY <1>0, ShownPage
    <3> QED
      BY <2>2, <3>1, <3>2, <3>3, <3>4, BrowserType
  <2> QED
    BY <2>3, <2>4
<1>16. ASSUME NEW t \in Tab, Refreshed(t) PROVE TypeOK' /\ IssuedInv'
  <2> DEFINE auth == [tabs[t].memory EXCEPT !.signedIn = TRUE]
  <2>1. \/ /\ storage' = [storage EXCEPT !.auth = auth]
           /\ tabs' = [tabs EXCEPT ![t] = Loaded(storage')]
        \/ /\ storage' = [token |-> {}, auth |-> SignedOut]
           /\ tabs' = [tabs EXCEPT ![t] = Show("login", SignedOut)]
    BY <1>16 DEF Refreshed
  <2>2. UNCHANGED <<account, tokens, logins, failures>> /\ logins' \in [Tab -> Login]
    BY <1>16 DEF Refreshed, TypeOK
  <2>3. auth \in Auth /\ Issued(auth)
    BY <1>00 DEF Auth, Issued
  <2> HIDE DEF auth
  <2>4. CASE /\ storage' = [storage EXCEPT !.auth = auth]
             /\ tabs' = [tabs EXCEPT ![t] = Loaded(storage')]
    <3>1. /\ storage' \in Storage /\ storage'.auth = auth
          /\ storage'.token = storage.token
      BY <1>0, <2>3, <2>4 DEF Storage
    <3>2. Issued(storage'.auth) /\ Issued(storage')
      BY <1>0, <2>3, <3>1 DEF Issued
    <3>3. Loaded(storage') \in Page /\ Issued(Loaded(storage').memory)
      BY <3>1, <3>2, LoadedPage
    <3> QED
      BY <2>2, <2>4, <3>1, <3>2, <3>3, BrowserType
  <2>5. CASE /\ storage' = [token |-> {}, auth |-> SignedOut]
             /\ tabs' = [tabs EXCEPT ![t] = Show("login", SignedOut)]
    <3>1. storage' \in Storage /\ Issued(storage'.auth) /\ Issued(storage')
      BY <1>a, <2>5 DEF Storage, Issued
    <3>2. /\ Show("login", SignedOut) \in Page
          /\ Issued(Show("login", SignedOut).memory)
      BY <1>a, ShownPage
    <3> QED
      BY <2>2, <2>5, <3>1, <3>2, BrowserType
  <2> QED
    BY <2>1, <2>4, <2>5
<1>17. ASSUME NEW k \in Token, Expire(k) PROVE TypeOK' /\ IssuedInv'
  <2>1. /\ tokens' \in [Token -> {"new", "valid", "expired"}]
        /\ \A j \in Token : tokens[j] # "new" => tokens'[j] # "new"
        /\ UNCHANGED <<account, storage, tabs, logins, failures>>
    BY <1>17 DEF Expire, TypeOK
  <2>2. ASSUME NEW t \in Tab PROVE tabs[t].memory.token \in SUBSET Token
    BY <1>00 DEF Auth
  <2>3. storage.auth.token \in SUBSET Token
    BY <1>0 DEF Auth
  <2> QED
    BY <1>0, <2>1, <2>2, <2>3 DEF TypeOK, IssuedInv, Issued
<1>18. CASE UNCHANGED vars
  BY <1>18 DEF vars, TypeOK, IssuedInv, Issued
<1> QED
  BY <1>1, <1>2, <1>3, <1>4, <1>5, <1>6, <1>7, <1>8, <1>9, <1>10, <1>11, <1>12,
     <1>13, <1>14, <1>15, <1>16, <1>17, <1>18 DEF Next, Respond

\* Every variable keeps its type, and every token in the browser was issued
\* by the server, for any number of tabs and logins.
THEOREM SessionTypeOK == Spec => []TypeOK
<1>1. Init => TypeOK /\ IssuedInv
  BY InitTypeOK
<1>2. TypeOK /\ IssuedInv /\ [Next]_vars => TypeOK' /\ IssuedInv'
  BY NextTypeOK
<1> QED
  BY <1>1, <1>2, PTL DEF Spec

-----------------------------------------------------------------------------
(* The lock.                                                               *)

\* A step in which only one login gets a new frame, and no failure is undone.
LEMMA FrameLock ==
    ASSUME TypeOK, LockInv, NEW t \in Tab, NEW frame \in Login, Serve(t, frame),
           failures' \in Nat, failures' >= failures,
           \A user \in account' : Counted(user)',
           \A user \in frame.copies : Counted(user)'
    PROVE  LockInv'
<1>1. ASSUME NEW s \in Tab, NEW user \in logins'[s].copies PROVE Counted(user)'
  <2>1. CASE s = t
    BY <2>1 DEF TypeOK, Serve
  <2>2. CASE s # t
    <3>1. user \in logins[s].copies
      BY <2>2 DEF TypeOK, Serve
    <3>2. user \in User
      BY <3>1 DEF TypeOK, Login
    <3>3. Counted(user)
      BY <3>1 DEF LockInv
    <3> QED
      BY <3>2, <3>3, ConstantsAssumption DEF Counted, User, TypeOK
  <2> QED
    BY <2>1, <2>2
<1> QED
  BY <1>1 DEF LockInv

\* The same for a step in which the row and the failures stay.
LEMMA ServeLock ==
    ASSUME TypeOK, LockInv, NEW t \in Tab, NEW frame \in Login, Serve(t, frame),
           UNCHANGED <<account, failures>>,
           \A user \in frame.copies : Counted(user)
    PROVE  LockInv'
<1>1. failures' \in Nat /\ failures' >= failures
  BY ConstantsAssumption DEF TypeOK
<1>2. \A user : Counted(user)' <=> Counted(user)
  BY DEF Counted
<1>3. \A user \in account' : Counted(user)'
  BY <1>2 DEF LockInv
<1> QED
  BY <1>1, <1>2, <1>3, FrameLock

\* Initially there is no account.
LEMMA InitLockInv == Init => LockInv
  BY DEF Init, LockInv, Idle

\* Every step keeps the lock earned.
LEMMA NextLockInv == TypeOK /\ LockInv /\ [Next]_vars => LockInv'
<1> SUFFICES ASSUME TypeOK, LockInv, [Next]_vars PROVE LockInv'
  OBVIOUS
<1> USE ConstantsAssumption
<1>0. ASSUME NEW t \in Tab
      PROVE  /\ logins[t] \in Login /\ logins[t].copies \in SUBSET User
             /\ logins[t].answer \in Answer
             /\ \A user \in logins[t].copies : Counted(user)
  <2>1. logins[t] \in Login
    BY DEF TypeOK
  <2> QED
    BY <2>1 DEF Login, LockInv
<1>00. /\ account \in SUBSET User /\ failures \in Nat
       /\ \A user \in account : Counted(user)
  BY DEF TypeOK, LockInv
<1>a. {} \in SUBSET User
  OBVIOUS
<1>b. ASSUME NEW user
      PROVE  Counted(user)' <=> /\ user.failed <= failures'
                                /\ user.locked => failures' >= LockAfter
  BY DEF Counted
<1>c. ASSUME NEW t \in Tab, NEW frame, Submit(t, frame)
      PROVE  Serve(t, frame) /\ UNCHANGED <<account, failures>>
  BY <1>c DEF Submit, Serve
<1>1. ASSUME NEW t \in Tab, SubmitRegistration(t) PROVE LockInv'
  <2>1. /\ At("hash", {}, "welcome") \in Login /\ At("hash", {}, "welcome").copies = {}
        /\ Reply("error") \in Login /\ Reply("error").copies = {}
    BY LoginFrames, <1>a DEF Answer
  <2>2. Serve(t, At("hash", {}, "welcome")) \/ Serve(t, Reply("error"))
    BY <1>1, <1>c DEF SubmitRegistration
  <2>3. UNCHANGED <<account, failures>>
    BY <1>1, <1>c DEF SubmitRegistration
  <2> QED
    BY <2>1, <2>2, <2>3, ServeLock
<1>2. ASSUME NEW t \in Tab, SubmitLogin(t) PROVE LockInv'
  <2>1. /\ At("compare", account, "refused") \in Login
        /\ At("compare", account, "refused").copies = account
        /\ Reply("refused") \in Login /\ Reply("refused").copies = {}
    BY LoginFrames, <1>00 DEF Answer
  <2>2. Serve(t, At("compare", account, "refused")) \/ Serve(t, Reply("refused"))
    BY <1>2, <1>c DEF SubmitLogin
  <2>3. UNCHANGED <<account, failures>>
    BY <1>2, <1>c DEF SubmitLogin
  <2> QED
    BY <1>00, <2>1, <2>2, <2>3, ServeLock
<1>3. ASSUME NEW t \in Tab, WrongPassword(t) PROVE LockInv'
  <2>1. PICK user \in logins[t].copies : Serve(t, At("save", {Failed(user)}, "refused"))
    BY <1>3 DEF WrongPassword
  <2>2. user \in User /\ Counted(user)
    BY <1>0, <2>1
  <2>3. failures' = failures + 1 /\ account' = account
    BY <1>3 DEF WrongPassword
  <2>4. Counted(Failed(user))'
    <3>1. Failed(user).failed = user.failed + 1
      BY <2>2, FailedUser
    <3>2. user.failed + 1 <= failures'
      BY <1>00, <2>2, <2>3 DEF Counted, User
    <3>3. Failed(user).locked => failures' >= LockAfter
      <4>1. user.locked => failures >= LockAfter
        BY <2>2 DEF Counted
      <4>2. user.failed + 1 >= LockAfter => failures' >= LockAfter
        BY <1>00, <2>2, <3>2, <2>3 DEF User
      <4>3. failures >= LockAfter => failures' >= LockAfter
        BY <1>00, <2>3
      <4>4. Failed(user).locked = (user.locked \/ user.failed + 1 >= LockAfter)
        BY <2>2, FailedUser
      <4> QED
        BY <4>1, <4>2, <4>3, <4>4, Zenon
    <3> QED
      BY <1>b, <3>1, <3>2, <3>3, Zenon
  <2>5. /\ At("save", {Failed(user)}, "refused") \in Login
        /\ At("save", {Failed(user)}, "refused").copies = {Failed(user)}
    BY <2>2, FailedUser, LoginFrames DEF Answer
  <2>6. \A u \in account' : Counted(u)'
    BY <1>00, <2>3 DEF Counted, User
  <2>7. failures' \in Nat /\ failures' >= failures
    BY <1>00, <2>3
  <2>8. \A u \in At("save", {Failed(user)}, "refused").copies : Counted(u)'
    BY <2>4, <2>5
  <2> QED
    BY <2>1, <2>5, <2>6, <2>7, <2>8, FrameLock
<1>4. ASSUME NEW t \in Tab, RightPassword(t) PROVE LockInv'
  <2> DEFINE fresh == [failed |-> 0, locked |-> FALSE]
  <2>1. fresh \in User /\ Counted(fresh)
    BY <1>00, FreshUser DEF Counted
  <2>2. \/ Serve(t, Reply("refused"))
        \/ Serve(t, At("save", {fresh}, "welcome"))
    BY <1>4 DEF RightPassword
  <2>3. UNCHANGED <<account, failures>>
    BY <1>4 DEF RightPassword
  <2> HIDE DEF fresh
  <2>4. /\ Reply("refused") \in Login /\ Reply("refused").copies = {}
        /\ At("save", {fresh}, "welcome") \in Login
        /\ At("save", {fresh}, "welcome").copies = {fresh}
    BY <2>1, LoginFrames DEF Answer
  <2> QED
    BY <2>1, <2>2, <2>3, <2>4, ServeLock
<1>5. ASSUME NEW t \in Tab, InsertUser(t) PROVE LockInv'
  <2> DEFINE fresh == [failed |-> 0, locked |-> FALSE]
  <2>1. /\ Reply("welcome") \in Login /\ Reply("welcome").copies = {}
        /\ Reply("error") \in Login /\ Reply("error").copies = {}
    BY LoginFrames, <1>a DEF Answer
  <2>2. PICK frame \in Login : frame.copies = {} /\ Serve(t, frame)
    BY <1>5, <2>1 DEF InsertUser
  <2>3. (account' = {fresh} \/ account' = account) /\ failures' = failures
    BY <1>5 DEF InsertUser
  <2>4. Counted(fresh)
    BY <1>00 DEF Counted
  <2> HIDE DEF fresh
  <2>5. \A user \in account' : Counted(user)'
    BY <1>00, <2>3, <2>4 DEF Counted
  <2> QED
    BY <1>00, <2>2, <2>3, <2>5, FrameLock
<1>6. ASSUME NEW t \in Tab, SaveCompare(t) PROVE LockInv'
  <2>1. PICK user \in logins[t].copies, row \in account :
           Serve(t, IF Dirty(user, row) = {} THEN Reply(logins[t].answer)
                    ELSE [logins[t] EXCEPT !.step = "update",
                                           !.columns = Dirty(user, row)])
    BY <1>6, Zenon DEF SaveCompare
  <2>2. Dirty(user, row) \in SUBSET Columns
    BY <1>00, DirtyUser
  <2>3. Reply(logins[t].answer) \in Login /\ Reply(logins[t].answer).copies = {}
    BY <1>0, <1>a, LoginFrames
  <2>4. ASSUME NEW D \in SUBSET Columns
        PROVE  /\ [logins[t] EXCEPT !.step = "update", !.columns = D] \in Login
               /\ [logins[t] EXCEPT !.step = "update", !.columns = D].copies
                     = logins[t].copies
    BY <1>0 DEF Login
  <2>5. PICK frame \in Login : frame.copies \subseteq logins[t].copies /\ Serve(t, frame)
    BY <2>1, <2>2, <2>3, <2>4
  <2>6. UNCHANGED <<account, failures>>
    BY <1>6 DEF SaveCompare
  <2> QED
    BY <1>0, <2>5, <2>6, ServeLock
<1>7. ASSUME NEW t \in Tab, SaveUpdate(t) PROVE LockInv'
  <2>1. PICK user \in logins[t].copies, row \in account :
           account' = {Flush(user, logins[t].columns, row)}
    BY <1>7, Zenon DEF SaveUpdate
  <2> DEFINE saved == Flush(user, logins[t].columns, row)
  <2>2. user \in User /\ row \in User /\ Counted(user) /\ Counted(row)
    BY <1>0, <1>00
  <2>3. /\ saved.failed \in {user.failed, row.failed}
        /\ saved.locked \in {user.locked, row.locked}
    BY <2>2, FlushUser
  <2> HIDE DEF saved
  <2>4. Counted(saved)
    <3>1. saved.failed <= failures
      BY <2>2, <2>3 DEF Counted
    <3>2. saved.locked => failures >= LockAfter
      BY <2>2, <2>3, Zenon DEF Counted
    <3> QED
      BY <3>1, <3>2 DEF Counted
  <2>5. Reply(logins[t].answer) \in Login /\ Reply(logins[t].answer).copies = {}
    BY <1>0, <1>a, LoginFrames
  <2>6. Serve(t, Reply(logins[t].answer)) /\ failures' = failures
    BY <1>7 DEF SaveUpdate
  <2>7. \A u \in account' : Counted(u)'
    BY <2>1, <2>4, <2>6 DEF Counted, saved
  <2> QED
    BY <1>00, <2>5, <2>6, <2>7, FrameLock
<1>8. ASSUME NEW t \in Tab, (\E k \in Token : Welcome(t, k)) \/ Refused(t) \/ Rejected(t)
      PROVE  LockInv'
  <2>1. Serve(t, Idle) /\ UNCHANGED <<account, failures>>
    BY <1>8 DEF Welcome, Refused, Rejected
  <2>2. Idle \in Login /\ Idle.copies = {}
    BY <1>a, LoginFrames DEF Answer
  <2> QED
    BY <2>1, <2>2, ServeLock
<1>9. CASE UNCHANGED <<account, logins, failures>>
  BY <1>9 DEF LockInv, Counted
<1> QED
  BY <1>1, <1>2, <1>3, <1>4, <1>5, <1>6, <1>7, <1>8, <1>9
  DEF Next, Respond, Visit, Navigate, Logout, Poll, PollAnswered, Refreshed,
      Expire, vars

\* The account is locked only after LockAfter wrong passwords, however many
\* logins work on copies of it and in whatever order these are saved.
THEOREM SessionLockIsEarned == Spec => []LockIsEarned
<1>1. Init => TypeOK /\ IssuedInv /\ LockInv
  BY InitTypeOK, InitLockInv
<1>2. TypeOK /\ IssuedInv /\ LockInv /\ [Next]_vars => TypeOK' /\ IssuedInv' /\ LockInv'
  BY NextTypeOK, NextLockInv
<1>3. LockInv => LockIsEarned
  BY DEF LockInv, LockIsEarned, Counted
<1> QED
  BY <1>1, <1>2, <1>3, PTL DEF Spec

=============================================================================
