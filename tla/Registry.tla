------------------------------ MODULE Registry ------------------------------
(***************************************************************************)
(* Organizations, their members and their product listings:                *)
(* backend/src/organizations and backend/src/products.                     *)
(*                                                                         *)
(* Creating an organization takes three database calls that share no       *)
(* transaction: look the name up, insert the organization, insert its      *)
(* creator as a member; adding a member takes two.  What keeps names and   *)
(* memberships apart when these interleave are the unique constraints of   *)
(* the entities.  Organizations and products are removed softly: the row   *)
(* stays and is marked, and lookups pass over it; an update works on a     *)
(* copy read before (module Repository), as everywhere in this backend.    *)
(***************************************************************************)
EXTENDS Integers, Sequences, FiniteSets, Repository

CONSTANTS
    User,      \* users, registered before
    Org,       \* ids of organizations
    Name,      \* names of organizations, up to what their slug keeps
    Product,   \* ids of products
    Request,   \* slots for handlers in progress: bounds concurrency only
    MayFail    \* may a database call fail, or the server stop, half-way?

ASSUME ConstantsAssumption ==
    /\ Org \cap Product = {}
    /\ MayFail \in BOOLEAN

VARIABLES
    records,      \* the rows of organizations and products: {} if none
    members,      \* the organization_members table, oldest first
    requests,     \* the frame of the handler in each slot
    acknowledged  \* organizations created, each with the user told so

vars == <<records, members, requests, acknowledged>>

Thing == Org \cup Product

\* What a client may write: the description or the title.
Content == {"original", "edited"}

\* The roles tried here; the others differ in nothing the code looks at.
Role == {"owner", "viewer"}

\* key: the name (slug) of an organization, the organization of a product.
Row == [key : Name \cup Org, content : Content, deleted : BOOLEAN]

Columns == {"key", "content", "deleted"}

Membership == [organization : Org, user : User, role : Role]

\* things: the row handled; copies: the entity in memory; joining: the
\* member to insert; columns: those of an UPDATE under way.
Frame == [step    : {"idle", "insert", "own", "join", "save", "update",
                     "remove"},
          things  : SUBSET Thing,
          copies  : SUBSET Row,
          joining : SUBSET Membership,
          columns : SUBSET Columns]

Idle == [step |-> "idle", things |-> {}, copies |-> {},
         joining |-> {}, columns |-> {}]

NewRow(key) == [key |-> key, content |-> "original", deleted |-> FALSE]

Member(o, u, role) == [organization |-> o, user |-> u, role |-> role]

Creating(o, u, n) ==
    [Idle EXCEPT !.step = "insert", !.things = {o}, !.copies = {NewRow(n)},
                 !.joining = {Member(o, u, "owner")}]

Saving(x, entity) ==
    [Idle EXCEPT !.step = "save", !.things = {x}, !.copies = {entity}]

Removing(x) == [Idle EXCEPT !.step = "remove", !.things = {x}]

Exists(x) == records[x] # {}

\* Mutant of Found: the rows marked as deleted are not left out.
FoundDeleted(x) == records[x]

\* findOne passes over the rows that are marked as deleted.
Found(x) == {e \in records[x] : ~ e.deleted}

\* findOne with the option withDeleted does not.
Named(n) == {o \in Org : \E e \in records[o] : e.key = n}

\* The unique constraints of the two tables.
NameTaken(n) == Named(n) # {}

IsMember(o, u) == \E i \in 1 .. Len(members) :
    members[i].organization = o /\ members[i].user = u

NewId(x) == ~ Exists(x) /\ \A r \in Request : x \notin requests[r].things

Init ==
    /\ records = [x \in Thing |-> {}]
    /\ members = << >>
    /\ requests = [r \in Request |-> Idle]
    /\ acknowledged = {}

-----------------------------------------------------------------------------
(* How handlers begin and go on.                                           *)

Continue(r, frame) ==
    /\ requests' = [requests EXCEPT ![r] = frame]
    /\ UNCHANGED <<records, members, acknowledged>>

Begin(r, frame) == requests[r] = Idle /\ Continue(r, frame)

Write(r, x, rows, frame) ==
    /\ records' = [records EXCEPT ![x] = rows]
    /\ requests' = [requests EXCEPT ![r] = frame]
    /\ UNCHANGED <<members, acknowledged>>

-----------------------------------------------------------------------------
(* OrganizationsService.create and addMember.                              *)

CreateOrganization(r, u, o, n) ==
    /\ ~ NameTaken(n)
    /\ NewId(o)
    /\ Begin(r, Creating(o, u, n))

\* Mutant of InsertOrganization: no unique constraint on the slug.
InsertOrganizationAnyway(r) ==
    /\ requests[r].step = "insert"
    /\ \E o \in requests[r].things :
          Write(r, o, requests[r].copies, [requests[r] EXCEPT !.step = "own"])

\* The name looked up may have been taken since: then the insert is refused
\* and the handler fails.
InsertOrganization(r) ==
    /\ requests[r].step = "insert"
    /\ \E o \in requests[r].things, e \in requests[r].copies :
          IF NameTaken(e.key)
          THEN Continue(r, Idle)
          ELSE Write(r, o, {e}, [requests[r] EXCEPT !.step = "own"])

AddMember(r, o, u, role) ==
    /\ Exists(o)
    /\ ~ IsMember(o, u)
    /\ Begin(r, [Idle EXCEPT !.step = "join",
                             !.joining = {Member(o, u, role)}])

\* Mutant of InsertMember: that there is a member already is no failure.
InsertMemberIfNew(r) ==
    /\ requests[r].step \in {"own", "join"}
    /\ \E m \in requests[r].joining :
          /\ members' = IF IsMember(m.organization, m.user) THEN members
                        ELSE Append(members, m)
          /\ acknowledged' = IF requests[r].step = "own"
                             THEN acknowledged \cup {m} ELSE acknowledged
    /\ requests' = [requests EXCEPT ![r] = Idle]
    /\ UNCHANGED records

\* The last call of both handlers: the creator is told of the organization
\* only after it.  Someone may have made the user a member since; then the
\* insert is refused and the handler fails, leaving the organization.
InsertMember(r) ==
    /\ requests[r].step \in {"own", "join"}
    /\ \E m \in requests[r].joining :
          IF IsMember(m.organization, m.user)
          THEN UNCHANGED <<members, acknowledged>>
          ELSE /\ members' = Append(members, m)
               /\ acknowledged' = IF requests[r].step = "own"
                                  THEN acknowledged \cup {m}
                                  ELSE acknowledged
    /\ requests' = [requests EXCEPT ![r] = Idle]
    /\ UNCHANGED records

-----------------------------------------------------------------------------
(* ProductsService.create.                                                 *)

\* Mutant of CreateProduct: no foreign key; without the header that names
\* an organization the id of the user is stored.
CreateProductOfUser(p, o) ==
    /\ NewId(p)
    /\ \E u \in User : records' = [records EXCEPT ![p] = {NewRow(u)}]
    /\ UNCHANGED <<members, requests, acknowledged>>

\* The organization is the one the request's header names; the foreign key
\* refuses what is not the id of an organization, removed ones included.
CreateProduct(p, o) ==
    /\ Exists(o)
    /\ NewId(p)
    /\ records' = [records EXCEPT ![p] = {NewRow(o)}]
    /\ UNCHANGED <<members, requests, acknowledged>>

-----------------------------------------------------------------------------
(* update and remove of both services.                                     *)

UpdateOrganization(r, o, content) ==
    \E e \in Found(o) : Begin(r, Saving(o, [e EXCEPT !.content = content]))

RemoveOrganization(r, o) == Found(o) # {} /\ Begin(r, Removing(o))

\* Only for requests that name the organization of the product.
UpdateProduct(r, p, o, content) ==
    \E e \in Found(p) :
        /\ e.key = o
        /\ Begin(r, Saving(p, [e EXCEPT !.content = content]))

RemoveProduct(r, p, o) ==
    /\ \E e \in Found(p) : e.key = o
    /\ Begin(r, Removing(p))

SaveCompare(r) ==
    /\ requests[r].step = "save"
    /\ \E x \in requests[r].things, e \in requests[r].copies :
          \E row \in records[x] :
             LET dirty == Dirty(e, row)
             IN  Continue(r, IF dirty = {} THEN Idle
                             ELSE [requests[r] EXCEPT !.step = "update",
                                                      !.columns = dirty])

SaveUpdate(r) ==
    /\ requests[r].step = "update"
    /\ \E x \in requests[r].things, e \in requests[r].copies :
          \E row \in records[x] :
             Write(r, x, {Flush(e, requests[r].columns, row)}, Idle)

\* softRemove: one UPDATE of deleted_at.
SoftRemove(r) ==
    /\ requests[r].step = "remove"
    /\ \E x \in requests[r].things :
          Write(r, x, {[row EXCEPT !.deleted = TRUE] : row \in records[x]},
                Idle)

\* A database call fails, or the server stops: no handler undoes what its
\* earlier calls have stored.
Fail(r) ==
    /\ MayFail
    /\ requests[r] # Idle
    /\ Continue(r, Idle)

Next ==
    \/ \E p \in Product, o \in Org : CreateProduct(p, o)
    \/ \E r \in Request :
          \/ \E u \in User, o \in Org, n \in Name :
                CreateOrganization(r, u, o, n)
          \/ InsertOrganization(r)
          \/ \E o \in Org, u \in User, role \in Role : AddMember(r, o, u, role)
          \/ InsertMember(r)
          \/ \E o \in Org, content \in Content :
                UpdateOrganization(r, o, content)
          \/ \E o \in Org : RemoveOrganization(r, o)
          \/ \E p \in Product, o \in Org, content \in Content :
                UpdateProduct(r, p, o, content)
          \/ \E p \in Product, o \in Org : RemoveProduct(r, p, o)
          \/ SaveCompare(r)
          \/ SaveUpdate(r)
          \/ SoftRemove(r)
          \/ Fail(r)

Spec == Init /\ [][Next]_vars

-----------------------------------------------------------------------------
(* What must hold.                                                         *)

\* Every variable keeps its type; an id has at most one row, an organization
\* is keyed by a name and a product by an organization that exists.
TypeOK ==
    /\ records \in [Thing -> SUBSET Row]
    /\ \A x \in Thing : \A e, f \in records[x] : e = f
    /\ \A o \in Org : \A e \in records[o] : e.key \in Name
    /\ \A p \in Product : \A e \in records[p] : e.key \in Org /\ Exists(e.key)
    /\ members \in Seq(Membership)
    /\ requests \in [Request -> Frame]
    /\ acknowledged \subseteq Membership

\* Two organizations never have the same name, removed ones included,
\* however many handlers have looked the name up and found it free.
OneOrganizationPerName ==
    \A n \in Name : \A o1, o2 \in Named(n) : o1 = o2

\* Whoever has been told that the organization was created is its owner,
\* although the organization could be seen, and joined, before.
AcknowledgedHasOwner ==
    \A m \in acknowledged : \E i \in 1 .. Len(members) : members[i] = m

\* A removed record that no handler holds a copy of any more.
Settled(x) ==
    /\ Exists(x)
    /\ \A e \in records[x] : e.deleted
    /\ \A r \in Request : x \notin requests[r].things

\* Such a record stays as it is: update and remove find no row to work on.
\* (While a copy is held it does not: the save writes deleted_at back.)
RemovedForGood ==
    [][\A x \in Thing : Settled(x) => Settled(x)' /\ UNCHANGED records[x]]_vars

=============================================================================
