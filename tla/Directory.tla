----------------------------- MODULE Directory -----------------------------
(***************************************************************************)
(* Contacts, groups and their members: app/services/contacts.py, groups.py *)
(* and csv_import.py with their routes.                                    *)
(*                                                                         *)
(* Each handler is a thread whose reads hold no lock: what a request read  *)
(* may have changed when it writes, and the foreign keys and the primary   *)
(* key (group, contact) then decide.  A CSV import runs on the event loop, *)
(* so there is one at a time; each of its rows is a savepoint, and as      *)
(* pysqlite begins no transaction before a savepoint, its release commits  *)
(* the row: other requests come between the rows, and a restart leaves the *)
(* rows before it.  A contact is its id and its number; names, the other   *)
(* columns, audit rows and the lists are left out, and so is a group name  *)
(* that is taken (409, nothing changes).                                   *)
(***************************************************************************)
EXTENDS Integers, Sequences, FiniteSets, FiniteSetsExt, Functions

CONSTANTS
  Phones,         \* normalised numbers
  Files,          \* CSV files: sequences of rows [phone, email, named]
  DirClients,     \* browsers, each with one slow request at a time
  MaxContactId,   \* bound: the largest id of a contact
  MaxGroupId,     \* bound: the largest id of a group
  MaxRowFaults    \* bound: rows fail because SQLite's writer is busy while
                  \* an import has fewer errors

NoPhone == "none"
BadPhone == "bad"

ASSUME DirectoryAssumption ==
  /\ {MaxContactId, MaxGroupId, MaxRowFaults} \subseteq Nat
  /\ {NoPhone, BadPhone} \cap Phones = {} /\ IsFiniteSet(Phones)
  /\ \A f \in Files :
       /\ f \in Seq(Range(f))
       /\ \A i \in DOMAIN f : f[i].phone \in Phones \cup {NoPhone, BadPhone}

VARIABLES
  contacts,   \* the number of every contact, by its id
  groups,     \* the ids of the groups
  members,    \* contact_group_members, pairs of a group and a contact
  dirReq      \* the requests under way, and what they have read and counted

directoryVars == <<contacts, groups, members, dirReq>>

ContactIds == DOMAIN contacts
Counts == {"created", "updated", "skipped", "errors", "invalid", "added"}
Zero == [k \in Counts |-> 0]

\* A request knows what it was asked and what it has read; told is what the
\* answer will say, done what was committed for it.
NoRequest == [step |-> "none"]

DirectoryInit ==
  /\ contacts = <<>> /\ groups = {} /\ members = {}
  /\ dirReq = [c \in DirClients |-> NoRequest]

NextId(ids) == Max(ids \cup {0}) + 1
Put(f, k, v) == [x \in DOMAIN f \cup {k} |-> IF x = k THEN v ELSE f[x]]

\* The contact a number finds: of several rows the last one read stays.
ByPhone(p) == {i \in ContactIds : contacts[i] = p}
FoundBy(P) == [p \in {q \in P : ByPhone(q) # {}} |-> Max(ByPhone(p))]
MembersOf(g) == {i \in ContactIds : <<g, i>> \in members}

-----------------------------------------------------------------------------
\* Requests that write what they read in one go, or for which it makes no
\* difference.

CreateContact(p) ==
  /\ NextId(ContactIds) <= MaxContactId
  /\ contacts' = Put(contacts, NextId(ContactIds), p)
  /\ UNCHANGED <<groups, members, dirReq>>

\* update_contact of a number; a field that is None is left as it is.
UpdateContact(i, p) ==
  /\ contacts' = [contacts EXCEPT ![i] = p]
  /\ UNCHANGED <<groups, members, dirReq>>

\* delete_contact, and its memberships by ON DELETE CASCADE.
DeleteContact(i) ==
  /\ contacts' = Restrict(contacts, ContactIds \ {i})
  /\ members' = {m \in members : m[2] # i}
  /\ UNCHANGED <<groups, dirReq>>

CreateGroup ==
  /\ NextId(groups) <= MaxGroupId
  /\ groups' = groups \cup {NextId(groups)}
  /\ UNCHANGED <<contacts, members, dirReq>>

DeleteGroup(g) ==
  /\ groups' = groups \ {g}
  /\ members' = {m \in members : m[1] # g}
  /\ UNCHANGED <<contacts, dirReq>>

RemoveMembers(g, ids) ==
  /\ members' = members \ ({g} \X ids)
  /\ UNCHANGED <<contacts, groups, dirReq>>

-----------------------------------------------------------------------------
\* Adding members: read first, then written in one transaction.

\* add_members with the ids the browser has on display, which may be those
\* of contacts that are gone.
ReadForAdd(c, g, ids) ==
  /\ dirReq[c].step = "none" /\ g \in groups
  /\ dirReq' = [dirReq EXCEPT ![c] =
       [step |-> "add", group |-> g, ids |-> ids, were |-> MembersOf(g)]]
  /\ UNCHANGED <<contacts, groups, members>>

\* bulk_add_by_phones
ReadForBulkAdd(c, g, P, auto) ==
  /\ dirReq[c].step = "none" /\ g \in groups
  /\ dirReq' = [dirReq EXCEPT ![c] =
       [step |-> "bulk", group |-> g, phones |-> P, autoCreate |-> auto,
        known |-> FoundBy(P), were |-> MembersOf(g)]]
  /\ UNCHANGED <<contacts, groups, members>>

\* What a request of either kind is going to write: new contacts, and the
\* contacts that become members.
Missing(q) ==
  IF q.step = "bulk" /\ q.autoCreate THEN q.phones \ DOMAIN q.known ELSE {}
Joining(q) ==
  (IF q.step = "add" THEN q.ids ELSE Range(q.known)) \ q.were

\* The numbers bulk_add_by_phones skips: their contacts are members, or they
\* have none and none is to be made.
Skipped(q) ==
  IF q.step = "bulk"
  THEN {p \in q.phones :
          IF p \in DOMAIN q.known THEN q.known[p] \in q.were ELSE ~q.autoCreate}
  ELSE {}

\* Mutant: the conflicting memberships are ignored instead.
AcceptedOrIgnored(q) == q.group \in groups /\ Joining(q) \subseteq ContactIds

\* The foreign keys and the primary key hold; else an IntegrityError ends
\* the request, and nothing of it is written.
Accepted(q) ==
  /\ q.group \in groups
  /\ Joining(q) \subseteq ContactIds
  /\ Joining(q) \cap MembersOf(q.group) = {}

\* The ids new contacts with the numbers P get, one after the other.
NewContacts(P) ==
  CHOOSE f \in [NextId(ContactIds)..(NextId(ContactIds) + Cardinality(P) - 1) -> P] :
    Range(f) = P

\* A new contact with the id of a member that was deleted since the members
\* were read is taken for one (groups.py:235), and does not become one.
CommitMembers(c) ==
  LET q == dirReq[c]
      new == NewContacts(Missing(q)) IN
  /\ q.step \in {"add", "bulk"}
  /\ NextId(ContactIds) + Cardinality(Missing(q)) - 1 <= MaxContactId
  /\ IF Accepted(q)
     THEN /\ contacts' = [i \in ContactIds \cup DOMAIN new |->
                            IF i \in ContactIds THEN contacts[i] ELSE new[i]]
          /\ members' = members \cup ({q.group} \X (Joining(q) \cup (DOMAIN new \ q.were)))
          /\ dirReq' = [dirReq EXCEPT ![c] =
               [step |-> "answered", of |-> q.step,
                asked |-> Cardinality(IF q.step = "bulk" THEN q.phones ELSE q.ids),
                told |-> [Zero EXCEPT
                  !["created"] = Cardinality(Missing(q)),
                  !["added"] = Cardinality(Missing(q)) + Cardinality(Joining(q)),
                  !["skipped"] = Cardinality(Skipped(q))],
                reused |-> DOMAIN new \cap q.were # {},
                done |-> [Zero EXCEPT
                  !["created"] = Cardinality(DOMAIN contacts') - Cardinality(ContactIds),
                  !["added"] = Cardinality(members') - Cardinality(members)]]]
     ELSE /\ dirReq' = [dirReq EXCEPT ![c] = NoRequest]
          /\ UNCHANGED <<contacts, members>>
  /\ UNCHANGED groups

-----------------------------------------------------------------------------
\* parse_csv: a row has a name, a number that can be normalised or none, and
\* a number or an address.
IsValidRow(row) ==
  /\ row.named
  /\ row.phone # NoPhone \/ row.email
  /\ row.phone # BadPhone

\* The valid rows of a file, each at its place.
ValidRows(file) == Restrict(file, {i \in DOMAIN file : IsValidRow(file[i])})

Importing == \E c \in DirClients : dirReq[c].step = "import"

\* The file is parsed and the contacts with its numbers are read.
StartImport(c, file, mode) ==
  LET rows == ValidRows(file) IN
  /\ dirReq[c].step = "none" /\ ~Importing
  /\ dirReq' = [dirReq EXCEPT ![c] =
       [step |-> "import", mode |-> mode, rows |-> rows, asked |-> Len(file),
        known |-> IF mode = "create" THEN <<>>
                  ELSE FoundBy({rows[i].phone : i \in DOMAIN rows} \ {NoPhone}),
        told |-> [Zero EXCEPT !["invalid"] = Cardinality(DOMAIN file \ DOMAIN rows)],
        done |-> Zero]]
  /\ UNCHANGED <<contacts, groups, members>>

\* Mutant: the row is counted before it is written.
CountedBeforehand(kind, ok) == IF ok THEN {kind} ELSE {kind, "errors"}

\* What a row counts as: its own kind once it is written, or an error.
CountedAs(kind, ok) == IF ok THEN {kind} ELSE {"errors"}

\* The kind of a row is that of the contact its number found at first, or
\* that an earlier row of the file made.
KindOf(q, p) ==
  IF q.mode # "create" /\ p \in DOMAIN q.known
  THEN IF q.mode = "skip" THEN "skipped" ELSE "updated"
  ELSE "created"

\* The next row with its savepoint, written or rolled back: an update finds
\* its contact gone, or the writer is busy.
ImportRow(c, busy) ==
  LET q == dirReq[c]
      next == Min(DOMAIN q.rows)
      p == q.rows[next].phone
      kind == KindOf(q, p)
      new == NextId(ContactIds)
      ok == ~busy /\ (kind = "updated" => q.known[p] \in ContactIds) IN
  /\ q.step = "import" /\ DOMAIN q.rows # {}
  /\ busy => kind # "skipped" /\ q.told["errors"] < MaxRowFaults
  /\ kind = "created" => new <= MaxContactId
  /\ contacts' = IF ok /\ kind = "created" THEN Put(contacts, new, p) ELSE contacts
  /\ dirReq' = [dirReq EXCEPT ![c] =
       [step |-> "import", mode |-> q.mode, asked |-> q.asked,
        rows |-> Restrict(q.rows, DOMAIN q.rows \ {next}),
        known |-> IF ok /\ kind = "created" /\ q.mode # "create" /\ p # NoPhone
                  THEN Put(q.known, p, new) ELSE q.known,
        told |-> [k \in Counts |->
                    q.told[k] + (IF k \in CountedAs(kind, ok) THEN 1 ELSE 0)],
        done |-> [q.done EXCEPT
          !["created"] = @ + Cardinality(DOMAIN contacts') - Cardinality(ContactIds),
          !["updated"] = @ + (IF ok /\ kind = "updated" THEN 1 ELSE 0)]]]
  /\ UNCHANGED <<groups, members>>

\* The answer is read, of an import after its last row and its audit row.
AnswerDirectory(c) ==
  LET q == dirReq[c] IN
  /\ \/ q.step = "answered" /\ dirReq' = [dirReq EXCEPT ![c] = NoRequest]
     \/ /\ q.step = "import" /\ DOMAIN q.rows = {}
        /\ dirReq' = [dirReq EXCEPT ![c] =
             [step |-> "answered", of |-> "import", asked |-> q.asked, reused |-> FALSE,
              told |-> q.told, done |-> q.done]]
  /\ UNCHANGED <<contacts, groups, members>>

\* A restart ends all requests; committed rows of an import stay.
DirectoryRestart ==
  /\ \E c \in DirClients : dirReq[c].step # "none"
  /\ dirReq' = [c \in DirClients |-> NoRequest]
  /\ UNCHANGED <<contacts, groups, members>>

DirectoryNext ==
  \/ \E p \in Phones \cup {NoPhone} : CreateContact(p)
  \/ \E i \in ContactIds, p \in Phones : UpdateContact(i, p)
  \/ \E i \in ContactIds : DeleteContact(i)
  \/ CreateGroup
  \/ \E g \in groups : DeleteGroup(g) \/ \E i \in ContactIds : RemoveMembers(g, {i})
  \/ \E c \in DirClients :
       \/ \E g \in groups, ids \in SUBSET (1..MaxContactId) \ {{}} : ReadForAdd(c, g, ids)
       \/ \E g \in groups, P \in SUBSET Phones \ {{}}, auto \in BOOLEAN :
            ReadForBulkAdd(c, g, P, auto)
       \/ CommitMembers(c)
       \/ \E f \in Files, mode \in {"skip", "update", "create"} : StartImport(c, f, mode)
       \/ \E busy \in BOOLEAN : ImportRow(c, busy)
       \/ AnswerDirectory(c)
  \/ DirectoryRestart

DirectorySpec == DirectoryInit /\ [][DirectoryNext]_directoryVars

-----------------------------------------------------------------------------
\* An answer tells what was done: as many contacts made, updated and added
\* to the group as it says, and every row and number asked for accounted
\* for once (the counts of import_contacts, add_members, bulk_add_by_phones),
\* whatever other requests did between its reads and its writes; but see
\* CommitMembers for an id that is given again.
AnswersTellTheEffect ==
  \A c \in DirClients : dirReq[c].step = "answered" =>
    LET told == dirReq[c].told
        done == dirReq[c].done
        asked == dirReq[c].asked
    IN /\ told["created"] = done["created"] /\ told["updated"] = done["updated"]
       /\ told["added"] = done["added"] \/ dirReq[c].reused
       /\ dirReq[c].of = "bulk" => asked = told["added"] + told["skipped"]
       /\ dirReq[c].of = "import" =>
            asked = told["created"] + told["updated"] + told["skipped"]
                      + told["errors"] + told["invalid"]
=============================================================================
