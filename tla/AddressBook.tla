---------------------------- MODULE AddressBook ----------------------------
(***************************************************************************)
(* Delivery addresses.  The default address is kept by transactions that   *)
(* lock the resident's row first (lockUser) and then read what they decide *)
(* on; editing an address takes no lock, and neither does the check that   *)
(* its community is available, which is a statement of an earlier one.     *)
(* A unique key admits one default per resident and undoes a transaction   *)
(* that would write a second.                                              *)
(*                                                                         *)
(*   Forms   the calls under way, of any resident                          *)
(*                                                                         *)
(* Placing an order also runs under the resident's lock and marks its      *)
(* address as used.  Times of use are abstracted to whether an address was *)
(* used, so the replacement of a default is one of the used, if any.       *)
(***************************************************************************)
EXTENDS Communities, FiniteSets

CONSTANTS Householders, Addresses, Forms, NoOne

ASSUME NoOneIsNobody == NoOne \notin Householders \cup Addresses

VARIABLES
  address,  \* rows of addresses
  form      \* where each call is, its resident, kind, address, what it has read

addressVars == <<address, form>>

AddressRows == [owner : Householders \cup {NoOne}, live : BOOLEAN, default : BOOLEAN,
                place : Communities \cup {NoOne}, used : BOOLEAN]
FreshAddress == [owner |-> NoOne, live |-> FALSE, default |-> FALSE,
                 place |-> NoOne, used |-> FALSE]

Kinds == {"create", "createDefault", "update", "setDefault", "remove"}
BlankForm == [at |-> "idle", owner |-> NoOne, kind |-> "create", target |-> NoOne,
          place |-> NoOne, read |-> {}]

AddressTypeOK ==
  /\ address \in [Addresses -> AddressRows]
  /\ form \in [Forms -> [at : {"idle", "lock", "read", "write", "edit"},
                         owner : Householders \cup {NoOne}, kind : Kinds,
                         target : Addresses \cup {NoOne},
                         place : Communities \cup {NoOne},
                         read : SUBSET Addresses]]

AddressInit ==
  /\ address = [a \in Addresses |-> FreshAddress]
  /\ form = [f \in Forms |-> BlankForm]

Live(h) == {a \in Addresses : address[a].owner = h /\ address[a].live}
Defaults(h) == {a \in Live(h) : address[a].default}

Turn(f, r) == form' = [form EXCEPT ![f] = r]

(***************************************************************************)
(* Before the transaction                                                  *)
(***************************************************************************)

\* create: the community is available; the address row is a new one.
RequestCreate(f) ==
  /\ form[f].at = "idle"
  /\ \E h \in Householders, c \in Communities, k \in {"create", "createDefault"},
        a \in Addresses :
       /\ Available(c)
       /\ address[a].owner = NoOne /\ \A g \in Forms : form[g].target # a
       /\ Turn(f, [BlankForm EXCEPT !.at = "lock", !.owner = h, !.kind = k,
                                !.target = a, !.place = c])
  /\ UNCHANGED address

\* update: the address is the resident's own and the community is available.
RequestUpdate(f) ==
  /\ form[f].at = "idle"
  /\ \E h \in Householders, c \in Communities : \E a \in Live(h) :
       /\ Available(c)
       /\ Turn(f, [BlankForm EXCEPT !.at = "edit", !.owner = h, !.kind = "update",
                                !.target = a, !.place = c])
  /\ UNCHANGED address

\* setDefault also asks for the community of the address as it is now.
RequestDefault(f) ==
  /\ form[f].at = "idle"
  /\ \E h \in Householders : \E a \in Live(h) :
       /\ Available(address[a].place)
       /\ Turn(f, [BlankForm EXCEPT !.at = "lock", !.owner = h, !.kind = "setDefault",
                                !.target = a])
  /\ UNCHANGED address

RequestRemove(f) ==
  /\ form[f].at = "idle"
  /\ \E h \in Householders, a \in Addresses :
       Turn(f, [BlankForm EXCEPT !.at = "lock", !.owner = h, !.kind = "remove",
                             !.target = a])
  /\ UNCHANGED address

(***************************************************************************)
(* The transactions                                                        *)
(***************************************************************************)
Locked(h) == \E f \in Forms : form[f].owner = h /\ form[f].at \in {"read", "write"}

MutantLockUser(f) ==
  /\ form[f].at = "lock"
  /\ Turn(f, [form[f] EXCEPT !.at = "read"])
  /\ UNCHANGED address

LockUser(f) ==
  /\ form[f].at = "lock"
  /\ ~Locked(form[f].owner)
  /\ Turn(f, [form[f] EXCEPT !.at = "read"])
  /\ UNCHANGED address

\* The first plain read fixes the snapshot: the resident's addresses.  A target that
\* is not among them ends the call.
ReadAddresses(f) ==
  LET r == form[f]
      live == Live(r.owner) IN
  /\ r.at = "read"
  /\ IF r.kind \in {"create", "createDefault"} \/ r.target \in live
     THEN Turn(f, [r EXCEPT !.at = "write", !.read = live])
     ELSE Turn(f, BlankForm)
  /\ UNCHANGED address

\* The key is unique: rows with two defaults of one resident are not committed.
Commit(f, rows) ==
  /\ address' = IF \E a, b \in Addresses :
                     /\ a # b /\ rows[a].owner = rows[b].owner
                     /\ rows[a].default /\ rows[b].default
                THEN address ELSE rows
  /\ Turn(f, BlankForm)

\* updateMany reads the current rows, not the snapshot.
WithoutDefault(h) ==
  [a \in Addresses |-> IF a \in Defaults(h) THEN [address[a] EXCEPT !.default = FALSE]
                                            ELSE address[a]]

Create(f) ==
  LET r == form[f]
      makeDefault == r.kind = "createDefault" \/ r.read = {} IN
  /\ r.at = "write" /\ r.kind \in {"create", "createDefault"}
  /\ Commit(f, [IF makeDefault THEN WithoutDefault(r.owner) ELSE address
                EXCEPT ![r.target] = [FreshAddress EXCEPT
                         !.owner = r.owner, !.live = TRUE, !.default = makeDefault,
                         !.place = r.place]])

SetDefault(f) ==
  LET r == form[f] IN
  /\ r.at = "write" /\ r.kind = "setDefault"
  /\ Commit(f, [WithoutDefault(r.owner) EXCEPT ![r.target].default = TRUE])

\* softDelete.  A default is followed by another address of the snapshot.
Replacements(rest) ==
  LET used == {a \in rest : address[a].used} IN IF used # {} THEN used ELSE rest

SoftDeleteAddress(f) ==
  LET r == form[f]
      rest == r.read \ {r.target}
      gone == [address EXCEPT ![r.target].live = FALSE, ![r.target].default = FALSE] IN
  /\ r.at = "write" /\ r.kind = "remove"
  /\ IF address[r.target].default /\ rest # {}
     THEN \E a \in Replacements(rest) : Commit(f, [gone EXCEPT ![a].default = TRUE])
     ELSE Commit(f, gone)

\* update, without the lock: one statement on the row if it is still there.
UpdateAddress(f) ==
  LET r == form[f] IN
  /\ r.at = "edit"
  /\ address' = IF r.target \in Live(r.owner)
                THEN [address EXCEPT ![r.target].place = r.place] ELSE address
  /\ Turn(f, BlankForm)

\* createAtomic of an order, which holds the same lock from its start to its end.
UseAddress(h) ==
  /\ ~Locked(h)
  /\ \E a \in Live(h) : ~address[a].used /\ address' = [address EXCEPT ![a].used = TRUE]
  /\ UNCHANGED form

\* A crash or a lost connection undoes what the call has done.
DropForm(f) == form[f].at # "idle" /\ Turn(f, BlankForm) /\ UNCHANGED address

AddressNext ==
  \/ CommunitiesNext /\ UNCHANGED addressVars
  \/ /\ \/ \E h \in Householders : UseAddress(h)
        \/ \E f \in Forms :
             \/ RequestCreate(f) \/ RequestUpdate(f) \/ RequestDefault(f)
             \/ RequestRemove(f) \/ LockUser(f) \/ ReadAddresses(f)
             \/ Create(f) \/ SetDefault(f) \/ SoftDeleteAddress(f)
             \/ UpdateAddress(f) \/ DropForm(f)
     /\ UNCHANGED community

AddressSpec == CommunitiesInit /\ AddressInit /\ [][AddressNext]_<<community, addressVars>>

----------------------------------------------------------------------------
\* A resident who has addresses has exactly one default among them, whatever calls
\* are under way (address.repository.ts create, setDefault, softDelete).
OneDefaultAddress ==
  \A h \in Householders : Live(h) # {} => Cardinality(Defaults(h)) = 1
----------------------------------------------------------------------------
\* What makes OneDefaultAddress inductive.  An address nobody owns has never been live,
\* and only what is live is a default.
RowsAreOwned ==
  \A a \in Addresses :
    /\ address[a].live => address[a].owner \in Householders
    /\ address[a].default => address[a].live

HasDefault == \A h \in Householders : Live(h) # {} => \E a \in Addresses : Defaults(h) = {a}

\* One call at a time has a resident's addresses, and those it has read are theirs still.
LocksAreHeld ==
  /\ \A f, g \in Forms :
       /\ form[f].at \in {"read", "write"} /\ form[g].at \in {"read", "write"}
       /\ form[f].owner = form[g].owner
       => f = g
  /\ \A f \in Forms : form[f].at = "write" => form[f].read = Live(form[f].owner)

\* A call names an address; that of a create is nobody's and no other create's.
FormsAreWhole ==
  /\ \A f \in Forms : form[f].at # "idle" =>
       form[f].owner \in Householders /\ form[f].target \in Addresses
  /\ \A f \in Forms :
       /\ form[f].at \in {"lock", "read", "write"}
       /\ form[f].kind \in {"create", "createDefault"}
       => /\ address[form[f].target].owner = NoOne
          /\ form[f].place \in Communities
          /\ \A g \in Forms :
               /\ form[g].at \in {"lock", "read", "write"}
               /\ form[g].kind \in {"create", "createDefault"}
               /\ form[g].target = form[f].target
               => f = g
  /\ \A f \in Forms : form[f].at = "edit" => form[f].place \in Communities
  /\ \A f \in Forms :
       form[f].at = "write" /\ form[f].kind \notin {"create", "createDefault"}
         => form[f].target \in form[f].read

AddressIInv == AddressTypeOK /\ RowsAreOwned /\ HasDefault /\ LocksAreHeld /\ FormsAreWhole
=============================================================================
