----------------------------- MODULE ShopProofs -----------------------------
(***************************************************************************)
(* Proofs about the parts of the server around the order: residents,       *)
(* addresses, the shelf, delivery times, carts, alerts and access tokens.  *)
(* They share no row but communities, which no invariant here mentions, so *)
(* each is proved of its own specification, next to any step of a          *)
(* community; the shelf, the delivery times and the cart are one (the      *)
(* store), because carts and pages read what the back office writes.       *)
(*                                                                         *)
(* For each part: the strengthened invariant holds initially, every action *)
(* keeps it, and the property the runs check follows from it.  A part with *)
(* calls under way has a lemma that says what a step of one call may do,   *)
(* and the actions are instances of it.                                    *)
(***************************************************************************)
EXTENDS MCShop, SumLemmas, TLAPS

-----------------------------------------------------------------------------
(* Residents *)

Arguments == Communities \cup Phones \cup {Nothing}
RequestRows == [at : RequestStates, who : Identities \cup {Nothing}, arg : Arguments,
                next : {"idle", "serve"}]

\* What RequestsAreWhole asks of one request.
Whole(r) == r.at # "idle" =>
              /\ r.who \in Identities
              /\ r.at = "select" => r.arg \in Communities
              /\ r.at \in {"owner", "bind"} => r.arg \in Phones

\* RequestsAreWhole, in the words of one request.
LEMMA WholeRequests == RequestsAreWhole <=> \A d \in Devices : Whole(request[d])
BY DEF RequestsAreWhole, Whole

\* At first nobody has an account and no request is under way.
LEMMA ResidentsStart == ResidentsInit => ResidentsIInv
<1> SUFFICES ASSUME ResidentsInit PROVE ResidentsIInv
  OBVIOUS
<1> USE DEF ResidentsInit, NoRequest, NoAccount
<1>1. ResidentsTypeOK
  BY DEF ResidentsTypeOK, Accounts, RequestStates
<1> QED
  BY <1>1, NothingIsNoValue DEF ResidentsIInv, RequestsAreWhole, PhoneHasOneOwner, Owners

\* Steps of one request that leave the phones alone.
LEMMA RequestMoves ==
  ASSUME ResidentsIInv, NEW d \in Devices, NEW r \in RequestRows, Whole(r), To(d, r),
         account' \in [Identities -> Accounts],
         \A i \in Identities : account'[i].phone = account[i].phone
  PROVE  ResidentsIInv'
<1>1. request \in [Devices -> RequestRows] /\ request' = [request EXCEPT ![d] = r]
  BY DEF ResidentsIInv, ResidentsTypeOK, RequestRows, Arguments, To
<1>2. /\ request' \in [Devices -> RequestRows]
      /\ \A e \in Devices : request'[e] = IF e = d THEN r ELSE request[e]
  BY <1>1
<1>3. ResidentsTypeOK'
  BY <1>2 DEF ResidentsTypeOK, RequestRows, Arguments
<1>4. RequestsAreWhole'
  BY <1>2, WholeRequests DEF ResidentsIInv, RequestsAreWhole, Whole
<1>5. PhoneHasOneOwner'
  BY DEF ResidentsIInv, PhoneHasOneOwner, Owners
<1> QED BY <1>3, <1>4, <1>5 DEF ResidentsIInv

\* No request is a request.
LEMMA NoRequestIsWhole == NoRequest \in RequestRows /\ Whole(NoRequest)
BY DEF NoRequest, RequestRows, RequestStates, Arguments, Whole

\* The answer to a resident is a whole request, whatever comes next.
LEMMA PresentedIsWhole ==
  ASSUME NEW i \in Identities, NEW c \in Communities \cup {Nothing},
         NEW next \in {"idle", "serve"}
  PROVE  Presented(i, c, next) \in RequestRows /\ Whole(Presented(i, c, next))
<1>1. CASE c # Nothing /\ ~Available(c)
  BY <1>1 DEF Presented, RequestRows, RequestStates, Arguments, Whole
<1>2. CASE ~(c # Nothing /\ ~Available(c)) /\ next = "idle"
  BY <1>2, NoRequestIsWhole DEF Presented
<1>3. CASE ~(c # Nothing /\ ~Available(c)) /\ next = "serve"
  BY <1>3 DEF Presented, NoRequest, RequestRows, RequestStates, Arguments, Whole
<1> QED BY <1>1, <1>2, <1>3

\* The owner is looked for again by the unique key when the phone is written.
LEMMA BindPhoneKeeps ==
  ASSUME ResidentsIInv, NEW d \in Devices, BindPhone(d) PROVE ResidentsIInv'
<1> DEFINE r == request[d]
           i == r.who
<1>1. /\ account \in [Identities -> Accounts] /\ request \in [Devices -> RequestRows]
      /\ i \in Identities /\ r.arg \in Phones
  BY DEF BindPhone, ResidentsIInv, ResidentsTypeOK, RequestsAreWhole, RequestRows, Arguments
<1>2. CASE ~(Owners(r.arg) \subseteq {i})
  <2>1. To(d, NoRequest) /\ UNCHANGED account
    BY <1>2 DEF BindPhone, Finish
  <2> QED BY <1>1, <2>1, NoRequestIsWhole, RequestMoves
<1>3. CASE Owners(r.arg) \subseteq {i}
  <2> DEFINE s == Presented(i, account[i].current, "idle")
  <2>1. account' = [account EXCEPT ![i].phone = r.arg] /\ To(d, s)
    BY <1>3 DEF BindPhone
  <2>2. s \in RequestRows /\ Whole(s)
    BY <1>1, PresentedIsWhole DEF Accounts
  <2> HIDE DEF s
  <2>3. /\ request' \in [Devices -> RequestRows]
        /\ \A e \in Devices : request'[e] = IF e = d THEN s ELSE request[e]
    BY <1>1, <2>1, <2>2 DEF To
  <2>4. /\ account'[i] \in Accounts /\ account'[i].phone = r.arg
        /\ \A j \in Identities \ {i} : account'[j] = account[j]
    BY <1>1, <2>1 DEF Accounts
  <2>5. ResidentsTypeOK'
    <3>1. account' \in [Identities -> Accounts]
      BY <1>1, <2>1, <2>4
    <3> QED BY <2>3, <3>1 DEF ResidentsTypeOK, RequestRows, Arguments
  <2>6. RequestsAreWhole'
    BY <2>2, <2>3, WholeRequests DEF ResidentsIInv, RequestsAreWhole, Whole
  <2>7. PhoneHasOneOwner'
    BY <1>1, <1>3, <2>4 DEF ResidentsIInv, PhoneHasOneOwner, Owners
  <2> QED BY <2>5, <2>6, <2>7 DEF ResidentsIInv
<1> QED BY <1>2, <1>3

\* Every step keeps the residents' invariant.
LEMMA ResidentsKeep ==
  ASSUME ResidentsIInv, [ResidentsNext]_<<community, residentVars>> PROVE ResidentsIInv'
<1>1. account \in [Identities -> Accounts] /\ request \in [Devices -> RequestRows]
  BY DEF ResidentsIInv, ResidentsTypeOK, RequestRows, Arguments
<1>2. \A i \in Identities : account[i].current \in Communities \cup {Nothing}
  BY <1>1 DEF Accounts
<1>3. \A d \in Devices : Whole(request[d])
  BY WholeRequests DEF ResidentsIInv
<1>4. CASE UNCHANGED residentVars
  BY <1>4 DEF residentVars, ResidentsIInv, ResidentsTypeOK, RequestsAreWhole,
     PhoneHasOneOwner, Owners
<1>5. ASSUME NEW i \in Identities, DisableAccount(i) PROVE ResidentsIInv'
  <2>1. /\ account' = [account EXCEPT ![i].status = "DISABLED"] /\ UNCHANGED request
    BY <1>5 DEF DisableAccount
  <2>2. /\ account' \in [Identities -> Accounts]
        /\ \A j \in Identities : account'[j].phone = account[j].phone
    BY <1>1, <2>1 DEF Accounts
  <2> QED
    BY <2>1, <2>2 DEF ResidentsIInv, ResidentsTypeOK, RequestsAreWhole, PhoneHasOneOwner, Owners
<1>6. ASSUME NEW d \in Devices, ExchangeCode(d) PROVE ResidentsIInv'
  <2>1. PICK i \in Identities : To(d, [NoRequest EXCEPT !.at = "upsert", !.who = i])
    BY <1>6 DEF ExchangeCode
  <2> DEFINE r == [NoRequest EXCEPT !.at = "upsert", !.who = i]
  <2>2. r \in RequestRows /\ Whole(r)
    BY DEF NoRequest, RequestRows, RequestStates, Arguments, Whole
  <2>3. To(d, r) /\ UNCHANGED account
    BY <1>6, <2>1 DEF ExchangeCode
  <2> HIDE DEF r
  <2> QED BY <1>1, <2>2, <2>3, RequestMoves
<1>7. ASSUME NEW d \in Devices, FindByIdentity(d) PROVE ResidentsIInv'
  <2> DEFINE create == [request[d] EXCEPT !.at = "create"]
             greet == [request[d] EXCEPT !.at = "greet"]
  <2>1. /\ request[d] \in RequestRows /\ request[d].who \in Identities /\ UNCHANGED account
    BY <1>1, <1>3, <1>7 DEF FindByIdentity, Whole
  <2>2. create \in RequestRows /\ Whole(create)
    BY <2>1 DEF RequestRows, RequestStates, Whole
  <2>3. greet \in RequestRows /\ Whole(greet)
    BY <2>1 DEF RequestRows, RequestStates, Whole
  <2>4. To(d, NoRequest) \/ To(d, create) \/ To(d, greet)
    BY <1>7 DEF FindByIdentity, Finish
  <2> HIDE DEF create, greet
  <2> QED BY <1>1, <2>1, <2>2, <2>3, <2>4, NoRequestIsWhole, RequestMoves
<1>8. ASSUME NEW d \in Devices, CreateAccount(d) PROVE ResidentsIInv'
  <2> DEFINE i == request[d].who
             r == [request[d] EXCEPT !.at = "greet"]
  <2>1. request[d] \in RequestRows /\ i \in Identities
    BY <1>1, <1>3, <1>8 DEF CreateAccount, Whole
  <2>2. r \in RequestRows /\ Whole(r)
    BY <2>1 DEF RequestRows, RequestStates, Whole
  <2>3. \/ To(d, NoRequest) /\ UNCHANGED account
        \/ To(d, r) /\ account' = [account EXCEPT ![i].status = "ACTIVE"]
    BY <1>8 DEF CreateAccount, Finish
  <2> HIDE DEF r
  <2>4. /\ account' \in [Identities -> Accounts]
        /\ \A j \in Identities : account'[j].phone = account[j].phone
    BY <1>1, <2>1, <2>3 DEF Accounts
  <2> QED BY <2>2, <2>3, <2>4, NoRequestIsWhole, RequestMoves
<1>9. ASSUME NEW d \in Devices, RecordSuccess(d) \/ UpdateProfile(d) PROVE ResidentsIInv'
  <2> DEFINE i == request[d].who
             r == Presented(i, account[i].current, "idle")
  <2>1. i \in Identities
    BY <1>3, <1>9 DEF RecordSuccess, UpdateProfile, Whole
  <2>2. r \in RequestRows /\ Whole(r)
    BY <1>2, <2>1, PresentedIsWhole
  <2>3. To(d, r) /\ UNCHANGED account
    BY <1>9 DEF RecordSuccess, UpdateProfile
  <2> HIDE DEF r
  <2> QED BY <1>1, <2>2, <2>3, RequestMoves
<1>10. ASSUME NEW d \in Devices, Authenticate(d) PROVE ResidentsIInv'
  <2>1. PICK i \in Identities : To(d, Presented(i, account[i].current, "serve"))
    BY <1>10 DEF Authenticate
  <2> DEFINE r == Presented(i, account[i].current, "serve")
  <2>2. r \in RequestRows /\ Whole(r)
    BY <1>2, PresentedIsWhole
  <2>3. To(d, r) /\ UNCHANGED account
    BY <1>10, <2>1 DEF Authenticate
  <2> HIDE DEF r
  <2> QED BY <1>1, <2>2, <2>3, RequestMoves
<1>11. ASSUME NEW d \in Devices, ClearCurrentCommunity(d) PROVE ResidentsIInv'
  <2> DEFINE i == request[d].who
             next == request[d].next
             r == IF next = "idle" THEN NoRequest
                  ELSE [NoRequest EXCEPT !.at = next, !.who = i]
  <2>1. i \in Identities /\ next \in {"idle", "serve"}
    BY <1>1, <1>3, <1>11 DEF ClearCurrentCommunity, Whole, RequestRows
  <2>2. r \in RequestRows /\ Whole(r)
    BY <2>1 DEF NoRequest, RequestRows, RequestStates, Arguments, Whole
  <2>3. To(d, r) /\ account' = [account EXCEPT ![i].current = Nothing]
    BY <1>11 DEF ClearCurrentCommunity
  <2> HIDE DEF r
  <2>4. /\ account' \in [Identities -> Accounts]
        /\ \A j \in Identities : account'[j].phone = account[j].phone
    BY <1>1, <2>1, <2>3 DEF Accounts
  <2> QED BY <2>2, <2>3, <2>4, RequestMoves
<1>12. ASSUME NEW d \in Devices, FindCommunity(d) PROVE ResidentsIInv'
  <2>1. PICK c \in Communities : To(d, [request[d] EXCEPT !.at = "select", !.arg = c])
    BY <1>12 DEF FindCommunity
  <2> DEFINE r == [request[d] EXCEPT !.at = "select", !.arg = c]
  <2>2. request[d] \in RequestRows /\ request[d].who \in Identities /\ c \in Arguments
    BY <1>1, <1>3, <1>12 DEF FindCommunity, Whole, Arguments
  <2>3. r \in RequestRows /\ Whole(r)
    BY <2>2 DEF RequestRows, RequestStates, Whole
  <2>4. To(d, r) /\ UNCHANGED account
    BY <1>12, <2>1 DEF FindCommunity
  <2> HIDE DEF r
  <2> QED BY <1>1, <2>3, <2>4, RequestMoves
<1>13. ASSUME NEW d \in Devices, UpdateCurrentCommunity(d) PROVE ResidentsIInv'
  <2> DEFINE i == request[d].who
             c == request[d].arg
             r == Presented(i, c, "idle")
  <2>1. i \in Identities /\ c \in Communities
    BY <1>3, <1>13 DEF UpdateCurrentCommunity, Whole
  <2>2. r \in RequestRows /\ Whole(r)
    BY <2>1, PresentedIsWhole
  <2>3. To(d, r) /\ account' = [account EXCEPT ![i].current = c]
    BY <1>13 DEF UpdateCurrentCommunity
  <2> HIDE DEF r
  <2>4. /\ account' \in [Identities -> Accounts]
        /\ \A j \in Identities : account'[j].phone = account[j].phone
    BY <1>1, <2>1, <2>3 DEF Accounts
  <2> QED BY <2>2, <2>3, <2>4, RequestMoves
<1>14. ASSUME NEW d \in Devices, ExchangePhoneCode(d) PROVE ResidentsIInv'
  <2>1. PICK p \in Phones : To(d, [request[d] EXCEPT !.at = "owner", !.arg = p])
    BY <1>14 DEF ExchangePhoneCode
  <2> DEFINE r == [request[d] EXCEPT !.at = "owner", !.arg = p]
  <2>2. request[d] \in RequestRows /\ request[d].who \in Identities /\ p \in Arguments
    BY <1>1, <1>3, <1>14 DEF ExchangePhoneCode, Whole, Arguments
  <2>3. r \in RequestRows /\ Whole(r)
    BY <2>2 DEF RequestRows, RequestStates, Whole
  <2>4. To(d, r) /\ UNCHANGED account
    BY <1>14, <2>1 DEF ExchangePhoneCode
  <2> HIDE DEF r
  <2> QED BY <1>1, <2>3, <2>4, RequestMoves
<1>15. ASSUME NEW d \in Devices, FindByPhone(d) PROVE ResidentsIInv'
  <2> DEFINE r == [request[d] EXCEPT !.at = "bind"]
  <2>1. /\ request[d] \in RequestRows /\ request[d].who \in Identities
        /\ request[d].arg \in Phones
    BY <1>1, <1>3, <1>15 DEF FindByPhone, Whole
  <2>2. r \in RequestRows /\ Whole(r)
    BY <2>1 DEF RequestRows, RequestStates, Whole
  <2>3. (To(d, NoRequest) \/ To(d, r)) /\ UNCHANGED account
    BY <1>15 DEF FindByPhone, Finish
  <2> HIDE DEF r
  <2> QED BY <1>1, <2>2, <2>3, NoRequestIsWhole, RequestMoves
<1>16. ASSUME NEW d \in Devices, LeaveRequest(d) PROVE ResidentsIInv'
  BY <1>1, <1>16, NoRequestIsWhole, RequestMoves DEF LeaveRequest, Finish
<1> QED
  BY <1>4, <1>5, <1>6, <1>7, <1>8, <1>9, <1>10, <1>11, <1>12, <1>13, <1>14, <1>15, <1>16,
     BindPhoneKeeps DEF ResidentsNext

\* Residents are always in order.
LEMMA ResidentsInvariance == ResidentsSpec => []ResidentsIInv
<1>1. ResidentsIInv /\ [ResidentsNext]_<<community, residentVars>> => ResidentsIInv'
  BY ResidentsKeep
<1> QED BY <1>1, ResidentsStart, PTL DEF ResidentsSpec

\* Two residents who bind one phone at the same time do not both get it
\* (user-phone.service.ts, bind).
THEOREM PhonesAreOwnedOnce == ResidentsSpec => []PhoneHasOneOwner
<1>1. ResidentsIInv => PhoneHasOneOwner
  BY DEF ResidentsIInv
<1> QED BY <1>1, ResidentsInvariance, PTL

-----------------------------------------------------------------------------
(* Addresses *)

FormRows == [at : {"idle", "lock", "read", "write", "edit"},
             owner : Householders \cup {NoOne}, kind : Kinds,
             target : Addresses \cup {NoOne}, place : Communities \cup {NoOne},
             read : SUBSET Addresses]

Creates(r) == r.at \in {"lock", "read", "write"} /\ r.kind \in {"create", "createDefault"}
Holds(r) == r.at \in {"read", "write"}

\* What LocksAreHeld and FormsAreWhole ask of call f, were it to stand at r.
Sound(f, r) ==
  /\ r.at # "idle" => r.owner \in Householders /\ r.target \in Addresses
  /\ Creates(r) => /\ address[r.target].owner = NoOne /\ r.place \in Communities
                   /\ \A g \in Forms \ {f} : Creates(form[g]) => form[g].target # r.target
  /\ r.at = "edit" => r.place \in Communities
  /\ r.at = "write" => /\ r.read = Live(r.owner)
                       /\ r.kind \notin {"create", "createDefault"} => r.target \in r.read
  /\ Holds(r) => \A g \in Forms \ {f} : Holds(form[g]) => form[g].owner # r.owner

\* The locks and the forms, in the words of one form.
LEMMA SoundForms ==
  /\ LocksAreHeld /\ FormsAreWhole <=> \A f \in Forms : Sound(f, form[f])
  /\ (LocksAreHeld /\ FormsAreWhole)' <=> (\A f \in Forms : Sound(f, form[f]))'
BY DEF LocksAreHeld, FormsAreWhole, Sound, Creates, Holds

\* At first there is no address.
LEMMA AddressesStart == AddressInit => AddressIInv
<1> SUFFICES ASSUME AddressInit PROVE AddressIInv
  OBVIOUS
<1> USE DEF AddressInit, FreshAddress, BlankForm
<1>1. AddressTypeOK
  BY DEF AddressTypeOK, AddressRows, Kinds
<1>2. RowsAreOwned /\ HasDefault
  BY DEF RowsAreOwned, HasDefault, Live
<1>3. LocksAreHeld /\ FormsAreWhole
  BY DEF LocksAreHeld, FormsAreWhole
<1> QED BY <1>1, <1>2, <1>3 DEF AddressIInv

\* A blank form is sound.
LEMMA BlankIsSound ==
  ASSUME NEW f \in Forms PROVE BlankForm \in FormRows /\ Sound(f, BlankForm)
BY DEF BlankForm, FormRows, Kinds, Sound, Creates, Holds

\* Steps of one call that leave the addresses alone.
LEMMA FormMoves ==
  ASSUME AddressIInv, NEW f \in Forms, NEW r \in FormRows, Sound(f, r), Turn(f, r),
         UNCHANGED address
  PROVE  AddressIInv'
<1>1. form \in [Forms -> FormRows] /\ form' = [form EXCEPT ![f] = r]
  BY DEF AddressIInv, AddressTypeOK, FormRows, Turn
<1>2. /\ form' \in [Forms -> FormRows]
      /\ \A g \in Forms : form'[g] = IF g = f THEN r ELSE form[g]
  BY <1>1
<1>3. AddressTypeOK' /\ RowsAreOwned' /\ HasDefault'
  BY <1>2 DEF AddressIInv, AddressTypeOK, FormRows, RowsAreOwned, HasDefault, Live, Defaults
<1>4. ASSUME NEW g \in Forms PROVE Sound(g, form[g])'
  <2>1. Sound(g, form[g])
    BY SoundForms DEF AddressIInv
  <2>2. CASE g = f
    BY <1>2, <2>2 DEF Sound, Live
  <2>3. CASE g # f
    BY <1>2, <2>1, <2>3 DEF Sound, Live
  <2> QED BY <2>2, <2>3
<1> QED BY <1>3, <1>4, SoundForms DEF AddressIInv

\* The end of a call that has written addresses.
LEMMA FormEnds ==
  ASSUME AddressIInv, NEW f \in Forms, Turn(f, BlankForm),
         address' \in [Addresses -> AddressRows], RowsAreOwned', HasDefault',
         \A g \in Forms \ {f} :
           /\ form[g].at = "write"
                => \A o \in Householders : form[g].owner = o => Live(o)' = Live(o)
           /\ Creates(form[g]) => address'[form[g].target].owner = NoOne
  PROVE  AddressIInv'
<1>1. form \in [Forms -> FormRows] /\ form' = [form EXCEPT ![f] = BlankForm]
  BY DEF AddressIInv, AddressTypeOK, FormRows, Turn
<1>2. /\ form' \in [Forms -> FormRows]
      /\ \A g \in Forms : form'[g] = IF g = f THEN BlankForm ELSE form[g]
  BY <1>1, BlankIsSound
<1>3. AddressTypeOK'
  BY <1>2 DEF AddressTypeOK, FormRows
<1>4. ASSUME NEW g \in Forms PROVE Sound(g, form[g])'
  <2>1. Sound(g, form[g])
    BY SoundForms DEF AddressIInv
  <2>2. CASE g = f
    BY <1>2, <2>2 DEF Sound, BlankForm, Creates, Holds
  <2>3. CASE g # f
    <3>1. form'[g] = form[g]
      BY <1>2, <2>3
    <3>2. form[g].at = "write" => Live(form[g].owner)' = Live(form[g].owner)
      <4>1. SUFFICES ASSUME form[g].at = "write", NEW o \in Householders, form[g].owner = o
                     PROVE  Live(o)' = Live(o)
        BY <2>1, <3>1 DEF Sound, Live
      <4> QED BY <2>3, <4>1
    <3>3. \A e \in Forms : Creates(form'[e]) => Creates(form[e]) /\ form'[e].target = form[e].target
      BY <1>2 DEF BlankForm, Creates
    <3>4. \A e \in Forms : Holds(form'[e]) => Holds(form[e]) /\ form'[e].owner = form[e].owner
      BY <1>2 DEF BlankForm, Holds
    <3>5. Creates(form[g]) => address'[form[g].target].owner = NoOne
      BY <2>3
    <3> QED BY <2>1, <3>1, <3>2, <3>3, <3>4, <3>5 DEF Sound
  <2> QED BY <2>2, <2>3
<1> QED BY <1>3, <1>4, SoundForms DEF AddressIInv

\* What a transaction of resident h may write: addresses of h only, among them a default if
\* there are any.  The key refuses what would leave two.
LEMMA CommitKeeps ==
  ASSUME AddressIInv, NEW f \in Forms, form[f].at = "write",
         NEW h, h = form[f].owner,
         NEW rows \in [Addresses -> AddressRows],
         \A a \in Addresses : \/ rows[a].owner = address[a].owner
                              \/ /\ a = form[f].target /\ Creates(form[f])
                                 /\ rows[a].owner = h,
         \A a \in Addresses : rows[a].owner # h => /\ rows[a].live = address[a].live
                                                   /\ rows[a].default = address[a].default,
         \A a \in Addresses : rows[a].owner = h /\ rows[a].default => rows[a].live,
         (\E a \in Addresses : rows[a].owner = h /\ rows[a].live)
           => \E a \in Addresses : rows[a].owner = h /\ rows[a].live /\ rows[a].default,
         Commit(f, rows)
  PROVE  AddressIInv'
<1>1. h \in Householders /\ Sound(f, form[f])
  BY SoundForms DEF AddressIInv, Sound
<1>2. CASE address' = address
  BY <1>2, BlankIsSound, FormMoves DEF Commit
<1>3. CASE address' # address
  <2>1. /\ address' = rows /\ Turn(f, BlankForm)
        /\ \A a, b \in Addresses :
             rows[a].owner = rows[b].owner /\ rows[a].default /\ rows[b].default => a = b
    BY <1>3 DEF Commit
  <2>2. RowsAreOwned'
    BY <1>1, <2>1 DEF AddressIInv, RowsAreOwned
  <2>3. \A o \in Householders \ {h} : Live(o)' = Live(o) /\ Defaults(o)' = Defaults(o)
    BY <1>1, <2>1, NoOneIsNobody DEF Sound, Live, Defaults
  <2>4. ASSUME NEW o \in Householders, Live(o)' # {}
        PROVE  \E a \in Addresses : Defaults(o)' = {a}
    <3>1. CASE o # h
      BY <2>3, <2>4, <3>1 DEF AddressIInv, HasDefault
    <3>2. CASE o = h
      <4>1. PICK a \in Addresses : rows[a].owner = h /\ rows[a].live /\ rows[a].default
        BY <2>1, <2>4, <3>2 DEF Live
      <4>2. Defaults(o)' = {a}
        BY <2>1, <3>2, <4>1 DEF Live, Defaults
      <4> QED BY <4>2
    <3> QED BY <3>1, <3>2
  <2>5. HasDefault'
    BY <2>4 DEF HasDefault
  <2>6. ASSUME NEW g \in Forms, g # f, form[g].at = "write",
               NEW o \in Householders, form[g].owner = o
        PROVE  Live(o)' = Live(o)
    BY <1>1, <2>3, <2>6 DEF Sound, Holds
  <2>7. ASSUME NEW g \in Forms, g # f, Creates(form[g])
        PROVE  address'[form[g].target].owner = NoOne
    <3>1. Sound(g, form[g])
      BY SoundForms DEF AddressIInv
    <3>2. /\ form[g].target \in Addresses /\ address[form[g].target].owner = NoOne
          /\ Creates(form[f]) => form[f].target # form[g].target
      BY <2>7, <3>1 DEF Sound, Creates
    <3> QED BY <2>1, <3>2
  <2>8. address' \in [Addresses -> AddressRows]
    BY <2>1
  <2> QED BY <2>1, <2>2, <2>5, <2>6, <2>7, <2>8, FormEnds
<1> QED BY <1>2, <1>3

\* Clearing the defaults of a resident touches nothing else.
LEMMA DefaultsCleared ==
  ASSUME AddressTypeOK, NEW h \in Householders
  PROVE  /\ WithoutDefault(h) \in [Addresses -> AddressRows]
         /\ \A a \in Addresses :
              /\ WithoutDefault(h)[a].owner = address[a].owner
              /\ WithoutDefault(h)[a].live = address[a].live
              /\ a \notin Defaults(h) => WithoutDefault(h)[a] = address[a]
              /\ a \in Defaults(h) => ~WithoutDefault(h)[a].default
<1>1. \A a \in Addresses : address[a] \in AddressRows
  BY DEF AddressTypeOK
<1>2. \A a \in Addresses : [address[a] EXCEPT !.default = FALSE] \in AddressRows
  BY <1>1 DEF AddressRows
<1> QED BY <1>1, <1>2 DEF WithoutDefault, AddressRows

\* Creating an address, as the default one or not, keeps the invariant.
LEMMA CreateKeeps ==
  ASSUME AddressIInv, NEW f \in Forms, Create(f) PROVE AddressIInv'
<1> DEFINE r == form[f]
           h == r.owner
           t == r.target
           make == r.kind = "createDefault" \/ r.read = {}
           base == IF make THEN WithoutDefault(h) ELSE address
           row == [FreshAddress EXCEPT !.owner = h, !.live = TRUE, !.default = make,
                                       !.place = r.place]
           rows == [base EXCEPT ![t] = row]
<1>1. /\ Sound(f, r) /\ r.at = "write" /\ Creates(r)
      /\ r.kind \in {"create", "createDefault"} /\ Commit(f, rows)
  BY SoundForms DEF AddressIInv, Create, Creates
<1>2. /\ h \in Householders /\ t \in Addresses /\ r.place \in Communities
      /\ address[t].owner = NoOne /\ r.read = Live(h)
  BY <1>1 DEF Sound
<1>3. make \in BOOLEAN
  OBVIOUS
<1>4. row \in AddressRows /\ row.owner = h /\ row.live /\ row.default = make
  BY <1>2, <1>3 DEF FreshAddress, AddressRows
<1>5. /\ base \in [Addresses -> AddressRows]
      /\ \A a \in Addresses : /\ base[a].owner = address[a].owner
                              /\ base[a].live = address[a].live
                              /\ base[a].owner # h => base[a] = address[a]
                              /\ ~make => base[a] = address[a]
  BY <1>2, DefaultsCleared DEF AddressIInv, AddressTypeOK, Defaults, Live
<1>6. /\ address \in [Addresses -> AddressRows]
      /\ \A a \in Addresses : address[a].default => address[a].live
  BY DEF AddressIInv, AddressTypeOK, RowsAreOwned
<1> HIDE DEF row, base
<1>7. /\ rows \in [Addresses -> AddressRows]
      /\ \A a \in Addresses : rows[a] = IF a = t THEN row ELSE base[a]
  BY <1>4, <1>5
<1>8. \A a \in Addresses : base[a].default => address[a].default
  BY <1>2, <1>5, DefaultsCleared DEF AddressIInv, Defaults, Live, base
<1>9. (\E a \in Addresses : rows[a].owner = h /\ rows[a].live)
        => \E a \in Addresses : rows[a].owner = h /\ rows[a].live /\ rows[a].default
  <2>1. CASE make
    BY <1>2, <1>4, <1>7, <2>1
  <2>2. CASE ~make
    <3>1. PICK a \in Addresses : Defaults(h) = {a}
      BY <1>2, <2>2 DEF AddressIInv, HasDefault
    <3>2. a # t /\ rows[a].owner = h /\ rows[a].live /\ rows[a].default
      BY <1>2, <1>5, <1>7, <2>2, <3>1, NoOneIsNobody DEF Defaults, Live
    <3> QED BY <3>2
  <2> QED BY <2>1, <2>2
<1>10. \A a \in Addresses : \/ rows[a].owner = address[a].owner
                            \/ a = t /\ Creates(r) /\ rows[a].owner = h
  BY <1>1, <1>4, <1>5, <1>7
<1>11. \A a \in Addresses : rows[a].owner # h => /\ rows[a].live = address[a].live
                                                 /\ rows[a].default = address[a].default
  BY <1>4, <1>5, <1>7
<1>12. \A a \in Addresses : rows[a].owner = h /\ rows[a].default => rows[a].live
  BY <1>4, <1>5, <1>6, <1>7, <1>8
<1> HIDE DEF rows
<1> QED BY <1>1, <1>7, <1>9, <1>10, <1>11, <1>12, CommitKeeps

\* Choosing another default keeps the invariant.
LEMMA SetDefaultKeeps ==
  ASSUME AddressIInv, NEW f \in Forms, SetDefault(f) PROVE AddressIInv'
<1> DEFINE h == form[f].owner
           t == form[f].target
           base == WithoutDefault(h)
           rows == [base EXCEPT ![t].default = TRUE]
<1>1. /\ Sound(f, form[f]) /\ form[f].at = "write" /\ form[f].kind = "setDefault"
      /\ Commit(f, rows)
  BY SoundForms DEF AddressIInv, SetDefault
<1>2. h \in Householders /\ t \in Live(h)
  BY <1>1 DEF Sound
<1>3. /\ base \in [Addresses -> AddressRows]
      /\ \A a \in Addresses : /\ base[a].owner = address[a].owner
                              /\ base[a].live = address[a].live
                              /\ base[a].owner # h => base[a] = address[a]
                              /\ base[a].default => address[a].default
  BY <1>2, DefaultsCleared DEF AddressIInv, Defaults, Live
<1>4. /\ address \in [Addresses -> AddressRows]
      /\ \A a \in Addresses : address[a].default => address[a].live
  BY DEF AddressIInv, AddressTypeOK, RowsAreOwned
<1> HIDE DEF base
<1>5. /\ rows \in [Addresses -> AddressRows]
      /\ rows[t].owner = base[t].owner /\ rows[t].live = base[t].live /\ rows[t].default
      /\ \A a \in Addresses \ {t} : rows[a] = base[a]
  <2>1. t \in Addresses /\ base[t] \in AddressRows
    BY <1>2, <1>3 DEF Live
  <2>2. /\ rows[t] \in AddressRows
        /\ rows[t].owner = base[t].owner /\ rows[t].live = base[t].live /\ rows[t].default
    BY <1>3, <2>1 DEF AddressRows
  <2> QED BY <1>3, <2>1, <2>2
<1>6. \A a \in Addresses : rows[a].owner = address[a].owner
  BY <1>3, <1>5
<1>7. \A a \in Addresses : rows[a].owner # h => /\ rows[a].live = address[a].live
                                                /\ rows[a].default = address[a].default
  BY <1>2, <1>3, <1>5 DEF Live
<1>8. \A a \in Addresses : rows[a].owner = h /\ rows[a].default => rows[a].live
  BY <1>2, <1>3, <1>4, <1>5 DEF Live
<1>9. rows[t].owner = h /\ rows[t].live /\ rows[t].default /\ t \in Addresses
  BY <1>2, <1>3, <1>5 DEF Live
<1> HIDE DEF rows
<1> QED BY <1>1, <1>5, <1>6, <1>7, <1>8, <1>9, CommitKeeps

\* Deleting an address, and with the default naming another, keeps it too.
LEMMA SoftDeleteKeeps ==
  ASSUME AddressIInv, NEW f \in Forms, SoftDeleteAddress(f) PROVE AddressIInv'
<1> DEFINE h == form[f].owner
           t == form[f].target
           rest == form[f].read \ {t}
           gone == [address EXCEPT ![t].live = FALSE, ![t].default = FALSE]
<1>1. /\ Sound(f, form[f]) /\ form[f].at = "write" /\ form[f].kind = "remove"
  BY SoundForms DEF AddressIInv, SoftDeleteAddress
<1>2. h \in Householders /\ t \in Live(h) /\ form[f].read = Live(h)
  BY <1>1 DEF Sound
<1>3. /\ address \in [Addresses -> AddressRows]
      /\ \A a \in Addresses : address[a].default => address[a].live
  BY DEF AddressIInv, AddressTypeOK, RowsAreOwned
<1>4. /\ gone \in [Addresses -> AddressRows]
      /\ gone[t].owner = h /\ ~gone[t].live /\ ~gone[t].default
      /\ \A a \in Addresses \ {t} : gone[a] = address[a]
  <2>1. t \in Addresses /\ address[t] \in AddressRows /\ address[t].owner = h
    BY <1>2, <1>3 DEF Live
  <2>2. gone[t] \in AddressRows /\ gone[t].owner = h /\ ~gone[t].live /\ ~gone[t].default
    BY <1>3, <2>1 DEF AddressRows
  <2> QED BY <1>3, <2>1, <2>2
<1>5. PICK d \in Addresses : Defaults(h) = {d}
  BY <1>2 DEF AddressIInv, HasDefault
<1>6. CASE address[t].default /\ rest # {}
  <2>1. PICK a \in Replacements(rest) : Commit(f, [gone EXCEPT ![a].default = TRUE])
    BY <1>6 DEF SoftDeleteAddress
  <2>2. a \in Live(h) /\ a # t
    BY <1>2 DEF Replacements
  <2> DEFINE rows == [gone EXCEPT ![a].default = TRUE]
  <2> HIDE DEF gone
  <2>3. /\ rows \in [Addresses -> AddressRows]
        /\ rows[a].owner = h /\ rows[a].live /\ rows[a].default
        /\ \A b \in Addresses \ {a} : rows[b] = gone[b]
    <3>1. a \in Addresses /\ gone[a] \in AddressRows /\ gone[a].owner = h /\ gone[a].live
      BY <1>3, <1>4, <2>2 DEF Live
    <3>2. rows[a] \in AddressRows /\ rows[a].owner = h /\ rows[a].live /\ rows[a].default
      BY <1>4, <3>1 DEF AddressRows
    <3> QED BY <1>4, <3>1, <3>2
  <2>4. \A b \in Addresses : rows[b].owner = address[b].owner
    BY <1>2, <1>4, <2>2, <2>3 DEF Live
  <2>5. \A b \in Addresses : rows[b].owner # h => /\ rows[b].live = address[b].live
                                                  /\ rows[b].default = address[b].default
    BY <1>4, <2>3
  <2>6. \A b \in Addresses : rows[b].owner = h /\ rows[b].default => rows[b].live
    BY <1>3, <1>4, <2>3
  <2>7. a \in Addresses /\ Commit(f, rows)
    BY <2>1, <2>2 DEF Live
  <2> HIDE DEF rows
  <2> QED BY <1>1, <2>3, <2>4, <2>5, <2>6, <2>7, CommitKeeps
<1>7. CASE ~(address[t].default /\ rest # {})
  <2>1. Commit(f, gone)
    BY <1>7 DEF SoftDeleteAddress
  <2> HIDE DEF gone
  <2>2. \A b \in Addresses : gone[b].owner = address[b].owner
    BY <1>2, <1>4 DEF Live
  <2>3. \A b \in Addresses : gone[b].owner # h => /\ gone[b].live = address[b].live
                                                  /\ gone[b].default = address[b].default
    BY <1>4
  <2>4. \A b \in Addresses : gone[b].owner = h /\ gone[b].default => gone[b].live
    BY <1>3, <1>4
  <2>5. (\E b \in Addresses : gone[b].owner = h /\ gone[b].live)
          => \E b \in Addresses : gone[b].owner = h /\ gone[b].live /\ gone[b].default
    <3>1. CASE rest = {}
      BY <1>2, <1>4, <2>2, <3>1 DEF Live
    <3>2. CASE ~address[t].default
      BY <1>4, <1>5, <3>2 DEF Defaults, Live
    <3> QED BY <1>7, <3>1, <3>2
  <2> QED BY <1>1, <1>4, <2>1, <2>2, <2>3, <2>4, <2>5, CommitKeeps
<1> QED BY <1>6, <1>7

\* Every step keeps the addresses' invariant.
LEMMA AddressesKeep ==
  ASSUME AddressIInv, [AddressNext]_<<community, addressVars>> PROVE AddressIInv'
<1>1. address \in [Addresses -> AddressRows] /\ form \in [Forms -> FormRows]
  BY DEF AddressIInv, AddressTypeOK, FormRows
<1>2. \A f \in Forms : form[f] \in FormRows /\ Sound(f, form[f])
  BY <1>1, SoundForms DEF AddressIInv
<1>3. CASE UNCHANGED addressVars
  BY <1>3 DEF addressVars, AddressIInv, AddressTypeOK, RowsAreOwned, HasDefault, Live, Defaults,
     LocksAreHeld, FormsAreWhole
<1>4. ASSUME NEW h \in Householders, UseAddress(h) PROVE AddressIInv'
  <2>1. PICK a \in Live(h) : address' = [address EXCEPT ![a].used = TRUE]
    BY <1>4 DEF UseAddress
  <2>2. /\ address' \in [Addresses -> AddressRows]
        /\ \A b \in Addresses : /\ address'[b].owner = address[b].owner
                                /\ address'[b].live = address[b].live
                                /\ address'[b].default = address[b].default
    BY <1>1, <2>1 DEF AddressRows, Live
  <2>3. \A o : Live(o)' = Live(o) /\ Defaults(o)' = Defaults(o)
    BY <2>2 DEF Live, Defaults
  <2>4. UNCHANGED form
    BY <1>4 DEF UseAddress
  <2>5. AddressTypeOK' /\ RowsAreOwned'
    BY <2>2, <2>4 DEF AddressIInv, AddressTypeOK, RowsAreOwned
  <2>6. HasDefault'
    BY <2>3 DEF AddressIInv, HasDefault
  <2>7. \A f \in Forms : Live(form[f].owner)' = Live(form[f].owner)
    BY <2>2, <2>4 DEF Live
  <2>8. LocksAreHeld'
    BY <2>4, <2>7 DEF AddressIInv, LocksAreHeld
  <2>9. FormsAreWhole'
    <3>1. \A f \in Forms : Creates(form[f]) => form[f].target \in Addresses
      BY <1>2 DEF Sound, Creates
    <3> QED BY <2>2, <2>4, <3>1 DEF AddressIInv, FormsAreWhole, Creates
  <2> QED BY <2>5, <2>6, <2>8, <2>9 DEF AddressIInv
<1>5. ASSUME NEW f \in Forms, RequestCreate(f) PROVE AddressIInv'
  <2>1. PICK h \in Householders, c \in Communities, k \in {"create", "createDefault"},
             a \in Addresses :
          /\ address[a].owner = NoOne /\ \A g \in Forms : form[g].target # a
          /\ Turn(f, [BlankForm EXCEPT !.at = "lock", !.owner = h, !.kind = k,
                                       !.target = a, !.place = c])
    BY <1>5 DEF RequestCreate
  <2> DEFINE r == [BlankForm EXCEPT !.at = "lock", !.owner = h, !.kind = k,
                                    !.target = a, !.place = c]
  <2>2. r \in FormRows /\ Sound(f, r)
    BY <2>1 DEF BlankForm, FormRows, Kinds, Sound, Creates, Holds
  <2>3. Turn(f, r) /\ UNCHANGED address
    BY <1>5, <2>1 DEF RequestCreate
  <2> HIDE DEF r
  <2> QED BY <2>2, <2>3, FormMoves
<1>6. ASSUME NEW f \in Forms, RequestUpdate(f) PROVE AddressIInv'
  <2>1. PICK h \in Householders, c \in Communities, a \in Addresses :
          Turn(f, [BlankForm EXCEPT !.at = "edit", !.owner = h, !.kind = "update",
                                    !.target = a, !.place = c])
    BY <1>6 DEF RequestUpdate, Live
  <2> DEFINE r == [BlankForm EXCEPT !.at = "edit", !.owner = h, !.kind = "update",
                                    !.target = a, !.place = c]
  <2>2. r \in FormRows /\ Sound(f, r)
    BY DEF BlankForm, FormRows, Kinds, Sound, Creates, Holds, Live
  <2>3. Turn(f, r) /\ UNCHANGED address
    BY <1>6, <2>1 DEF RequestUpdate
  <2> HIDE DEF r
  <2> QED BY <2>2, <2>3, FormMoves
<1>7. ASSUME NEW f \in Forms, NEW h \in Householders, NEW a \in Addresses,
             NEW k \in {"setDefault", "remove"}, UNCHANGED address,
             Turn(f, [BlankForm EXCEPT !.at = "lock", !.owner = h, !.kind = k, !.target = a])
      PROVE  AddressIInv'
  <2> DEFINE r == [BlankForm EXCEPT !.at = "lock", !.owner = h, !.kind = k, !.target = a]
  <2>1. r \in FormRows /\ Sound(f, r)
    BY DEF BlankForm, FormRows, Kinds, Sound, Creates, Holds
  <2>2. Turn(f, r)
    BY <1>7
  <2> HIDE DEF r
  <2> QED BY <1>7, <2>1, <2>2, FormMoves
<1>8. ASSUME NEW f \in Forms, RequestDefault(f) \/ RequestRemove(f) PROVE AddressIInv'
  BY <1>7, <1>8 DEF RequestDefault, RequestRemove, Live
<1>9. ASSUME NEW f \in Forms, LockUser(f) PROVE AddressIInv'
  <2> DEFINE r == [form[f] EXCEPT !.at = "read"]
  <2>1. form[f] \in FormRows /\ form[f].at = "lock" /\ ~Locked(form[f].owner)
    BY <1>2, <1>9 DEF LockUser
  <2>2. /\ r \in FormRows /\ r.at = "read" /\ r.owner = form[f].owner /\ r.kind = form[f].kind
        /\ r.target = form[f].target /\ r.place = form[f].place
    BY <2>1 DEF FormRows
  <2>3. Turn(f, r) /\ UNCHANGED address
    BY <1>9 DEF LockUser
  <2> HIDE DEF r
  <2>4. Sound(f, r)
    BY <1>2, <2>1, <2>2 DEF Sound, Creates, Holds, Locked
  <2> QED BY <2>2, <2>3, <2>4, FormMoves
<1>10. ASSUME NEW f \in Forms, ReadAddresses(f) PROVE AddressIInv'
  <2> DEFINE live == Live(form[f].owner)
             r == [form[f] EXCEPT !.at = "write", !.read = live]
  <2>1. form[f] \in FormRows /\ form[f].at = "read" /\ live \in SUBSET Addresses
    BY <1>2, <1>10 DEF ReadAddresses, Live
  <2>2. /\ r \in FormRows /\ r.at = "write" /\ r.owner = form[f].owner /\ r.kind = form[f].kind
        /\ r.target = form[f].target /\ r.place = form[f].place /\ r.read = live
    BY <2>1 DEF FormRows
  <2>3. /\ UNCHANGED address
        /\ \/ Turn(f, BlankForm)
           \/ /\ Turn(f, r)
              /\ form[f].kind \in {"create", "createDefault"} \/ form[f].target \in live
    BY <1>10 DEF ReadAddresses
  <2> HIDE DEF r
  <2>4. form[f].kind \in {"create", "createDefault"} \/ form[f].target \in live => Sound(f, r)
    BY <1>2, <2>1, <2>2 DEF Sound, Creates, Holds
  <2> QED BY <2>2, <2>3, <2>4, BlankIsSound, FormMoves
<1>11. ASSUME NEW f \in Forms, UpdateAddress(f) PROVE AddressIInv'
  <2> DEFINE t == form[f].target
             c == form[f].place
  <2>1. CASE t \notin Live(form[f].owner)
    BY <1>11, <2>1, BlankIsSound, FormMoves DEF UpdateAddress
  <2>2. CASE t \in Live(form[f].owner)
    <3>1. /\ address' = [address EXCEPT ![t].place = c] /\ Turn(f, BlankForm)
          /\ t \in Addresses /\ c \in Communities
      BY <1>2, <1>11, <2>2 DEF UpdateAddress, Sound, Live
    <3>2. /\ address' \in [Addresses -> AddressRows]
          /\ \A b \in Addresses : /\ address'[b].owner = address[b].owner
                                  /\ address'[b].live = address[b].live
                                  /\ address'[b].default = address[b].default
      BY <1>1, <3>1 DEF AddressRows
    <3>3. \A o \in Householders : Live(o)' = Live(o) /\ Defaults(o)' = Defaults(o)
      BY <3>2 DEF Live, Defaults
    <3>4. RowsAreOwned'
      BY <3>2 DEF AddressIInv, RowsAreOwned
    <3>5. HasDefault'
      BY <3>3 DEF AddressIInv, HasDefault
    <3>6. \A g \in Forms : Creates(form[g]) => address'[form[g].target].owner = NoOne
      BY <1>2, <3>2 DEF Sound, Creates
    <3> QED BY <3>1, <3>2, <3>3, <3>4, <3>5, <3>6, FormEnds
  <2> QED BY <2>1, <2>2
<1>12. ASSUME NEW f \in Forms, DropForm(f) PROVE AddressIInv'
  BY <1>12, BlankIsSound, FormMoves DEF DropForm
<1> QED
  BY <1>3, <1>4, <1>5, <1>6, <1>8, <1>9, <1>10, <1>11, <1>12, CreateKeeps, SetDefaultKeeps,
     SoftDeleteKeeps DEF AddressNext

\* Addresses are always in order.
LEMMA AddressesInvariance == AddressSpec => []AddressIInv
<1>1. AddressIInv /\ [AddressNext]_<<community, addressVars>> => AddressIInv'
  BY AddressesKeep
<1> QED BY <1>1, AddressesStart, PTL DEF AddressSpec

\* Whatever calls are under way, a resident who has addresses has exactly one default
\* (address.repository.ts create, setDefault, softDelete).
THEOREM DefaultsAreKept == AddressSpec => []OneDefaultAddress
<1>1. AddressIInv => OneDefaultAddress
  BY FS_Singleton DEF AddressIInv, HasDefault, OneDefaultAddress
<1> QED BY <1>1, AddressesInvariance, PTL

-----------------------------------------------------------------------------
(* Shelf *)

EditRows ==
  [kind : {"none", "createCategory", "updateCategory", "deleteCategory",
           "createProduct", "updateProduct", "deleteProduct"},
   row : Categories \cup Goods \cup {NoShop}, of : Shops \cup {NoShop},
   category : Categories \cup {NoCategory},
   status : GoodsStatus \cup {"ENABLED", "DISABLED"}, stock : 0..MaxStock]

\* What EditsAreWhole and LookupsHold ask of one edit.
Proper(r) ==
  /\ r.kind = "createCategory" =>
       /\ r.row \in Categories /\ category[r.row].of = NoShop
       /\ r.of \in Shops /\ shop[r.of].status # "none"
       /\ r.status \in {"ENABLED", "DISABLED"}
  /\ r.kind \in {"updateCategory", "deleteCategory"} => r.row \in Categories
  /\ r.kind = "updateCategory" => r.status \in {"ENABLED", "DISABLED"}
  /\ r.kind \in {"createProduct", "updateProduct"} =>
       /\ r.row \in Goods /\ r.of \in Shops
       /\ r.category \in Categories /\ category[r.category].of = r.of
       /\ r.status \in GoodsStatus
  /\ r.kind = "createProduct" => goods[r.row].of = NoShop
  /\ r.kind = "updateProduct" => goods[r.row].of = r.of
  /\ r.kind = "deleteProduct" => r.row \in Goods /\ goods[r.row].of # NoShop

StillSo(r) ==
  /\ r.kind \in {"createProduct", "updateProduct"} /\ r.status = "ON_SALE"
       => CategoryExists(r.category) /\ category[r.category].status = "ENABLED"
  /\ r.kind = "deleteCategory" => ProductsIn(r.row) = {}

\* EditsAreWhole, in the words of one edit.
LEMMA ProperEdits ==
  /\ EditsAreWhole <=> \A e \in Editors : Proper(edit[e])
  /\ EditsAreWhole' <=> (\A e \in Editors : Proper(edit[e]))'
BY DEF EditsAreWhole, Proper

\* No edit is a proper edit.
LEMMA NoEditIsProper ==
  ASSUME MaxStock \in Nat
  PROVE  NoEdit \in EditRows /\ Proper(NoEdit) /\ StillSo(NoEdit) /\ NoEdit.kind = "none"
BY DEF NoEdit, EditRows, GoodsStatus, Proper, StillSo

\* An empty shelf is in order.
LEMMA ShelfStart == ShelfInit => ShelfIInv
<1> SUFFICES ASSUME ShelfInit PROVE ShelfIInv
  OBVIOUS
<1>1. ShelfTypeOK
  <2>1. NoShopRow \in ShopRows /\ NoCategoryRow \in CategoryRows
    BY DEF NoShopRow, ShopRows, NoCategoryRow, CategoryRows
  <2>2. NoGoodsRow \in GoodsRows
    BY MaxStockIsPositive DEF NoGoodsRow, GoodsRows, GoodsStatus, Limits, NoLimit
  <2>3. NoEdit \in EditRows
    BY MaxStockIsPositive, NoEditIsProper
  <2>4. /\ shop \in [Shops -> ShopRows] /\ category \in [Categories -> CategoryRows]
        /\ goods \in [Goods -> GoodsRows]
    BY <2>1, <2>2 DEF ShelfInit
  <2>5. edit \in [Editors -> EditRows] /\ overlapped \in BOOLEAN
    BY <2>3 DEF ShelfInit
  <2> QED BY <2>4, <2>5 DEF ShelfTypeOK, EditRows
<1> USE DEF ShelfInit, NoShopRow, NoCategoryRow, NoGoodsRow, NoEdit
<1>2. ShelfIsWhole /\ EditsAreWhole /\ CreatesAreApart /\ LookupsHold /\ ShelvesInOrder
  BY DEF ShelfIsWhole, EditsAreWhole, CreatesAreApart, LookupsHold, ShelvesInOrder, DisabledIsOffShelf, GoodsExist
<1> QED BY <1>1, <1>2 DEF ShelfIInv

\* An edit that has looked up what it depends on.
LEMMA OpenKeeps ==
  ASSUME ShelfIInv, NEW e \in Editors, NEW r \in EditRows, Proper(r), StillSo(r),
         r.kind \in {"createCategory", "createProduct"} => Fresh(r.row), Open(e, r)
  PROVE  ShelfIInv'
<1>1. /\ edit \in [Editors -> EditRows] /\ edit[e].kind = "none"
      /\ edit' = [edit EXCEPT ![e] = r] /\ UNCHANGED <<shop, category, goods>>
      /\ overlapped' = (overlapped \/ \E f \in Editors : edit[f].kind # "none")
      /\ overlapped \in BOOLEAN
  BY DEF ShelfIInv, ShelfTypeOK, EditRows, Open
<1>2. /\ edit' \in [Editors -> EditRows]
      /\ \A f \in Editors : edit'[f] = IF f = e THEN r ELSE edit[f]
  BY <1>1
<1>3. ShelfTypeOK'
  BY <1>1, <1>2 DEF ShelfIInv, ShelfTypeOK, EditRows
<1>4. ShelfIsWhole'
  BY <1>1 DEF ShelfIInv, ShelfIsWhole
<1>5. EditsAreWhole'
  <2>1. \A f \in Editors : Proper(edit'[f])
    BY <1>2, ProperEdits DEF ShelfIInv
  <2>2. \A f \in Editors : Proper(edit[f])'
    BY <1>1, <2>1 DEF Proper
  <2> QED BY <2>2, ProperEdits
<1>6. CreatesAreApart'
  BY <1>2 DEF ShelfIInv, CreatesAreApart, Fresh
<1>7. LookupsHold'
  <2> SUFFICES ASSUME ~overlapped' PROVE LookupsHold'
    BY DEF LookupsHold
  <2>1. \A f \in Editors : f # e => edit'[f].kind = "none"
    BY <1>1, <1>2
  <2>2. StillSo(r)'
    BY <1>1 DEF StillSo, CategoryExists, ProductsIn, GoodsExist
  <2> QED BY <1>2, <2>1, <2>2 DEF LookupsHold, StillSo
<1>8. ShelvesInOrder'
  BY <1>1 DEF ShelfIInv, ShelvesInOrder, DisabledIsOffShelf, GoodsExist, CategoryExists
<1> QED BY <1>3, <1>4, <1>5, <1>6, <1>7, <1>8 DEF ShelfIInv

\* An edit that ends.  It may create a category or a product where there was nothing, and
\* leaves every row to its store.
LEMMA SaveKeeps ==
  ASSUME ShelfIInv, NEW e \in Editors, edit[e].kind # "none",
         edit' = [edit EXCEPT ![e] = NoEdit], UNCHANGED <<shop, overlapped>>,
         category' \in [Categories -> CategoryRows], goods' \in [Goods -> GoodsRows],
         \A k \in Categories : \/ category'[k].of = category[k].of
                               \/ /\ edit[e].kind = "createCategory" /\ edit[e].row = k
                                  /\ category'[k].of = edit[e].of,
         \A g \in Goods : \/ goods'[g].of = goods[g].of
                          \/ /\ edit[e].kind = "createProduct" /\ edit[e].row = g
                             /\ goods'[g].of = edit[e].of,
         \A g \in Goods : goods'[g].of # NoShop =>
           /\ goods'[g].category \in Categories
           /\ category[goods'[g].category].of = goods'[g].of,
         ShelvesInOrder'
  PROVE  ShelfIInv'
<1>1. /\ edit \in [Editors -> EditRows] /\ MaxStock \in Nat
      /\ \A f \in Editors : Proper(edit[f])
  BY MaxStockIsPositive, ProperEdits DEF ShelfIInv, ShelfTypeOK, EditRows
<1>2. /\ edit' \in [Editors -> EditRows]
      /\ \A f \in Editors : edit'[f] = IF f = e THEN NoEdit ELSE edit[f]
  BY <1>1, NoEditIsProper
<1>3. \A k \in Categories : category[k].of # NoShop => category'[k].of = category[k].of
  BY <1>1 DEF Proper
<1>4. \A g \in Goods : goods[g].of # NoShop => goods'[g].of = goods[g].of
  BY <1>1 DEF Proper
<1>5. ShelfTypeOK'
  BY <1>2 DEF ShelfIInv, ShelfTypeOK, EditRows
<1>6. ShelfIsWhole'
  <2>1. ASSUME NEW k \in Categories, category'[k].of # NoShop
        PROVE  shop'[category'[k].of].status # "none"
    BY <1>1, <2>1 DEF ShelfIInv, ShelfIsWhole, Proper
  <2>2. ASSUME NEW g \in Goods, goods'[g].of # NoShop
        PROVE  goods'[g].category \in Categories /\ category'[goods'[g].category].of = goods'[g].of
    BY <1>3, <2>2
  <2> QED BY <2>1, <2>2 DEF ShelfIsWhole
<1>7. EditsAreWhole'
  <2>1. ASSUME NEW f \in Editors, f # e PROVE Proper(edit[f])'
    <3>1. edit'[f] = edit[f] /\ Proper(edit[f])
      BY <1>1, <1>2, <2>1
    <3>2. edit[f].kind = "createCategory" => category'[edit[f].row].of = NoShop
      BY <1>1, <2>1, <3>1 DEF ShelfIInv, CreatesAreApart, Proper
    <3>3. edit[f].kind = "createProduct" => goods'[edit[f].row].of = NoShop
      BY <1>1, <2>1, <3>1 DEF ShelfIInv, CreatesAreApart, Proper
    <3> QED BY <1>3, <1>4, <3>1, <3>2, <3>3, NoneIsNothing DEF Proper
  <2>2. Proper(edit[e])'
    BY <1>2 DEF Proper, NoEdit
  <2> QED BY <2>1, <2>2, ProperEdits
<1>8. CreatesAreApart'
  BY <1>2 DEF ShelfIInv, CreatesAreApart, NoEdit
<1>9. LookupsHold'
  BY <1>2 DEF ShelfIInv, LookupsHold, NoEdit
<1> QED BY <1>5, <1>6, <1>7, <1>8, <1>9 DEF ShelfIInv

\* What ShelfIInv says of the types of rows.
LEMMA ShelfIsTyped ==
  ASSUME ShelfIInv
  PROVE  /\ shop \in [Shops -> ShopRows] /\ category \in [Categories -> CategoryRows]
         /\ goods \in [Goods -> GoodsRows] /\ edit \in [Editors -> EditRows]
         /\ MaxStock \in Nat /\ \A e \in Editors : Proper(edit[e])
         /\ \A g \in Goods : goods[g].of # NoShop =>
              goods[g].category \in Categories /\ category[goods[g].category].of = goods[g].of
         /\ ~overlapped => \A e \in Editors : StillSo(edit[e])
BY MaxStockIsPositive, ProperEdits
   DEF ShelfIInv, ShelfTypeOK, EditRows, ShelfIsWhole, LookupsHold, StillSo

\* Creating a category keeps the shelf in order.
LEMMA CreateCategoryKeeps ==
  ASSUME ShelfIInv, NEW e \in Editors, CreateCategory(e) PROVE ShelfIInv'
<1> DEFINE r == edit[e]
           row == [of |-> r.of, status |-> r.status, deleted |-> FALSE]
<1>1. /\ r.kind = "createCategory" /\ edit' = [edit EXCEPT ![e] = NoEdit]
      /\ UNCHANGED <<shop, overlapped, goods>> /\ category' = [category EXCEPT ![r.row] = row]
  BY DEF CreateCategory, Saving
<1>2. Proper(r) /\ category \in [Categories -> CategoryRows] /\ goods \in [Goods -> GoodsRows]
  BY ShelfIsTyped
<1>3. r.row \in Categories /\ category[r.row].of = NoShop /\ row \in CategoryRows
  BY <1>1, <1>2 DEF Proper, CategoryRows
<1>4. /\ category' \in [Categories -> CategoryRows]
      /\ \A k \in Categories : category'[k] = IF k = r.row THEN row ELSE category[k]
  BY <1>1, <1>2, <1>3
<1>5. ShelvesInOrder'
  BY <1>1, <1>3, <1>4 DEF ShelfIInv, ShelvesInOrder, DisabledIsOffShelf, GoodsExist, CategoryExists
<1>6. \A k \in Categories : \/ category'[k].of = category[k].of
                            \/ r.kind = "createCategory" /\ r.row = k /\ category'[k].of = r.of
  BY <1>1, <1>4
<1>7. \A g \in Goods : goods'[g].of # NoShop =>
        goods'[g].category \in Categories /\ category[goods'[g].category].of = goods'[g].of
  BY <1>1, ShelfIsTyped
<1> QED BY <1>1, <1>2, <1>4, <1>5, <1>6, <1>7, SaveKeeps

\* Switching a category off takes its products off the shelf, and keeps order.
LEMMA UpdateCategoryKeeps ==
  ASSUME ShelfIInv, NEW e \in Editors, UpdateCategory(e) PROVE ShelfIInv'
<1> DEFINE r == edit[e]
           k == r.row
           Off(g) == GoodsExist(g) /\ goods[g].category = k /\ goods[g].status = "ON_SALE"
<1>1. /\ r.kind = "updateCategory" /\ edit' = [edit EXCEPT ![e] = NoEdit]
      /\ UNCHANGED <<shop, overlapped>>
      /\ category' = [category EXCEPT ![k].status = r.status]
      /\ goods' = IF r.status = "DISABLED"
                  THEN [g \in Goods |-> IF Off(g) THEN [goods[g] EXCEPT !.status = "OFF_SHELF"]
                                                  ELSE goods[g]]
                  ELSE goods
  BY DEF UpdateCategory, Saving, ProductsIn
<1>2. Proper(r) /\ category \in [Categories -> CategoryRows] /\ goods \in [Goods -> GoodsRows]
  BY ShelfIsTyped
<1>3. k \in Categories /\ r.status \in {"ENABLED", "DISABLED"}
  BY <1>1, <1>2 DEF Proper
<1>4. /\ category' \in [Categories -> CategoryRows]
      /\ \A j \in Categories : /\ category'[j].of = category[j].of
                               /\ category'[j].deleted = category[j].deleted
                               /\ category'[j].status = IF j = k THEN r.status
                                                        ELSE category[j].status
  BY <1>1, <1>2, <1>3 DEF CategoryRows
<1>5. /\ goods' \in [Goods -> GoodsRows]
      /\ \A g \in Goods : /\ goods'[g].of = goods[g].of
                          /\ goods'[g].category = goods[g].category
                          /\ goods'[g].deleted = goods[g].deleted
                          /\ goods'[g].status = IF r.status = "DISABLED" /\ Off(g)
                                                THEN "OFF_SHELF" ELSE goods[g].status
  <2>1. \A g \in Goods : /\ goods[g] \in GoodsRows
                         /\ [goods[g] EXCEPT !.status = "OFF_SHELF"] \in GoodsRows
    BY <1>2 DEF GoodsRows, GoodsStatus
  <2> HIDE DEF Off
  <2> QED BY <1>1, <1>2, <2>1 DEF GoodsRows
<1>6. ShelvesInOrder'
  <2>1. SUFFICES ASSUME ~overlapped, NEW g \in Goods, GoodsExist(g)', goods'[g].status = "ON_SALE"
                 PROVE  /\ CategoryExists(goods[g].category)'
                        /\ category'[goods'[g].category].status = "ENABLED"
    BY <1>1 DEF ShelvesInOrder, DisabledIsOffShelf, CategoryExists
  <2>2. /\ GoodsExist(g) /\ goods[g].status = "ON_SALE"
        /\ goods'[g].category = goods[g].category /\ goods[g].category \in Categories
    BY <1>5, <2>1, ShelfIsTyped DEF GoodsExist
  <2>3. CategoryExists(goods[g].category) /\ category[goods[g].category].status = "ENABLED"
    BY <2>1, <2>2 DEF ShelfIInv, ShelvesInOrder, DisabledIsOffShelf
  <2>4. goods[g].category = k => r.status = "ENABLED"
    BY <1>3, <1>5, <2>1, <2>2
  <2> QED BY <1>4, <2>2, <2>3, <2>4 DEF CategoryExists
<1>7. \A g \in Goods : goods'[g].of # NoShop =>
        goods'[g].category \in Categories /\ category[goods'[g].category].of = goods'[g].of
  BY <1>5, ShelfIsTyped
<1>8. /\ r.kind # "none" /\ edit' = [edit EXCEPT ![e] = NoEdit] /\ UNCHANGED <<shop, overlapped>>
      /\ category' \in [Categories -> CategoryRows] /\ goods' \in [Goods -> GoodsRows]
  BY <1>1, <1>4, <1>5
<1>9. /\ \A j \in Categories : category'[j].of = category[j].of
      /\ \A g \in Goods : goods'[g].of = goods[g].of
  BY <1>4, <1>5
<1> HIDE DEF r, k, Off
<1> QED BY <1>6, <1>7, <1>8, <1>9, SaveKeeps DEF r

\* Deleting an empty category keeps order.
LEMMA SoftDeleteCategoryKeeps ==
  ASSUME ShelfIInv, NEW e \in Editors, SoftDeleteCategory(e) PROVE ShelfIInv'
<1> DEFINE k == edit[e].row
<1>1. /\ edit[e].kind = "deleteCategory" /\ edit' = [edit EXCEPT ![e] = NoEdit]
      /\ UNCHANGED <<shop, overlapped, goods>>
      /\ category' = [category EXCEPT ![k].status = "DISABLED", ![k].deleted = TRUE]
  BY DEF SoftDeleteCategory, Saving
<1>2. /\ Proper(edit[e]) /\ (~overlapped => StillSo(edit[e]))
      /\ category \in [Categories -> CategoryRows] /\ goods \in [Goods -> GoodsRows]
  BY ShelfIsTyped
<1>3. k \in Categories /\ (~overlapped => ProductsIn(k) = {})
  BY <1>1, <1>2 DEF Proper, StillSo
<1>4. /\ category' \in [Categories -> CategoryRows] /\ category'[k].of = category[k].of
      /\ \A j \in Categories \ {k} : category'[j] = category[j]
  BY <1>1, <1>2, <1>3 DEF CategoryRows
<1>5. ShelvesInOrder'
  <2>1. SUFFICES ASSUME ~overlapped, NEW g \in Goods, GoodsExist(g), goods[g].status = "ON_SALE"
                 PROVE  category'[goods[g].category] = category[goods[g].category]
    BY <1>1 DEF ShelfIInv, ShelvesInOrder, DisabledIsOffShelf, GoodsExist, CategoryExists
  <2> QED BY <1>3, <1>4, <2>1, ShelfIsTyped DEF ProductsIn, GoodsExist
<1>6. \A j \in Categories : category'[j].of = category[j].of
  BY <1>4
<1>7. \A g \in Goods : goods'[g].of # NoShop =>
        goods'[g].category \in Categories /\ category[goods'[g].category].of = goods'[g].of
  BY <1>1, ShelfIsTyped
<1> QED BY <1>1, <1>2, <1>4, <1>5, <1>6, <1>7, SaveKeeps

\* A product as its form says: a new one, or one that stays in its store.
LEMMA SaveProductKeeps ==
  ASSUME ShelfIInv, NEW e \in Editors, CreateProduct(e) \/ UpdateProduct(e) PROVE ShelfIInv'
<1> DEFINE r == edit[e]
<1>1. /\ r.kind \in {"createProduct", "updateProduct"} /\ edit' = [edit EXCEPT ![e] = NoEdit]
      /\ UNCHANGED <<shop, overlapped, category>>
  BY DEF CreateProduct, UpdateProduct, Saving
<1>2. /\ Proper(r) /\ (~overlapped => StillSo(r)) /\ r \in EditRows
      /\ category \in [Categories -> CategoryRows] /\ goods \in [Goods -> GoodsRows]
  BY ShelfIsTyped
<1>3. /\ r.row \in Goods /\ r.of \in Shops /\ r.category \in Categories
      /\ category[r.category].of = r.of /\ r.status \in GoodsStatus /\ r.stock \in 0..MaxStock
      /\ r.kind = "updateProduct" => goods[r.row].of = r.of
  BY <1>1, <1>2 DEF Proper, EditRows
<1>4. PICK row \in GoodsRows : /\ row.of = r.of /\ row.category = r.category
                               /\ row.status = r.status
                               /\ goods' = [goods EXCEPT ![r.row] = row]
  <2>1. CASE CreateProduct(e)
    <3>1. PICK l \in Limits : goods' = [goods EXCEPT ![r.row] =
                   [of |-> r.of, category |-> r.category, status |-> r.status,
                    deleted |-> FALSE, stock |-> r.stock, limit |-> l]]
      BY <2>1 DEF CreateProduct
    <3>2. [of |-> r.of, category |-> r.category, status |-> r.status,
           deleted |-> FALSE, stock |-> r.stock, limit |-> l] \in GoodsRows
      BY <1>3 DEF GoodsRows
    <3> QED BY <3>1, <3>2
  <2>2. CASE UpdateProduct(e)
    <3>1. PICK l \in Limits :
            goods' = [goods EXCEPT ![r.row].category = r.category, ![r.row].status = r.status,
                                   ![r.row].stock = r.stock, ![r.row].limit = l]
      BY <2>2 DEF UpdateProduct
    <3> DEFINE row == [goods[r.row] EXCEPT !.category = r.category, !.status = r.status,
                                           !.stock = r.stock, !.limit = l]
    <3>2. goods[r.row] \in GoodsRows /\ goods[r.row].of = r.of
      BY <1>2, <1>3, <2>2 DEF UpdateProduct, Saving
    <3>3. row \in GoodsRows /\ row.of = r.of /\ row.category = r.category /\ row.status = r.status
      BY <1>3, <3>2 DEF GoodsRows
    <3>4. goods' = [goods EXCEPT ![r.row] = row]
      BY <1>2, <1>3, <3>1
    <3> HIDE DEF row
    <3> QED BY <3>3, <3>4
  <2> QED BY <2>1, <2>2
<1>5. /\ goods' \in [Goods -> GoodsRows]
      /\ \A g \in Goods : goods'[g] = IF g = r.row THEN row ELSE goods[g]
  BY <1>2, <1>3, <1>4
<1>6. ShelvesInOrder'
  <2>1. SUFFICES ASSUME ~overlapped, NEW g \in Goods, GoodsExist(g)', goods'[g].status = "ON_SALE"
                 PROVE  /\ CategoryExists(goods'[g].category)
                        /\ category[goods'[g].category].status = "ENABLED"
    BY <1>1 DEF ShelvesInOrder, DisabledIsOffShelf, CategoryExists
  <2>2. CASE g = r.row
    BY <1>1, <1>2, <1>4, <1>5, <2>1, <2>2 DEF StillSo
  <2>3. CASE g # r.row
    BY <1>5, <2>1, <2>3 DEF ShelfIInv, ShelvesInOrder, DisabledIsOffShelf, GoodsExist
  <2> QED BY <2>2, <2>3
<1>7. \A g \in Goods : \/ goods'[g].of = goods[g].of
                       \/ r.kind = "createProduct" /\ r.row = g /\ goods'[g].of = r.of
  BY <1>1, <1>3, <1>4, <1>5
<1>8. \A g \in Goods : goods'[g].of # NoShop =>
        goods'[g].category \in Categories /\ category[goods'[g].category].of = goods'[g].of
  BY <1>3, <1>4, <1>5, ShelfIsTyped
<1> QED BY <1>1, <1>2, <1>5, <1>6, <1>7, <1>8, SaveKeeps

\* Deleting a product keeps order.
LEMMA SoftDeleteProductKeeps ==
  ASSUME ShelfIInv, NEW e \in Editors, SoftDeleteProduct(e) PROVE ShelfIInv'
<1> DEFINE p == edit[e].row
<1>1. /\ edit[e].kind = "deleteProduct" /\ edit' = [edit EXCEPT ![e] = NoEdit]
      /\ UNCHANGED <<shop, overlapped, category>>
      /\ goods' = [goods EXCEPT ![p].status = "OFF_SHELF", ![p].deleted = TRUE]
  BY DEF SoftDeleteProduct, Saving
<1>2. /\ p \in Goods /\ category \in [Categories -> CategoryRows]
      /\ goods \in [Goods -> GoodsRows]
  BY <1>1, ShelfIsTyped DEF Proper
<1>3. /\ goods' \in [Goods -> GoodsRows]
      /\ goods'[p].of = goods[p].of /\ goods'[p].category = goods[p].category
      /\ goods'[p].deleted
      /\ \A g \in Goods \ {p} : goods'[g] = goods[g]
  BY <1>1, <1>2 DEF GoodsRows, GoodsStatus
<1>4. ShelvesInOrder'
  BY <1>1, <1>3 DEF ShelfIInv, ShelvesInOrder, DisabledIsOffShelf, GoodsExist, CategoryExists
<1>5. \A g \in Goods : goods'[g].of = goods[g].of
  BY <1>3
<1>6. \A g \in Goods : goods'[g].of # NoShop =>
        goods'[g].category \in Categories /\ category[goods'[g].category].of = goods'[g].of
  <2>1. \A g \in Goods : goods'[g].of = goods[g].of /\ goods'[g].category = goods[g].category
    BY <1>3
  <2> QED BY <2>1, ShelfIsTyped
<1> QED BY <1>1, <1>2, <1>3, <1>4, <1>5, <1>6, SaveKeeps

\* Steps of the stores and of the stock, which leave every row to its store.
LEMMA RowsMove ==
  ASSUME ShelfIInv, UNCHANGED <<category, edit, overlapped>>,
         shop' \in [Shops -> ShopRows], goods' \in [Goods -> GoodsRows],
         \A s \in Shops : shop[s].status # "none" => shop'[s].status # "none",
         \A g \in Goods : /\ goods'[g].of = goods[g].of
                          /\ goods'[g].category = goods[g].category
                          /\ goods'[g].status = goods[g].status
                          /\ goods'[g].deleted = goods[g].deleted
  PROVE  ShelfIInv'
<1>1. \A g \in Goods : GoodsExist(g)' <=> GoodsExist(g)
  BY DEF GoodsExist
<1>2. ShelfTypeOK' /\ CreatesAreApart'
  BY DEF ShelfIInv, ShelfTypeOK, CreatesAreApart
<1>3. ShelfIsWhole'
  BY ShelfIsTyped DEF ShelfIInv, ShelfIsWhole, ShopRows, CategoryRows
<1>4. ASSUME NEW e \in Editors PROVE Proper(edit[e])'
  BY ShelfIsTyped DEF Proper
<1>5. EditsAreWhole'
  BY <1>4, ProperEdits
<1>6. LookupsHold'
  <2>1. \A e \in Editors : ProductsIn(edit[e].row)' = ProductsIn(edit[e].row)
    BY <1>1 DEF ProductsIn
  <2>2. \A e \in Editors : CategoryExists(edit[e].category)' <=> CategoryExists(edit[e].category)
    BY DEF CategoryExists
  <2> QED BY <2>1, <2>2 DEF ShelfIInv, LookupsHold
<1>7. ShelvesInOrder'
  <2>1. \A g \in Goods : CategoryExists(goods[g].category)' <=> CategoryExists(goods[g].category)
    BY DEF CategoryExists
  <2> QED BY <1>1, <2>1 DEF ShelfIInv, ShelvesInOrder, DisabledIsOffShelf
<1> QED BY <1>2, <1>3, <1>5, <1>6, <1>7 DEF ShelfIInv

\* What is done to a store keeps order, and no store goes.
LEMMA ShopMoves ==
  ASSUME ShelfIInv, NEW s \in Shops,
         CreateShop(s) \/ UpdateShop(s) \/ UpdateShopStatus(s) \/ SoftDeleteShop(s)
  PROVE  /\ ShelfIInv'
         /\ \A t \in Shops : shop[t].status # "none" => shop'[t].status # "none"
<1>1. PICK row \in ShopRows : row.status # "none" /\ shop' = [shop EXCEPT ![s] = row]
  <2>1. shop[s] \in ShopRows /\ shop \in [Shops -> ShopRows]
    BY ShelfIsTyped
  <2>2. CASE CreateShop(s)
    <3>1. PICK st \in ShopStatus, A \in ValidAreas :
            shop' = [shop EXCEPT ![s] = [status |-> st, deleted |-> FALSE, areas |-> A]]
      BY <2>2 DEF CreateShop
    <3>2. [status |-> st, deleted |-> FALSE, areas |-> A] \in ShopRows /\ st # "none"
      BY DEF ShopRows, ShopStatus, ValidAreas
    <3> QED BY <3>1, <3>2
  <2>3. CASE UpdateShop(s)
    <3>1. PICK st \in ShopStatus, A \in ValidAreas :
            shop' = [shop EXCEPT ![s].status = st, ![s].areas = A]
      BY <2>3 DEF UpdateShop
    <3> DEFINE row == [shop[s] EXCEPT !.status = st, !.areas = A]
    <3>2. row \in ShopRows /\ row.status # "none"
      BY <2>1 DEF ShopRows, ShopStatus, ValidAreas
    <3>3. shop' = [shop EXCEPT ![s] = row]
      BY <2>1, <3>1
    <3> HIDE DEF row
    <3> QED BY <3>2, <3>3
  <2>4. CASE UpdateShopStatus(s)
    <3>1. PICK st \in ShopStatus : shop' = [shop EXCEPT ![s].status = st]
      BY <2>4 DEF UpdateShopStatus
    <3> DEFINE row == [shop[s] EXCEPT !.status = st]
    <3>2. row \in ShopRows /\ row.status # "none"
      BY <2>1 DEF ShopRows, ShopStatus
    <3>3. shop' = [shop EXCEPT ![s] = row]
      BY <2>1, <3>1
    <3> HIDE DEF row
    <3> QED BY <3>2, <3>3
  <2>5. CASE SoftDeleteShop(s)
    <3> DEFINE row == [shop[s] EXCEPT !.status = "DISABLED", !.deleted = TRUE]
    <3>1. row \in ShopRows /\ row.status # "none"
      BY <2>1 DEF ShopRows, ShopStatus
    <3>2. shop' = [shop EXCEPT ![s] = row]
      BY <2>1, <2>5 DEF SoftDeleteShop
    <3> HIDE DEF row
    <3> QED BY <3>1, <3>2
  <2> QED BY <2>2, <2>3, <2>4, <2>5
<1>2. /\ UNCHANGED <<category, edit, overlapped, goods>>
      /\ shop \in [Shops -> ShopRows] /\ goods \in [Goods -> GoodsRows]
  BY ShelfIsTyped DEF CreateShop, UpdateShop, UpdateShopStatus, SoftDeleteShop
<1>3. /\ shop' \in [Shops -> ShopRows]
      /\ \A t \in Shops : shop[t].status # "none" => shop'[t].status # "none"
  BY <1>1, <1>2
<1> QED BY <1>2, <1>3, RowsMove

\* Orders that take stock and return it keep order.
LEMMA StockMoves ==
  ASSUME ShelfIInv, NEW g \in Goods, TakeStock(g) \/ ReturnStock(g)
  PROVE  ShelfIInv' /\ (\A h \in Goods : goods'[h].of = goods[h].of) /\ UNCHANGED shop
<1>1. PICK n \in 0..MaxStock : goods' = [goods EXCEPT ![g].stock = n]
  <2>1. goods[g].stock \in 0..MaxStock /\ goods \in [Goods -> GoodsRows] /\ MaxStock \in Nat
    BY ShelfIsTyped DEF GoodsRows
  <2>2. CASE TakeStock(g)
    <3>1. goods[g].stock - 1 \in 0..MaxStock
      BY <2>1, <2>2 DEF TakeStock
    <3>2. goods' = [goods EXCEPT ![g].stock = goods[g].stock - 1]
      BY <2>2 DEF TakeStock
    <3> QED BY <3>1, <3>2
  <2>3. CASE ReturnStock(g)
    <3>1. goods[g].stock + 1 \in 0..MaxStock
      BY <2>1, <2>3 DEF ReturnStock
    <3>2. goods' = [goods EXCEPT ![g].stock = goods[g].stock + 1]
      BY <2>3 DEF ReturnStock
    <3> QED BY <3>1, <3>2
  <2> QED BY <2>2, <2>3
<1>2. /\ UNCHANGED <<shop, category, edit, overlapped>>
      /\ shop \in [Shops -> ShopRows] /\ goods \in [Goods -> GoodsRows]
  BY ShelfIsTyped DEF TakeStock, ReturnStock
<1>3. /\ goods' \in [Goods -> GoodsRows]
      /\ \A h \in Goods : /\ goods'[h].of = goods[h].of
                          /\ goods'[h].category = goods[h].category
                          /\ goods'[h].status = goods[h].status
                          /\ goods'[h].deleted = goods[h].deleted
  BY <1>1, <1>2 DEF GoodsRows
<1>4. \A s \in Shops : shop[s].status # "none" => shop'[s].status # "none"
  BY <1>2
<1> QED BY <1>2, <1>3, <1>4, RowsMove

\* Looking up what an edit needs keeps order.
LEMMA BeginKeeps ==
  ASSUME ShelfIInv, NEW e \in Editors,
         \/ BeginCreateCategory(e) \/ BeginUpdateCategory(e) \/ BeginDeleteCategory(e)
         \/ BeginCreateProduct(e) \/ BeginUpdateProduct(e) \/ BeginDeleteProduct(e)
  PROVE  ShelfIInv'
<1>1. /\ MaxStock \in Nat /\ category \in [Categories -> CategoryRows]
      /\ goods \in [Goods -> GoodsRows]
  BY ShelfIsTyped
<1>2. CASE BeginCreateCategory(e)
  <2>1. PICK k \in Categories, s \in Shops, st \in {"ENABLED", "DISABLED"} :
          /\ category[k].of = NoShop /\ Fresh(k) /\ ShopExists(s)
          /\ Open(e, [NoEdit EXCEPT !.kind = "createCategory", !.row = k, !.of = s,
                                    !.status = st])
    BY <1>2 DEF BeginCreateCategory
  <2> DEFINE r == [NoEdit EXCEPT !.kind = "createCategory", !.row = k, !.of = s, !.status = st]
  <2>2. r \in EditRows
    BY <1>1, NoEditIsProper DEF EditRows
  <2>3. Proper(r) /\ StillSo(r) /\ r.row = k
    BY <2>1 DEF NoEdit, Proper, StillSo, ShopExists
  <2>4. Open(e, r) /\ Fresh(r.row)
    BY <2>1, <2>3
  <2> HIDE DEF r
  <2> QED BY <2>2, <2>3, <2>4, OpenKeeps
<1>3. CASE BeginUpdateCategory(e)
  <2>1. PICK k \in Categories, st \in {"ENABLED", "DISABLED"} :
          Open(e, [NoEdit EXCEPT !.kind = "updateCategory", !.row = k, !.status = st])
    BY <1>3 DEF BeginUpdateCategory
  <2> DEFINE r == [NoEdit EXCEPT !.kind = "updateCategory", !.row = k, !.status = st]
  <2>2. r \in EditRows
    BY <1>1, NoEditIsProper DEF EditRows
  <2>3. Proper(r) /\ StillSo(r) /\ r.kind = "updateCategory"
    BY DEF NoEdit, Proper, StillSo
  <2>4. Open(e, r)
    BY <2>1
  <2> HIDE DEF r
  <2> QED BY <2>2, <2>3, <2>4, OpenKeeps
<1>4. CASE BeginDeleteCategory(e)
  <2>1. PICK k \in Categories :
          ProductsIn(k) = {} /\ Open(e, [NoEdit EXCEPT !.kind = "deleteCategory", !.row = k])
    BY <1>4 DEF BeginDeleteCategory
  <2> DEFINE r == [NoEdit EXCEPT !.kind = "deleteCategory", !.row = k]
  <2>2. r \in EditRows
    BY <1>1, NoEditIsProper DEF EditRows
  <2>3. Proper(r) /\ StillSo(r) /\ r.kind = "deleteCategory"
    BY <2>1 DEF NoEdit, Proper, StillSo
  <2>4. Open(e, r)
    BY <2>1
  <2> HIDE DEF r
  <2> QED BY <2>2, <2>3, <2>4, OpenKeeps
<1>5. CASE BeginCreateProduct(e)
  <2>1. PICK g \in Goods, s \in Shops, k \in Categories, st \in GoodsStatus, n \in 0..MaxStock :
          /\ goods[g].of = NoShop /\ Fresh(g) /\ ValidProductContext(s, k, st, n)
          /\ Open(e, [kind |-> "createProduct", row |-> g, of |-> s, category |-> k,
                      status |-> st, stock |-> n])
    BY <1>5 DEF BeginCreateProduct
  <2> DEFINE r == [kind |-> "createProduct", row |-> g, of |-> s, category |-> k,
                   status |-> st, stock |-> n]
  <2>2. r \in EditRows /\ Proper(r) /\ StillSo(r) /\ r.row = g
    BY <2>1 DEF EditRows, Proper, StillSo, ValidProductContext
  <2>3. Open(e, r) /\ Fresh(r.row)
    BY <2>1, <2>2
  <2> HIDE DEF r
  <2> QED BY <2>2, <2>3, OpenKeeps
<1>6. CASE BeginUpdateProduct(e)
  <2>1. PICK g \in Goods, k \in Categories, st \in GoodsStatus, n \in 0..MaxStock :
          /\ GoodsExist(g) /\ ValidProductContext(goods[g].of, k, st, n)
          /\ Open(e, [kind |-> "updateProduct", row |-> g, of |-> goods[g].of, category |-> k,
                      status |-> st, stock |-> n])
    BY <1>6 DEF BeginUpdateProduct
  <2> DEFINE r == [kind |-> "updateProduct", row |-> g, of |-> goods[g].of, category |-> k,
                   status |-> st, stock |-> n]
  <2>2. goods[g].of \in Shops
    BY <1>1, <2>1 DEF GoodsExist, GoodsRows
  <2>3. r \in EditRows /\ Proper(r) /\ StillSo(r) /\ r.kind = "updateProduct"
    BY <2>1, <2>2 DEF EditRows, Proper, StillSo, ValidProductContext
  <2>4. Open(e, r)
    BY <2>1
  <2> HIDE DEF r
  <2> QED BY <2>3, <2>4, OpenKeeps
<1>7. CASE BeginDeleteProduct(e)
  <2>1. PICK g \in Goods :
          GoodsExist(g) /\ Open(e, [NoEdit EXCEPT !.kind = "deleteProduct", !.row = g])
    BY <1>7 DEF BeginDeleteProduct
  <2> DEFINE r == [NoEdit EXCEPT !.kind = "deleteProduct", !.row = g]
  <2>2. r \in EditRows
    BY <1>1, NoEditIsProper DEF EditRows
  <2>3. Proper(r) /\ StillSo(r) /\ r.kind = "deleteProduct"
    BY <2>1 DEF NoEdit, Proper, StillSo, GoodsExist
  <2>4. Open(e, r)
    BY <2>1
  <2> HIDE DEF r
  <2> QED BY <2>2, <2>3, <2>4, OpenKeeps
<1> QED BY <1>2, <1>3, <1>4, <1>5, <1>6, <1>7

\* Refusing an edit keeps order.
LEMMA DropEditKeeps ==
  ASSUME ShelfIInv, NEW e \in Editors, DropEdit(e) PROVE ShelfIInv'
<1>1. ShelvesInOrder'
  BY DEF DropEdit, ShelfIInv, ShelvesInOrder, DisabledIsOffShelf, GoodsExist, CategoryExists
<1>2. /\ category \in [Categories -> CategoryRows] /\ goods \in [Goods -> GoodsRows]
      /\ \A g \in Goods : goods[g].of # NoShop =>
           goods[g].category \in Categories /\ category[goods[g].category].of = goods[g].of
  BY ShelfIsTyped
<1> QED BY <1>1, <1>2, SaveKeeps DEF DropEdit

\* Every step keeps the shelf's invariant.
LEMMA ShelfKeeps ==
  ASSUME ShelfIInv, ShelfNext PROVE ShelfIInv'
BY ShopMoves, StockMoves, BeginKeeps, DropEditKeeps, CreateCategoryKeeps, UpdateCategoryKeeps,
   SoftDeleteCategoryKeeps, SaveProductKeeps, SoftDeleteProductKeeps DEF ShelfNext

-----------------------------------------------------------------------------
(* Shopping *)

\* Stores and products that have been created stay what they are.
LEMMA ShelfGrows ==
  ASSUME ShelfIInv, ShelfNext
  PROVE  /\ \A s \in Shops : shop[s].status # "none" => shop'[s].status # "none"
         /\ \A g \in Goods : goods[g].of # NoShop => goods'[g].of # NoShop
<1> DEFINE Grows == /\ \A s \in Shops : shop[s].status # "none" => shop'[s].status # "none"
                    /\ \A g \in Goods : goods[g].of # NoShop => goods'[g].of # NoShop
<1>1. /\ goods \in [Goods -> GoodsRows] /\ edit \in [Editors -> EditRows]
      /\ \A e \in Editors : Proper(edit[e])
  BY ShelfIsTyped
<1>2. ASSUME NEW s \in Shops,
             CreateShop(s) \/ UpdateShop(s) \/ UpdateShopStatus(s) \/ SoftDeleteShop(s)
      PROVE  Grows
  BY <1>2, ShopMoves DEF CreateShop, UpdateShop, UpdateShopStatus, SoftDeleteShop
<1>3. ASSUME NEW g \in Goods, TakeStock(g) \/ ReturnStock(g) PROVE Grows
  BY <1>3, StockMoves
<1>4. ASSUME NEW e \in Editors,
             \/ BeginCreateCategory(e) \/ BeginUpdateCategory(e) \/ BeginDeleteCategory(e)
             \/ BeginCreateProduct(e) \/ BeginUpdateProduct(e) \/ BeginDeleteProduct(e)
             \/ CreateCategory(e) \/ SoftDeleteCategory(e) \/ DropEdit(e)
      PROVE  Grows
  <2>1. UNCHANGED <<shop, goods>>
    BY <1>4 DEF BeginCreateCategory, BeginUpdateCategory, BeginDeleteCategory,
       BeginCreateProduct, BeginUpdateProduct, BeginDeleteProduct, Open,
       CreateCategory, SoftDeleteCategory, DropEdit, Saving
  <2> QED BY <2>1
<1>5. ASSUME NEW e \in Editors, UpdateCategory(e) PROVE Grows
  <2>1. /\ UNCHANGED shop
        /\ \/ UNCHANGED goods
           \/ goods' = [g \in Goods |->
                IF g \in {h \in ProductsIn(edit[e].row) : goods[h].status = "ON_SALE"}
                THEN [goods[g] EXCEPT !.status = "OFF_SHELF"] ELSE goods[g]]
    BY <1>5 DEF UpdateCategory, Saving
  <2> QED BY <1>1, <2>1 DEF GoodsRows
<1>6. ASSUME NEW e \in Editors, CreateProduct(e) PROVE Grows
  <2>1. PICK l \in Limits : goods' = [goods EXCEPT ![edit[e].row] =
               [of |-> edit[e].of, category |-> edit[e].category, status |-> edit[e].status,
                deleted |-> FALSE, stock |-> edit[e].stock, limit |-> l]]
    BY <1>6 DEF CreateProduct
  <2>2. UNCHANGED shop /\ edit[e].row \in Goods /\ edit[e].of \in Shops
    BY <1>1, <1>6 DEF CreateProduct, Saving, Proper
  <2>3. \A g \in Goods : goods'[g].of = goods[g].of \/ goods'[g].of = edit[e].of
    BY <1>1, <2>1, <2>2
  <2> QED BY <2>2, <2>3, NoneIsNothing
<1>7. ASSUME NEW e \in Editors, UpdateProduct(e) PROVE Grows
  <2>1. PICK l \in Limits : goods' =
          [goods EXCEPT ![edit[e].row].category = edit[e].category,
                        ![edit[e].row].status = edit[e].status,
                        ![edit[e].row].stock = edit[e].stock, ![edit[e].row].limit = l]
    BY <1>7 DEF UpdateProduct
  <2>2. UNCHANGED shop /\ edit[e].row \in Goods
    BY <1>1, <1>7 DEF UpdateProduct, Saving, Proper
  <2> QED BY <1>1, <2>1, <2>2 DEF GoodsRows
<1>8. ASSUME NEW e \in Editors, SoftDeleteProduct(e) PROVE Grows
  <2>1. /\ UNCHANGED shop /\ edit[e].row \in Goods
        /\ goods' = [goods EXCEPT ![edit[e].row].status = "OFF_SHELF",
                                  ![edit[e].row].deleted = TRUE]
    BY <1>1, <1>8 DEF SoftDeleteProduct, Saving, Proper
  <2> QED BY <1>1, <2>1 DEF GoodsRows
<1> HIDE DEF Grows
<1>9. Grows
  BY <1>2, <1>3, <1>4, <1>5, <1>6, <1>7, <1>8 DEF ShelfNext
<1> QED BY <1>9 DEF Grows

\* Of the times of day, one is the earliest.
LEMMA EarliestIsATime == EarliestTime \in Times
<1>1. PICK t \in Times : t \in Nat
  BY TimesAreNumbers
<1> DEFINE spans == {0..u : u \in Times \cap (0..t)}
<1>2. spans \subseteq SUBSET (0..t) /\ spans # {} /\ IsFiniteSet(0..t)
  <2>1. \A u \in Times \cap (0..t) : 0..u \subseteq 0..t
    BY <1>1
  <2>2. t \in Times \cap (0..t)
    BY <1>1
  <2>3. IsFiniteSet(0..t)
    BY <1>1, FS_Interval
  <2> QED BY <2>1, <2>2, <2>3
<1>3. PICK s \in spans : \A r \in spans : r \subseteq s => r = s
  <2> DEFINE top == 0..t
  <2>1. IsFiniteSet(top) /\ spans \subseteq SUBSET top /\ spans # {}
    BY <1>2
  <2> HIDE DEF spans, top
  <2> QED BY <2>1, LeastSubset
<1>4. PICK u \in Times \cap (0..t) : s = 0..u
  BY <1>3
<1>5. ASSUME NEW v \in Times PROVE u <= v
  <2>1. u \in Nat /\ v \in Nat /\ u <= t
    BY <1>1, <1>4, TimesAreNumbers
  <2>2. CASE v > u
    BY <2>1, <2>2
  <2>3. CASE v <= u
    <3>1. 0..v \in spans /\ 0..v \subseteq s
      BY <1>1, <1>4, <2>1, <2>3
    <3>2. 0..v = 0..u
      BY <1>3, <1>4, <3>1
    <3> QED BY <2>1, <3>2
  <2> QED BY <2>1, <2>2, <2>3
<1> QED BY <1>4, <1>5 DEF EarliestTime

\* At first there are no delivery times.
LEMMA SlotsStart == SlotsInit => SlotsTypeOK
<1> SUFFICES ASSUME SlotsInit PROVE SlotsTypeOK
  OBVIOUS
<1>1. EarliestTime \in Times /\ 0 \in 0..LastDay
  BY EarliestIsATime, TimesAreNumbers
<1> QED BY <1>1 DEF SlotsInit, SlotsTypeOK, SlotRows, NoSlotRow

\* Every step keeps delivery times delivery times.
LEMMA SlotsKeep ==
  ASSUME SlotsTypeOK, SlotsNext PROVE SlotsTypeOK'
<1> USE DEF SlotsTypeOK
<1>1. ASSUME NEW s \in Slots, CreateSlot(s) \/ UpdateSlot(s) PROVE SlotsTypeOK'
  <2>1. PICK t \in Times, cut \in Times, on \in BOOLEAN :
          cut < t /\ slot' = [slot EXCEPT ![s] = [exists |-> TRUE, delivery |-> t,
                                                  cutoff |-> cut, enabled |-> on]]
    BY <1>1 DEF CreateSlot, UpdateSlot
  <2> DEFINE row == [exists |-> TRUE, delivery |-> t, cutoff |-> cut, enabled |-> on]
  <2>2. row \in SlotRows /\ row.cutoff < row.delivery /\ slot' = [slot EXCEPT ![s] = row]
    BY <2>1 DEF SlotRows
  <2> HIDE DEF row
  <2>3. UNCHANGED <<modes, clock>>
    BY <1>1 DEF CreateSlot, UpdateSlot
  <2> QED BY <2>2, <2>3
<1>2. ASSUME NEW s \in Slots, UpdateSlotStatus(s) PROVE SlotsTypeOK'
  <2>1. PICK on \in BOOLEAN : slot' = [slot EXCEPT ![s].enabled = on]
    BY <1>2 DEF UpdateSlotStatus
  <2>2. /\ slot' \in [Slots -> SlotRows]
        /\ \A o \in Slots : /\ slot'[o].exists = slot[o].exists
                            /\ slot'[o].cutoff = slot[o].cutoff
                            /\ slot'[o].delivery = slot[o].delivery
    BY <2>1 DEF SlotRows
  <2>3. UNCHANGED <<modes, clock>>
    BY <1>2 DEF UpdateSlotStatus
  <2> QED BY <2>2, <2>3
<1>3. CASE UpdateModes
  BY <1>3 DEF UpdateModes
<1>4. CASE ClockMoves
  <2>1. UNCHANGED <<slot, modes>>
    BY <1>4 DEF ClockMoves
  <2>2. clock' \in [day : 0..LastDay, time : Times]
    <3>1. CASE Later(clock.time)
      <4>1. PICK u \in Times : clock' = [clock EXCEPT !.time = u]
        BY <1>4, <3>1 DEF ClockMoves
      <4> QED BY <4>1
    <3>2. CASE ~Later(clock.time)
      <4>1. PICK d \in 0..LastDay : clock' = [day |-> d, time |-> EarliestTime]
        BY <1>4, <3>2 DEF ClockMoves
      <4> QED BY <4>1, EarliestIsATime
    <3> QED BY <3>1, <3>2
  <2> QED BY <2>1, <2>2
<1> QED BY <1>1, <1>2, <1>3, <1>4 DEF SlotsNext

TapRows == [kind : TapKinds, at : {"idle", "read", "write"}, item : Goods \cup {NoShop},
            replace : BOOLEAN, quantity : Quantities, maximum : Quantities, read : Baskets]

\* What CartsAreOfShops asks of a cart and of a call.
OfAShop(b) == b.row => b.of \in Shops /\ shop[b.of].status # "none"
Known(r) == /\ r.kind # "none" => r.item \in Goods
            /\ r.kind = "add" => goods[r.item].of # NoShop

\* An empty cart and no tap are a cart and a tap.
LEMMA NothingIsTyped ==
  /\ NoBasket \in Baskets /\ OfAShop(NoBasket)
  /\ NoTap \in TapRows /\ Known(NoTap)
<1>1. 0 \in Quantities
  BY MaxStockIsPositive DEF Quantities
<1>2. NoBasket \in Baskets /\ OfAShop(NoBasket)
  BY <1>1 DEF NoBasket, Baskets, OfAShop
<1>3. NoTap \in TapRows /\ Known(NoTap)
  BY <1>1, <1>2 DEF NoTap, TapRows, TapKinds, Known
<1> QED BY <1>2, <1>3

\* A new store is in order.
LEMMA StoreStart == StoreInit => StoreIInv
<1> SUFFICES ASSUME StoreInit PROVE StoreIInv
  OBVIOUS
<1>1. ShelfIInv /\ SlotsTypeOK
  BY ShelfStart, SlotsStart DEF StoreInit
<1>2. ShoppingTypeOK /\ CartsAreOfShops
  BY NothingIsTyped DEF StoreInit, ShoppingInit, ShoppingTypeOK, TapRows, CartsAreOfShops,
     OfAShop, Known, NoTap
<1> QED BY <1>1, <1>2 DEF StoreIInv

\* Every product is of a store.
LEMMA GoodsAreOfShops ==
  ASSUME ShelfIInv, NEW g \in Goods, goods[g].of # NoShop
  PROVE  /\ goods[g].of \in Shops /\ shop[goods[g].of].status # "none"
         /\ goods[g] \in GoodsRows
         /\ goods[g].category \in Categories
         /\ category[goods[g].category].of = goods[g].of
         /\ shop[goods[g].of] \in ShopRows
<1>1. goods[g] \in GoodsRows /\ goods[g].of \in Shops
  BY ShelfIsTyped DEF GoodsRows
<1> QED BY <1>1, ShelfIsTyped DEF ShelfIInv, ShelfIsWhole

\* Steps of one call on the cart.
LEMMA TapMoves ==
  ASSUME StoreIInv, NEW t \in Taps, NEW r \in TapRows, Known(r), Step(t, r),
         basket' \in Baskets, OfAShop(basket'), UNCHANGED <<shelfVars, slotVars>>
  PROVE  StoreIInv'
<1>1. tap \in [Taps -> TapRows] /\ tap' = [tap EXCEPT ![t] = r]
  BY DEF StoreIInv, ShoppingTypeOK, TapRows, Step
<1>2. /\ tap' \in [Taps -> TapRows]
      /\ \A u \in Taps : tap'[u] = IF u = t THEN r ELSE tap[u]
  BY <1>1
<1>3. UNCHANGED <<shop, category, goods, edit, overlapped, slot, modes, clock>>
  BY DEF shelfVars, slotVars
<1>4. ShelfIInv'
  BY <1>3 DEF StoreIInv, ShelfIInv, ShelfTypeOK, ShelfIsWhole, EditsAreWhole, CreatesAreApart,
     LookupsHold, ShelvesInOrder, DisabledIsOffShelf, CategoryExists, GoodsExist, ProductsIn
<1>5. SlotsTypeOK'
  BY <1>3 DEF StoreIInv, SlotsTypeOK
<1>6. ShoppingTypeOK'
  BY <1>2 DEF ShoppingTypeOK, TapRows
<1>7. CartsAreOfShops'
  BY <1>2, <1>3 DEF StoreIInv, CartsAreOfShops, OfAShop, Known
<1> QED BY <1>4, <1>5, <1>6, <1>7 DEF StoreIInv

\* The most that may be in a cart is a quantity.
LEMMA MaximumIsAQuantity ==
  ASSUME StoreIInv, NEW g \in Goods PROVE MaximumQuantity(g) \in Quantities
<1>1. goods[g] \in GoodsRows /\ MaxStock \in Nat
  BY ShelfIsTyped DEF StoreIInv
<1> QED BY <1>1 DEF GoodsRows, Limits, NoLimit, MaximumQuantity, Quantities

\* Tapping to add keeps the store in order.
LEMMA AddItemKeeps ==
  ASSUME StoreIInv, NEW t \in Taps, AddItem(t), UNCHANGED <<shelfVars, slotVars>>
  PROVE  StoreIInv'
<1>1. PICK c \in Communities, g \in Goods, n \in Quantities \ {0}, replace \in BOOLEAN :
        /\ CanAdd(g, c)
        /\ Step(t, [NoTap EXCEPT !.kind = "add", !.at = "read", !.item = g,
                                 !.replace = replace, !.quantity = n,
                                 !.maximum = MaximumQuantity(g)])
  BY DEF AddItem
<1> DEFINE m == MaximumQuantity(g)
           r == [NoTap EXCEPT !.kind = "add", !.at = "read", !.item = g,
                              !.replace = replace, !.quantity = n, !.maximum = m]
<1>2. m \in Quantities /\ goods[g].of # NoShop
  BY <1>1, MaximumIsAQuantity DEF CanAdd, GoodsExist
<1>3. Step(t, r) /\ UNCHANGED basket /\ basket \in Baskets /\ OfAShop(basket)
  BY <1>1 DEF AddItem, StoreIInv, ShoppingTypeOK, CartsAreOfShops, OfAShop
<1> HIDE DEF m
<1>4. r \in TapRows /\ Known(r)
  BY <1>2, NothingIsTyped DEF TapRows, TapKinds, Known
<1> HIDE DEF r
<1> QED BY <1>3, <1>4, TapMoves

\* What StoreIInv says of the types of carts and taps.
LEMMA CartIsTyped ==
  ASSUME StoreIInv
  PROVE  /\ basket \in Baskets /\ OfAShop(basket)
         /\ tap \in [Taps -> TapRows] /\ \A t \in Taps : tap[t] \in TapRows /\ Known(tap[t])
BY DEF StoreIInv, ShoppingTypeOK, TapRows, CartsAreOfShops, OfAShop, Known

\* Reading the cart keeps the store in order.
LEMMA ReadCartKeeps ==
  ASSUME StoreIInv, NEW t \in Taps, ReadCart(t), UNCHANGED <<shelfVars, slotVars>>
  PROVE  StoreIInv'
<1> DEFINE r == [tap[t] EXCEPT !.at = "write", !.read = basket]
<1>1. /\ basket \in Baskets /\ OfAShop(basket) /\ UNCHANGED basket
      /\ tap[t] \in TapRows /\ Known(tap[t])
  BY CartIsTyped DEF ReadCart
<1>2. r \in TapRows /\ Known(r)
  BY <1>1 DEF TapRows, Known
<1>3. Step(t, NoTap) \/ Step(t, r)
  BY DEF ReadCart, EndTap
<1> HIDE DEF r
<1> QED BY <1>1, <1>2, <1>3, NothingIsTyped, TapMoves

\* A cart with another quantity of one item.
LEMMA ItemChanges ==
  ASSUME NEW b \in Baskets, OfAShop(b), NEW g \in Goods, NEW n \in Quantities
  PROVE  [b EXCEPT !.items[g] = n] \in Baskets /\ OfAShop([b EXCEPT !.items[g] = n])
BY DEF Baskets, OfAShop

\* The cart an addition starts from is a cart.
LEMMA HeldIsTyped ==
  ASSUME StoreIInv, NEW r \in TapRows, Known(r), r.kind = "add"
  PROVE  Held(r) \in Baskets /\ OfAShop(Held(r))
<1>1. /\ basket \in Baskets /\ OfAShop(basket)
      /\ goods[r.item].of \in Shops /\ shop[goods[r.item].of].status # "none"
  BY CartIsTyped, GoodsAreOfShops DEF StoreIInv, Known
<1> DEFINE s == goods[r.item].of
           b == [NoBasket EXCEPT !.row = TRUE, !.of = s]
<1>2. b \in Baskets /\ OfAShop(b)
  BY <1>1, NothingIsTyped DEF Baskets, OfAShop
<1>3. Held(r) = NoBasket \/ Held(r) = basket \/ Held(r) = b
  BY DEF Held
<1> HIDE DEF b
<1> QED BY <1>1, <1>2, <1>3, NothingIsTyped

\* Writing the addition keeps the store in order.
LEMMA WriteCartKeeps ==
  ASSUME StoreIInv, NEW t \in Taps, WriteCart(t), UNCHANGED <<shelfVars, slotVars>>
  PROVE  StoreIInv'
<1> DEFINE r == tap[t]
           b == Held(r)
           n == b.items[r.item] + r.quantity
           filled == [b EXCEPT !.items[r.item] = n]
<1>1. /\ basket \in Baskets /\ OfAShop(basket) /\ r \in TapRows /\ Known(r)
      /\ r.kind = "add" /\ Step(t, NoTap)
  BY CartIsTyped DEF WriteCart, Tapped, EndTap
<1>2. b \in Baskets /\ OfAShop(b) /\ r.item \in Goods
  BY <1>1, HeldIsTyped DEF Known
<1>3. \/ basket' = basket
      \/ /\ basket' = filled
         /\ n <= r.maximum \/ b.items[r.item] = 0
         /\ n <= r.maximum \/ r.quantity <= r.maximum
  BY DEF WriteCart
<1> HIDE DEF b
<1>4. /\ r.maximum \in Nat /\ r.maximum <= MaxStock /\ r.quantity \in Nat
      /\ b.items[r.item] \in Nat /\ MaxStock \in Nat
  BY <1>1, <1>2, MaxStockIsPositive DEF TapRows, Baskets, Quantities
<1>5. n <= r.maximum => n \in Quantities
  BY <1>4 DEF Quantities
<1>6. b.items[r.item] = 0 /\ r.quantity <= r.maximum => n \in Quantities
  BY <1>4 DEF Quantities
<1> HIDE DEF n
<1>7. n \in Quantities => filled \in Baskets /\ OfAShop(filled)
  BY <1>2, ItemChanges
<1>8. basket' \in Baskets /\ (basket' = basket \/ basket' = filled)
  BY <1>1, <1>3, <1>5, <1>6, <1>7
<1>9. UNCHANGED shop
  BY DEF shelfVars
<1>10. OfAShop(basket')
  BY <1>1, <1>3, <1>5, <1>6, <1>7
<1> QED BY <1>1, <1>8, <1>10, NothingIsTyped, TapMoves

\* Beginning to change a quantity keeps the store in order.
LEMMA UpdateItemKeeps ==
  ASSUME StoreIInv, NEW t \in Taps, UpdateItem(t) \/ ReadItem(t),
         UNCHANGED <<shelfVars, slotVars>>
  PROVE  StoreIInv'
<1>1. basket \in Baskets /\ OfAShop(basket) /\ UNCHANGED basket
  BY CartIsTyped DEF UpdateItem, ReadItem
<1>2. CASE UpdateItem(t)
  <2>1. PICK g \in Goods, n \in Quantities :
          Step(t, [NoTap EXCEPT !.kind = "set", !.at = "write", !.item = g, !.quantity = n])
    BY <1>2 DEF UpdateItem, In
  <2> DEFINE r == [NoTap EXCEPT !.kind = "set", !.at = "write", !.item = g, !.quantity = n]
  <2>2. r \in TapRows /\ Known(r) /\ Step(t, r)
    BY <2>1, NothingIsTyped DEF TapRows, TapKinds, Known
  <2> HIDE DEF r
  <2> QED BY <1>1, <2>2, TapMoves
<1>3. CASE ReadItem(t)
  <2>1. PICK g \in Goods :
          Step(t, [NoTap EXCEPT !.kind = "remove", !.at = "write", !.item = g, !.read = basket])
    BY <1>3 DEF ReadItem, In
  <2> DEFINE r == [NoTap EXCEPT !.kind = "remove", !.at = "write", !.item = g, !.read = basket]
  <2>2. r \in TapRows /\ Known(r) /\ Step(t, r)
    BY <1>1, <2>1, NothingIsTyped DEF TapRows, TapKinds, Known
  <2> HIDE DEF r
  <2> QED BY <1>1, <2>2, TapMoves
<1> QED BY <1>2, <1>3

\* Changing a quantity, or removing an item, keeps the store in order.
LEMMA SetOrRemoveKeeps ==
  ASSUME StoreIInv, NEW t \in Taps, SetItemQuantity(t) \/ RemoveItem(t),
         UNCHANGED <<shelfVars, slotVars>>
  PROVE  StoreIInv'
<1> DEFINE r == tap[t]
           g == r.item
           set == [basket EXCEPT !.items[g] = r.quantity]
           removed == [basket EXCEPT !.items[g] = 0]
<1>1. /\ basket \in Baskets /\ OfAShop(basket) /\ Step(t, NoTap)
      /\ r \in TapRows /\ Known(r) /\ r.kind # "none"
  BY CartIsTyped DEF SetItemQuantity, RemoveItem, Tapped, EndTap
<1>2. g \in Goods /\ r.quantity \in Quantities /\ 0 \in Quantities
  BY <1>1, MaxStockIsPositive DEF Known, TapRows, Quantities
<1>3. /\ set \in Baskets /\ OfAShop(set)
      /\ removed \in Baskets /\ OfAShop(removed)
  BY <1>1, <1>2, ItemChanges
<1>4. basket' = basket \/ basket' = set \/ basket' = removed \/ basket' = NoBasket
  BY DEF SetItemQuantity, RemoveItem
<1>5. UNCHANGED shop
  BY DEF shelfVars
<1>6. basket' \in Baskets /\ OfAShop(basket')
  BY <1>1, <1>3, <1>4, NothingIsTyped
<1> QED BY <1>1, <1>6, NothingIsTyped, TapMoves

\* Steps of the shelf, whoever takes them, leave the cart a cart.
LEMMA CartStays ==
  ASSUME StoreIInv, ShelfIInv', UNCHANGED <<slotVars, shoppingVars>>,
         \A s \in Shops : shop[s].status # "none" => shop'[s].status # "none",
         \A g \in Goods : goods[g].of # NoShop => goods'[g].of # NoShop
  PROVE  StoreIInv'
<1>1. UNCHANGED <<slot, modes, clock, basket, tap>>
  BY DEF slotVars, shoppingVars
<1>2. SlotsTypeOK' /\ ShoppingTypeOK'
  BY <1>1 DEF StoreIInv, SlotsTypeOK, ShoppingTypeOK
<1>3. CartsAreOfShops'
  BY <1>1, ShelfIsTyped DEF StoreIInv, CartsAreOfShops
<1> QED BY <1>2, <1>3 DEF StoreIInv

\* Every step keeps the store's invariant.
LEMMA StoreKeeps ==
  ASSUME StoreIInv, [StoreNext]_StoreVars PROVE StoreIInv'
<1>1. ASSUME UNCHANGED <<shelfVars, slotVars, shoppingVars>> PROVE StoreIInv'
  BY <1>1 DEF shelfVars, slotVars, shoppingVars, StoreIInv, ShelfIInv, ShelfTypeOK, ShelfIsWhole,
     EditsAreWhole, CreatesAreApart, LookupsHold, ShelvesInOrder, DisabledIsOffShelf, CategoryExists, GoodsExist,
     ProductsIn, SlotsTypeOK, ShoppingTypeOK, CartsAreOfShops
<1>2. CASE UNCHANGED StoreVars
  BY <1>1, <1>2 DEF StoreVars
<1>3. CASE ShelfNext /\ UNCHANGED <<slotVars, shoppingVars>>
  BY <1>3, ShelfKeeps, ShelfGrows, CartStays DEF StoreIInv
<1>4. CASE SlotsNext /\ UNCHANGED <<community, shelfVars, shoppingVars>>
  <2>1. SlotsTypeOK'
    BY <1>4, SlotsKeep DEF StoreIInv
  <2>2. UNCHANGED <<shop, category, goods, edit, overlapped, basket, tap>>
    BY <1>4 DEF shelfVars, shoppingVars
  <2>3. ShelfIInv'
    BY <2>2 DEF StoreIInv, ShelfIInv, ShelfTypeOK, ShelfIsWhole, EditsAreWhole,
       CreatesAreApart, LookupsHold, ShelvesInOrder, DisabledIsOffShelf, CategoryExists, GoodsExist, ProductsIn
  <2>4. ShoppingTypeOK' /\ CartsAreOfShops'
    BY <2>2 DEF StoreIInv, ShoppingTypeOK, CartsAreOfShops
  <2> QED BY <2>1, <2>3, <2>4 DEF StoreIInv
<1>5. ASSUME NEW s \in Shops, UpdateShopStatus(s), UNCHANGED <<slotVars, shoppingVars>>
      PROVE  StoreIInv'
  <2>1. ShelfIInv' /\ \A t \in Shops : shop[t].status # "none" => shop'[t].status # "none"
    BY <1>5, ShopMoves DEF StoreIInv
  <2>2. UNCHANGED goods
    BY <1>5 DEF UpdateShopStatus
  <2> QED BY <1>5, <2>1, <2>2, CartStays
<1>6. ASSUME NEW g \in Goods, TakeStock(g), UNCHANGED <<slotVars, shoppingVars>>
      PROVE  StoreIInv'
  <2>1. ShelfIInv' /\ (\A h \in Goods : goods'[h].of = goods[h].of) /\ UNCHANGED shop
    BY <1>6, StockMoves DEF StoreIInv
  <2> QED BY <1>6, <2>1, CartStays
<1>7. ASSUME NEW t \in Taps, DropTap(t), UNCHANGED <<shelfVars, slotVars>> PROVE StoreIInv'
  BY <1>7, CartIsTyped, NothingIsTyped, TapMoves DEF DropTap, EndTap
<1>8. ASSUME ClearCart, UNCHANGED <<shelfVars, slotVars>> PROVE StoreIInv'
  <2>1. basket' = NoBasket /\ UNCHANGED <<tap, shop, category, goods, edit, overlapped, slot,
                                          modes, clock>>
    BY <1>8 DEF ClearCart, shelfVars, slotVars
  <2>2. ShelfIInv' /\ SlotsTypeOK'
    BY <2>1 DEF StoreIInv, ShelfIInv, ShelfTypeOK, ShelfIsWhole, EditsAreWhole,
       CreatesAreApart, LookupsHold, ShelvesInOrder, DisabledIsOffShelf, CategoryExists, GoodsExist, ProductsIn,
       SlotsTypeOK
  <2>3. ShoppingTypeOK' /\ CartsAreOfShops'
    BY <2>1, NothingIsTyped DEF StoreIInv, ShoppingTypeOK, CartsAreOfShops, NoBasket
  <2> QED BY <2>2, <2>3 DEF StoreIInv
<1>9. CASE ShoppingNext
  BY <1>1, <1>5, <1>6, <1>7, <1>8, <1>9, AddItemKeeps, ReadCartKeeps, WriteCartKeeps,
     UpdateItemKeeps, SetOrRemoveKeeps DEF ShoppingNext, shoppingVars
<1> QED BY <1>2, <1>3, <1>4, <1>9 DEF StoreNext

\* The three places that decide whether something can be bought agree in every state of
\* the invariant, by the product's and the store's rows alone.
LEMMA PagesAndCartAgree ==
  ASSUME StoreIInv, NEW c \in Communities, NEW g \in Goods
  PROVE  CanPurchase(g, c) <=> CanAdd(g, c)
<1>1. CASE goods[g].of = NoShop
  BY <1>1 DEF CanPurchase, VisibleGoods, CanAdd, GoodsExist
<1>2. CASE goods[g].of # NoShop
  <2>1. /\ goods[g].of \in Shops /\ shop[goods[g].of].status # "none"
        /\ goods[g] \in GoodsRows /\ shop[goods[g].of] \in ShopRows
        /\ goods[g].category \in Categories /\ category[goods[g].category].of # NoShop
    BY <1>2, GoodsAreOfShops DEF StoreIInv
  <2>2. /\ shop[goods[g].of].status \in {"OPEN", "PAUSED", "DISABLED"}
        /\ goods[g].status \in {"ON_SALE", "SOLD_OUT", "OFF_SHELF"}
    BY <2>1 DEF GoodsRows, ShopRows, GoodsStatus, ShopStatus
  <2> QED
    BY <2>1, <2>2 DEF CanPurchase, VisibleGoods, VisibleShops, VisibleCategories, CanOrder,
       DisplayStatus, CanAdd, OnOffer, GoodsExist, ShopExists, CategoryExists, DeliveredTo
<1> QED BY <1>1, <1>2

\* Of a cart of one store, the cart and the order ask the same.
LEMMA CartAndOrderAgree ==
  ASSUME StoreIInv, NEW c \in Communities, NEW b \in Carts
  PROVE  Orderable(b, c) <=> CanCheckout(b, c) /\ \A g \in In(b) : goods[g].of = b.of
<1>1. b.row => b.of \in Shops /\ shop[b.of].status # "none"
  <2>1. CASE b = basket
    BY <2>1, CartIsTyped DEF OfAShop
  <2>2. ASSUME NEW g \in Goods, goods[g].of # NoShop, NEW n, b = CartOf(g, n)
        PROVE  b.of \in Shops /\ shop[b.of].status # "none"
    BY <2>2, GoodsAreOfShops DEF CartOf, StoreIInv
  <2> QED BY <2>1, <2>2 DEF Carts
<1>2. b.row => shop[b.of].status \in {"OPEN", "PAUSED", "DISABLED"}
  BY <1>1, ShelfIsTyped DEF StoreIInv, ShopRows, ShopStatus
<1> QED
  BY <1>2 DEF Orderable, CanCheckout, ItemAvailable, DeliveredTo, OnOffer

\* The two counters agree wherever the invariant holds.
LEMMA AgreementIsKept == StoreIInv => CountersAgree
<1> SUFFICES ASSUME StoreIInv PROVE CountersAgree
  OBVIOUS
<1>1. ASSUME NEW d \in 0..(LastDay + 8), NEW s \in Slots
      PROVE  AcceptsTime(d, s) <=> /\ modes.scheduled
                                   /\ d \in DateOptions /\ s \in SlotOptions
                                   /\ ~CutOff(d, s)
  <2>1. clock.day \in Int /\ d \in Int
    BY TimesAreNumbers DEF StoreIInv, SlotsTypeOK
  <2> QED BY <2>1 DEF AcceptsTime, DateOptions, SlotOptions, CutOff
<1> QED BY <1>1, PagesAndCartAgree, CartAndOrderAgree DEF CountersAgree

\* The store is always in order.
LEMMA StoreInvariance == StoreSpec => []StoreIInv
<1>1. StoreIInv /\ [StoreNext]_StoreVars => StoreIInv'
  BY StoreKeeps
<1> QED BY <1>1, StoreStart, PTL DEF StoreSpec

\* What is on sale is in a category that is switched on, as long as edits do not overlap
\* (catalog.service.ts, catalog.repository.ts), while residents shop and orders take stock.
THEOREM ShelvesStayInOrder == StoreSpec => []ShelvesInOrder
<1>1. StoreIInv => ShelvesInOrder
  BY DEF StoreIInv, ShelfIInv
<1> QED BY <1>1, StoreInvariance, PTL

\* What a page offers the cart takes, what a cart says can be checked out the order takes,
\* and the delivery times on offer are those accepted (order.service.ts calculateCheckout),
\* whatever edits and calls are under way.
THEOREM CountersAlwaysAgree == StoreSpec => []CountersAgree
BY StoreInvariance, AgreementIsKept, PTL

-----------------------------------------------------------------------------
(* AdminAlerts *)

AlertStates == {"none", "UNREAD", "READ", "RESOLVED"}
RefreshRows == [at : {"idle", "reopen", "create", "resolve", "end"},
                found : SUBSET Matters, lasting : SUBSET Matters]

\* At first there is nothing to raise.
LEMMA AlertsStart == AlertsInit => AlertsIInv
<1> SUFFICES ASSUME AlertsInit PROVE AlertsIInv
  OBVIOUS
<1> USE DEF AlertsInit, NoRefresh
<1>1. AlertsTypeOK
  BY DEF AlertsTypeOK
<1>2. AlertsHaveCause
  BY DEF AlertsHaveCause, Of
<1> QED BY <1>1, <1>2 DEF AlertsIInv, RefreshesProgress

\* Steps of a refresh other than its first: alerts change so that those of matters that
\* are not due, at most, are resolved, and none is lost.
LEMMA RefreshMoves ==
  ASSUME AlertsIInv, NEW r \in Refreshers, NEW to \in {"create", "resolve", "end"},
         RefreshTo(r, to), UNCHANGED <<matter, reading>>,
         alert' \in [Matters -> AlertStates],
         \A m \in Matters :
           /\ alert[m] # "none" => alert'[m] # "none"
           /\ alert[m] = "none" /\ alert'[m] # "none" => m \in refresh[r].found
           /\ alert'[m] = "RESOLVED" => alert[m] = "RESOLVED" \/ matter[m] # "due",
         \A m \in refresh[r].lasting :
           /\ to = "create" => /\ alert'[m] # "RESOLVED"
                               /\ alert'[m] # "none" \/ m \in refresh[r].found
           /\ to \in {"resolve", "end"} => alert'[m] \in {"UNREAD", "READ"}
  PROVE  AlertsIInv'
<1>1. refresh \in [Refreshers -> RefreshRows]
  BY DEF AlertsIInv, AlertsTypeOK, RefreshRows
<1>2. \A q \in Refreshers : /\ refresh'[q] \in RefreshRows
                            /\ refresh'[q].found = refresh[q].found
                            /\ refresh'[q].lasting = refresh[q].lasting
                            /\ refresh'[q].at = IF q = r THEN to ELSE refresh[q].at
  BY <1>1 DEF RefreshTo, RefreshRows
<1>3. refresh' \in [Refreshers -> RefreshRows]
  BY <1>1, <1>2 DEF RefreshTo
<1>4. AlertsTypeOK'
  BY <1>3 DEF AlertsIInv, AlertsTypeOK, AlertStates, RefreshRows
<1>5. \A m \in Matters : matter[m] = "before" => alert'[m] = "none"
  BY DEF AlertsIInv, AlertsTypeOK, AlertsHaveCause
<1>6. AlertsHaveCause'
  <2>1. \A m \in Matters : matter'[m] = "before" =>
          alert'[m] = "none" /\ \A q \in Refreshers : m \notin refresh'[q].found
    BY <1>2, <1>5 DEF AlertsIInv, AlertsHaveCause
  <2>2. \A m \in Of({"NEW_PAID_ORDER", "REFUND_REQUEST"}) :
          matter'[m] = "due" => alert'[m] # "RESOLVED"
    BY DEF AlertsIInv, AlertsHaveCause, Of
  <2>3. \A a \in Readers : reading'[a] # NoMatter => alert'[reading'[a]] # "none"
    BY DEF AlertsIInv, AlertsTypeOK, AlertsHaveCause
  <2> QED BY <2>1, <2>2, <2>3 DEF AlertsHaveCause
<1>7. RefreshesProgress'
  <2> SUFFICES ASSUME NEW q \in Refreshers, NEW m \in refresh'[q].lasting
               PROVE  /\ matter'[m] = "due"
                      /\ refresh'[q].at \in {"reopen", "create"} =>
                           alert'[m] # "none" \/ m \in refresh'[q].found
                      /\ refresh'[q].at = "create" => alert'[m] # "RESOLVED"
                      /\ refresh'[q].at \in {"resolve", "end"} => alert'[m] \in {"UNREAD", "READ"}
    BY DEF RefreshesProgress
  <2>1. m \in Matters /\ m \in refresh[q].lasting /\ matter[m] = "due"
    BY <1>1, <1>2 DEF RefreshRows, AlertsIInv, RefreshesProgress
  <2>2. CASE q = r
    BY <1>2, <2>1, <2>2
  <2>3. CASE q # r
    <3>1. alert'[m] \in AlertStates
      BY <2>1
    <3> QED
      BY <1>2, <2>1, <2>3, <3>1 DEF AlertsIInv, RefreshesProgress, AlertStates
  <2> QED BY <2>2, <2>3
<1> QED BY <1>4, <1>6, <1>7 DEF AlertsIInv

\* Raising again what was resolved keeps the invariant.
LEMMA ReopenKeeps ==
  ASSUME AlertsIInv, NEW r \in Refreshers, Reopen(r) PROVE AlertsIInv'
<1>1. /\ RefreshTo(r, "create") /\ UNCHANGED <<matter, reading>>
      /\ refresh[r].at = "reopen"
  BY DEF Reopen
<1>2. alert \in [Matters -> AlertStates] /\ refresh[r].lasting \subseteq Matters
  BY DEF AlertsIInv, AlertsTypeOK, AlertStates
<1>3. /\ alert' \in [Matters -> AlertStates]
      /\ \A m \in Matters :
           alert'[m] = IF /\ m \in Due \cap Of({"UNACCEPTED_ORDER", "LOW_STOCK"})
                          /\ alert[m] = "RESOLVED"
                       THEN "UNREAD" ELSE alert[m]
  BY <1>2 DEF Reopen, AlertStates
<1>4. \A m \in refresh[r].lasting : alert'[m] # "RESOLVED"
  <2> SUFFICES ASSUME NEW m \in refresh[r].lasting, alert[m] = "RESOLVED"
               PROVE  m \in Due \cap Of({"UNACCEPTED_ORDER", "LOW_STOCK"})
    BY <1>2, <1>3
  <2>1. m \in Matters /\ matter[m] = "due" /\ KindOf[m] \in AlertKinds
    BY <1>2, AlertsHaveKinds DEF AlertsIInv, RefreshesProgress
  <2>2. m \notin Of({"NEW_PAID_ORDER", "REFUND_REQUEST"})
    BY <2>1 DEF AlertsIInv, AlertsHaveCause
  <2> QED BY <2>1, <2>2 DEF Of, Due, AlertKinds
<1>5. \A m \in refresh[r].lasting : alert'[m] # "none" \/ m \in refresh[r].found
  BY <1>1, <1>2, <1>3 DEF AlertsIInv, RefreshesProgress
<1> QED BY <1>1, <1>3, <1>4, <1>5, RefreshMoves

\* Raising what is new keeps it.
LEMMA CreateAlertsKeeps ==
  ASSUME AlertsIInv, NEW r \in Refreshers, CreateAlerts(r) PROVE AlertsIInv'
<1>1. /\ RefreshTo(r, "resolve") /\ UNCHANGED <<matter, reading>>
      /\ refresh[r].at = "create"
  BY DEF CreateAlerts
<1>2. alert \in [Matters -> AlertStates] /\ refresh[r].lasting \subseteq Matters
  BY DEF AlertsIInv, AlertsTypeOK, AlertStates
<1>3. /\ alert' \in [Matters -> AlertStates]
      /\ \A m \in Matters : alert'[m] = IF m \in refresh[r].found /\ alert[m] = "none"
                                        THEN "UNREAD" ELSE alert[m]
  BY <1>2 DEF CreateAlerts, AlertStates
<1>4. \A m \in refresh[r].lasting : alert'[m] \in {"UNREAD", "READ"}
  BY <1>1, <1>2, <1>3 DEF AlertsIInv, RefreshesProgress, AlertStates
<1> QED BY <1>1, <1>3, <1>4, RefreshMoves

\* Resolving what is over keeps it.
LEMMA ResolveAlertsKeeps ==
  ASSUME AlertsIInv, NEW r \in Refreshers, ResolveAlerts(r) PROVE AlertsIInv'
<1>1. /\ RefreshTo(r, "end") /\ UNCHANGED <<matter, reading>>
      /\ refresh[r].at = "resolve"
  BY DEF ResolveAlerts
<1>2. alert \in [Matters -> AlertStates] /\ refresh[r].lasting \subseteq Matters
  BY DEF AlertsIInv, AlertsTypeOK, AlertStates
<1>3. /\ alert' \in [Matters -> AlertStates]
      /\ \A m \in Matters :
           alert'[m] = IF /\ m \notin Due /\ KindOf[m] # "NEW_PAID_ORDER"
                          /\ alert[m] \in {"UNREAD", "READ"}
                       THEN "RESOLVED" ELSE alert[m]
  BY <1>2 DEF ResolveAlerts, AlertStates
<1>4. \A m \in refresh[r].lasting : alert'[m] \in {"UNREAD", "READ"}
  BY <1>1, <1>2, <1>3 DEF AlertsIInv, RefreshesProgress, Due
<1>5. \A m \in Matters : alert'[m] = "RESOLVED" => alert[m] = "RESOLVED" \/ matter[m] # "due"
  BY <1>3 DEF Due
<1> QED BY <1>1, <1>3, <1>4, <1>5, RefreshMoves

\* What a refresh takes on is due, and has an alert or is a candidate.
LEMMA ReadAlertCandidatesKeeps ==
  ASSUME AlertsIInv, NEW r \in Refreshers, ReadAlertCandidates(r) PROVE AlertsIInv'
<1> DEFINE limited == {"NEW_PAID_ORDER", "UNACCEPTED_ORDER", "REFUND_REQUEST"}
           unknown(k) == {m \in Due \cap Of({k}) : alert[m] = "none"}
<1>1. PICK S \in SUBSET {m \in Due : alert[m] = "none"} :
        /\ S \subseteq Of(limited)
        /\ refresh' = [refresh EXCEPT ![r] =
             [at |-> "reopen", found |-> S \cup (Due \cap Of({"LOW_STOCK"})),
              lasting |-> Due \ ((UNION {unknown(k) : k \in limited}) \ S)]]
  BY DEF ReadAlertCandidates
<1> DEFINE found == S \cup (Due \cap Of({"LOW_STOCK"}))
           lasting == Due \ ((UNION {unknown(k) : k \in limited}) \ S)
<1>2. \A m \in lasting : alert[m] # "none" \/ m \in found
  <2> SUFFICES ASSUME NEW m \in Due, alert[m] = "none", m \notin found
               PROVE  m \in (UNION {unknown(k) : k \in limited}) \ S
    OBVIOUS
  <2>1. m \in Matters /\ KindOf[m] \in AlertKinds
    BY AlertsHaveKinds DEF Due
  <2>2. KindOf[m] \in limited
    BY <2>1 DEF AlertKinds, Of
  <2>3. m \in unknown(KindOf[m]) /\ m \notin S
    BY <2>1 DEF Of
  <2> QED BY <2>2, <2>3
<1>3. found \subseteq Due /\ lasting \subseteq Due /\ Due \subseteq Matters
  BY DEF Due
<1>4. UNCHANGED <<matter, alert, reading>>
  BY DEF ReadAlertCandidates
<1>5. refresh' = [refresh EXCEPT ![r] = [at |-> "reopen", found |-> found, lasting |-> lasting]]
  BY <1>1
<1> HIDE DEF found, lasting
<1>6. refresh \in [Refreshers -> RefreshRows]
  BY DEF AlertsIInv, AlertsTypeOK, RefreshRows
<1>7. /\ refresh' \in [Refreshers -> RefreshRows]
      /\ refresh'[r].at = "reopen" /\ refresh'[r].found = found
      /\ refresh'[r].lasting = lasting
      /\ \A q \in Refreshers \ {r} : refresh'[q] = refresh[q]
  BY <1>3, <1>5, <1>6 DEF RefreshRows
<1>8. AlertsTypeOK'
  BY <1>4, <1>7 DEF AlertsIInv, AlertsTypeOK, RefreshRows
<1>9. AlertsHaveCause'
  BY <1>3, <1>4, <1>7 DEF AlertsIInv, AlertsHaveCause, Due
<1>10. RefreshesProgress'
  BY <1>2, <1>3, <1>4, <1>7 DEF AlertsIInv, RefreshesProgress, Due
<1> QED BY <1>8, <1>9, <1>10 DEF AlertsIInv

\* The end of a refresh keeps it.
LEMMA EndRefreshKeeps ==
  ASSUME AlertsIInv, NEW r \in Refreshers, EndRefresh(r) PROVE AlertsIInv'
<1>1. /\ refresh' = [refresh EXCEPT ![r] = NoRefresh] /\ UNCHANGED <<matter, alert, reading>>
      /\ refresh \in [Refreshers -> RefreshRows] /\ NoRefresh \in RefreshRows
  BY DEF EndRefresh, AlertsIInv, AlertsTypeOK, RefreshRows, NoRefresh
<1>2. /\ refresh' \in [Refreshers -> RefreshRows]
      /\ refresh'[r].found = {} /\ refresh'[r].lasting = {}
      /\ \A q \in Refreshers \ {r} : refresh'[q] = refresh[q]
  BY <1>1 DEF NoRefresh
<1>3. AlertsTypeOK'
  BY <1>1, <1>2 DEF AlertsIInv, AlertsTypeOK, RefreshRows
<1> QED
  BY <1>1, <1>2, <1>3 DEF AlertsIInv, AlertsHaveCause, RefreshesProgress

\* So does anything that becomes due.
LEMMA BecomesDueKeeps ==
  ASSUME AlertsIInv, NEW m \in Matters, BecomesDue(m) PROVE AlertsIInv'
<1>1. /\ matter \in [Matters -> {"before", "due", "over"}]
      /\ matter' = [matter EXCEPT ![m] = "due"] /\ UNCHANGED <<alert, refresh, reading>>
      /\ matter[m] = "before" \/ m \in Of({"UNACCEPTED_ORDER", "LOW_STOCK"})
  BY DEF BecomesDue, AlertsIInv, AlertsTypeOK
<1>2. matter'[m] = "due" /\ \A n \in Matters \ {m} : matter'[n] = matter[n]
  BY <1>1
<1>3. AlertsTypeOK'
  BY <1>1 DEF AlertsIInv, AlertsTypeOK
<1>4. m \in Of({"NEW_PAID_ORDER", "REFUND_REQUEST"}) => alert[m] = "none"
  BY <1>1 DEF Of, AlertsIInv, AlertsHaveCause
<1>5. AlertsHaveCause'
  BY <1>1, <1>2, <1>4 DEF AlertsIInv, AlertsHaveCause, Of
<1>6. RefreshesProgress'
  BY <1>1, <1>2 DEF AlertsIInv, RefreshesProgress, AlertsTypeOK
<1> QED BY <1>3, <1>5, <1>6 DEF AlertsIInv

\* So does anything that is settled.
LEMMA SettlesKeeps ==
  ASSUME AlertsIInv, NEW m \in Matters, Settles(m) PROVE AlertsIInv'
<1>1. /\ matter \in [Matters -> {"before", "due", "over"}]
      /\ matter' = [matter EXCEPT ![m] = "over"] /\ UNCHANGED <<alert, reading>>
      /\ refresh' = [r \in Refreshers |-> [refresh[r] EXCEPT !.lasting = @ \ {m}]]
      /\ refresh \in [Refreshers -> RefreshRows]
  BY DEF Settles, AlertsIInv, AlertsTypeOK, RefreshRows
<1>2. matter'[m] = "over" /\ \A n \in Matters \ {m} : matter'[n] = matter[n]
  BY <1>1
<1>3. \A r \in Refreshers : /\ refresh'[r] \in RefreshRows
                            /\ refresh'[r].at = refresh[r].at
                            /\ refresh'[r].found = refresh[r].found
                            /\ refresh'[r].lasting = refresh[r].lasting \ {m}
  BY <1>1 DEF RefreshRows
<1>4. refresh' \in [Refreshers -> RefreshRows]
  BY <1>1, <1>3
<1>5. AlertsTypeOK'
  BY <1>1, <1>4 DEF AlertsIInv, AlertsTypeOK, RefreshRows
<1>6. AlertsHaveCause'
  BY <1>1, <1>2, <1>3 DEF AlertsIInv, AlertsHaveCause, Of
<1>7. RefreshesProgress'
  <2>1. \A r \in Refreshers : refresh'[r].lasting \subseteq Matters \ {m}
    BY <1>1, <1>3 DEF RefreshRows
  <2> QED BY <1>1, <1>2, <1>3, <2>1 DEF AlertsIInv, RefreshesProgress
<1> QED BY <1>5, <1>6, <1>7 DEF AlertsIInv

\* An administrator marks as read what was unread, whatever it is by then.
LEMMA ReadersKeep ==
  ASSUME AlertsIInv, NEW a \in Readers, FindAlert(a) \/ MarkRead(a) PROVE AlertsIInv'
<1> USE DEF AlertsIInv, AlertsTypeOK
<1>1. CASE FindAlert(a)
  <2>1. PICK m \in Matters : alert[m] = "UNREAD" /\ reading' = [reading EXCEPT ![a] = m]
    BY <1>1 DEF FindAlert
  <2>2. UNCHANGED <<matter, alert, refresh>>
    BY <1>1 DEF FindAlert
  <2>3. reading'[a] = m /\ \A b \in Readers \ {a} : reading'[b] = reading[b]
    BY <2>1
  <2>4. AlertsTypeOK'
    BY <2>1, <2>2
  <2>5. AlertsHaveCause' /\ RefreshesProgress'
    BY <2>1, <2>2, <2>3 DEF AlertsHaveCause, RefreshesProgress
  <2> QED BY <2>4, <2>5
<1>2. CASE MarkRead(a)
  <2> DEFINE m == reading[a]
  <2>1. /\ m \in Matters /\ alert[m] # "none"
        /\ alert' = [alert EXCEPT ![m] = "READ"]
        /\ reading' = [reading EXCEPT ![a] = NoMatter]
        /\ UNCHANGED <<matter, refresh>>
    BY <1>2 DEF MarkRead, AlertsHaveCause
  <2>2. alert'[m] = "READ" /\ \A n \in Matters \ {m} : alert'[n] = alert[n]
    BY <2>1
  <2>3. AlertsTypeOK'
    BY <2>1
  <2>4. AlertsHaveCause'
    BY <2>1, <2>2 DEF AlertsHaveCause, Of
  <2>5. RefreshesProgress'
    BY <2>1, <2>2 DEF RefreshesProgress
  <2> QED BY <2>3, <2>4, <2>5
<1> QED BY <1>1, <1>2

\* Every step keeps the alerts' invariant.
LEMMA AlertsKeep == AlertsIInv /\ [AlertsNext]_alertVars => AlertsIInv'
<1> SUFFICES ASSUME AlertsIInv, [AlertsNext]_alertVars PROVE AlertsIInv'
  OBVIOUS
<1>1. CASE UNCHANGED alertVars
  BY <1>1 DEF alertVars, AlertsIInv, AlertsTypeOK, AlertsHaveCause, RefreshesProgress
<1> QED
  BY <1>1, BecomesDueKeeps, SettlesKeeps, ReadAlertCandidatesKeeps, ReopenKeeps,
     CreateAlertsKeeps, ResolveAlertsKeeps, EndRefreshKeeps, ReadersKeep DEF AlertsNext

\* Alerts are always in order.
LEMMA AlertsInvariance == AlertsSpec => []AlertsIInv
BY AlertsStart, AlertsKeep, PTL DEF AlertsSpec

\* A refresh raises what was due while it ran, with any number of other refreshes and
\* of administrators reading (notification.repository.ts, refreshAdminAlerts).
THEOREM AlertsAreRaised == AlertsSpec => []RaisedInTime
<1>1. AlertsIInv => RaisedInTime
  BY DEF AlertsIInv, RefreshesProgress, RaisedInTime
<1> QED BY <1>1, AlertsInvariance, PTL

-----------------------------------------------------------------------------
(* AccessTokens *)

\* At first there is no token.
LEMMA TokensStart == TokensInit => TokensIInv
<1> SUFFICES ASSUME TokensInit PROVE TokensIInv
  OBVIOUS
<1> USE DEF TokensInit, NoCaller, NoToken
<1>1. TokensTypeOK
  BY CallersHaveProviders DEF TokensTypeOK, Providers
<1> QED BY <1>1 DEF TokensIInv, SecondTriesAreFresh, OnlySecondTriesFail

CallerRows == [at : {"idle", "token", "fetch", "fetched", "request", "refused", "done", "failed"},
               token : 0..MaxTokens, again : BOOLEAN, disturbed : BOOLEAN]

\* Steps that change one call, and neither the tokens nor the others.
LEMMA CallerMoves ==
  ASSUME TokensIInv, NEW c \in Callers, NEW r \in CallerRows, CallerAt(c, r),
         UNCHANGED <<issued, good>>, cached' \in [Providers -> 0..MaxTokens],
         r.again => /\ r.at \in {"fetched", "request"} => r.token \in good \/ r.disturbed
                    /\ r.at \in {"refused", "failed"} => r.disturbed,
         r.at = "failed" => r.again
  PROVE  TokensIInv'
<1>1. caller' = [caller EXCEPT ![c] = r] /\ caller \in [Callers -> CallerRows]
  BY DEF CallerAt, TokensIInv, TokensTypeOK, CallerRows
<1>2. caller' \in [Callers -> CallerRows]
  BY <1>1
<1>3. TokensTypeOK'
  BY <1>2 DEF TokensIInv, TokensTypeOK, CallerRows
<1>4. \A d \in Callers : caller'[d] = IF d = c THEN r ELSE caller[d]
  BY <1>1
<1> QED BY <1>3, <1>4 DEF TokensIInv, SecondTriesAreFresh, OnlySecondTriesFail

\* Tokens that end disturb exactly the second tries that hold them.
LEMMA DisturbFacts ==
  ASSUME TokensIInv, NEW S, NEW d \in Callers
  PROVE  /\ Disturb(S)[d] \in CallerRows
         /\ Disturb(S)[d].at = caller[d].at /\ Disturb(S)[d].token = caller[d].token
         /\ Disturb(S)[d].again = caller[d].again
         /\ Disturb(S)[d].disturbed <=>
              caller[d].disturbed \/ (caller[d].again /\ caller[d].token \in S)
<1> DEFINE b == caller[d].disturbed \/ (caller[d].again /\ caller[d].token \in S)
<1>1. caller[d] \in CallerRows
  BY DEF TokensIInv, TokensTypeOK, CallerRows
<1>2. Disturb(S)[d] = [caller[d] EXCEPT !.disturbed = b]
  BY DEF Disturb
<1>3. b \in BOOLEAN
  BY <1>1 DEF CallerRows
<1>4. b <=> caller[d].disturbed \/ (caller[d].again /\ caller[d].token \in S)
  OBVIOUS
<1> HIDE DEF b
<1> QED BY <1>1, <1>2, <1>3, <1>4 DEF CallerRows

\* The end of a token, at WeChat, keeps the invariant.
LEMMA EndTokenKeeps ==
  ASSUME TokensIInv, NEW t \in Tokens, EndToken(t) PROVE TokensIInv'
<1>1. /\ caller' = Disturb({t}) /\ good' = good \ {t} /\ UNCHANGED <<issued, cached>>
  BY DEF EndToken
<1>2. caller' \in [Callers -> CallerRows]
  BY <1>1, DisturbFacts DEF Disturb
<1>3. TokensTypeOK'
  BY <1>1, <1>2 DEF TokensIInv, TokensTypeOK, CallerRows
<1> QED
  BY <1>1, <1>3, DisturbFacts DEF TokensIInv, SecondTriesAreFresh, OnlySecondTriesFail

\* Issuing a token keeps it.
LEMMA IssueTokenKeeps ==
  ASSUME TokensIInv, NEW c \in Callers, IssueToken(c) PROVE TokensIInv'
<1> DEFINE t == issued + 1
<1>1. /\ issued' = t /\ t \in 1..MaxTokens
      /\ UNCHANGED cached
      /\ issued \in Nat
  BY CallersHaveProviders DEF IssueToken, TokensIInv, TokensTypeOK
<1>2. PICK S \in {{}, good} :
        /\ good' = (good \ S) \cup {t}
        /\ caller' = [Disturb(S) EXCEPT ![c].at = "fetched", ![c].token = t]
  BY DEF IssueToken
<1> HIDE DEF t
<1> DEFINE G == Disturb(S)
<1>3. G \in [Callers -> CallerRows]
  BY DisturbFacts DEF Disturb
<1> HIDE DEF G
<1>4. /\ caller'[c] = [G[c] EXCEPT !.at = "fetched", !.token = t]
      /\ \A d \in Callers \ {c} : caller'[d] = G[d]
      /\ DOMAIN caller' = Callers /\ caller' = [d \in Callers |-> caller'[d]]
  BY <1>2, <1>3 DEF G
<1>5. /\ caller'[c] \in CallerRows /\ caller'[c].at = "fetched" /\ caller'[c].token = t
      /\ caller'[c].again = G[c].again
  <2>1. G[c] \in CallerRows /\ t \in 0..MaxTokens
    BY <1>1, <1>3, CallersHaveProviders
  <2> QED BY <1>4, <2>1 DEF CallerRows
<1>6. caller' \in [Callers -> CallerRows]
  BY <1>3, <1>4, <1>5
<1>7. TokensTypeOK'
  <2>1. cached' \in [Providers -> 0..MaxTokens]
    BY <1>1 DEF TokensIInv, TokensTypeOK
  <2>2. good' \subseteq 1..issued'
    BY <1>1, <1>2 DEF TokensIInv, TokensTypeOK, t
  <2> QED BY <1>1, <1>6, <2>1, <2>2 DEF TokensTypeOK, CallerRows
<1> QED
  BY <1>2, <1>4, <1>5, <1>7, DisturbFacts
     DEF G, TokensIInv, SecondTriesAreFresh, OnlySecondTriesFail

\* Every step keeps it.
LEMMA TokensKeep == TokensIInv /\ [TokensNext]_tokenVars => TokensIInv'
<1> SUFFICES ASSUME TokensIInv, [TokensNext]_tokenVars PROVE TokensIInv'
  OBVIOUS
<1>1. caller \in [Callers -> CallerRows] /\ cached \in [Providers -> 0..MaxTokens]
  BY DEF TokensIInv, TokensTypeOK, CallerRows
<1>2. \A c \in Callers : ProviderOf[c] \in Providers /\ Cache(c) \in 0..MaxTokens
  BY <1>1, CallersHaveProviders DEF Cache
<1>3. NoToken \in 0..MaxTokens
  BY CallersHaveProviders DEF NoToken
<1>4. ASSUME NEW c \in Callers, StartCall(c) PROVE TokensIInv'
  <2> DEFINE r == [NoCaller EXCEPT !.at = "token"]
  <2>1. r \in CallerRows /\ r.at = "token"
    BY <1>3 DEF CallerRows, NoCaller
  <2>2. CallerAt(c, r) /\ UNCHANGED <<issued, good, cached>>
    BY <1>4 DEF StartCall
  <2> HIDE DEF r
  <2> QED BY <1>1, <2>1, <2>2, CallerMoves
<1>5. ASSUME NEW c \in Callers, AccessToken(c) PROVE TokensIInv'
  <2>1. caller[c] \in CallerRows /\ UNCHANGED <<issued, good, cached>>
    BY <1>1, <1>5 DEF AccessToken
  <2>2. CASE ~caller[c].again /\ Cache(c) # NoToken
    <3> DEFINE r == [caller[c] EXCEPT !.at = "request", !.token = Cache(c)]
    <3>1. r \in CallerRows /\ r.at = "request" /\ ~r.again
      BY <1>2, <2>1, <2>2 DEF CallerRows
    <3>2. CallerAt(c, r)
      BY <1>5, <2>2 DEF AccessToken
    <3> HIDE DEF r
    <3> QED BY <1>1, <2>1, <3>1, <3>2, CallerMoves
  <2>3. CASE ~(~caller[c].again /\ Cache(c) # NoToken)
    <3> DEFINE r == [caller[c] EXCEPT !.at = "fetch"]
    <3>1. r \in CallerRows /\ r.at = "fetch"
      BY <2>1 DEF CallerRows
    <3>2. CallerAt(c, r)
      BY <1>5, <2>3 DEF AccessToken
    <3> HIDE DEF r
    <3> QED BY <1>1, <2>1, <3>1, <3>2, CallerMoves
  <2> QED BY <2>2, <2>3
<1>6. ASSUME NEW c \in Callers, FetchFails(c) PROVE TokensIInv'
  <2> DEFINE r == [NoCaller EXCEPT !.at = "done"]
  <2>1. r \in CallerRows /\ r.at = "done"
    BY <1>3 DEF CallerRows, NoCaller
  <2>2. CallerAt(c, r) /\ UNCHANGED <<issued, good, cached>>
    BY <1>6 DEF FetchFails
  <2> HIDE DEF r
  <2> QED BY <1>1, <2>1, <2>2, CallerMoves
<1>7. ASSUME NEW c \in Callers, Request(c) PROVE TokensIInv'
  <2> DEFINE r == IF caller[c].token \in good THEN [NoCaller EXCEPT !.at = "done"]
                  ELSE [caller[c] EXCEPT !.at = "refused"]
  <2>1. caller[c] \in CallerRows
    BY <1>1
  <2>2. CASE caller[c].token \in good
    <3>1. r \in CallerRows /\ r.at = "done"
      BY <1>3, <2>2 DEF CallerRows, NoCaller
    <3>2. CallerAt(c, r) /\ UNCHANGED <<issued, good, cached>>
      BY <1>7 DEF Request
    <3> HIDE DEF r
    <3> QED BY <1>1, <3>1, <3>2, CallerMoves
  <2>3. CASE caller[c].token \notin good
    <3>1. r \in CallerRows /\ r.at = "refused" /\ (r.again => r.disturbed)
      <4>1. caller[c].again => caller[c].disturbed
        BY <1>7, <2>3 DEF Request, TokensIInv, SecondTriesAreFresh
      <4> QED BY <2>1, <2>3, <4>1 DEF CallerRows
    <3>2. CallerAt(c, r) /\ UNCHANGED <<issued, good, cached>>
      BY <1>7 DEF Request
    <3> HIDE DEF r
    <3> QED BY <1>1, <3>1, <3>2, CallerMoves
  <2> QED BY <2>2, <2>3
<1>8. ASSUME NEW c \in Callers, Refused(c) PROVE TokensIInv'
  <2>1. caller[c] \in CallerRows /\ UNCHANGED <<issued, good>>
    BY <1>1, <1>8 DEF Refused
  <2>2. CASE caller[c].again
    <3> DEFINE r == [caller[c] EXCEPT !.at = "failed"]
    <3>1. r \in CallerRows /\ r.at = "failed" /\ r.again /\ r.disturbed
      <4>1. caller[c].disturbed
        BY <1>8, <2>2 DEF Refused, TokensIInv, SecondTriesAreFresh
      <4> QED BY <2>1, <2>2, <4>1 DEF CallerRows
    <3>2. CallerAt(c, r) /\ UNCHANGED cached
      BY <1>8, <2>2 DEF Refused
    <3> HIDE DEF r
    <3> QED BY <1>1, <2>1, <3>1, <3>2, CallerMoves
  <2>3. CASE ~caller[c].again
    <3> DEFINE r == [caller[c] EXCEPT !.at = "token", !.again = TRUE, !.token = NoToken]
    <3>1. r \in CallerRows /\ r.at = "token"
      BY <1>3, <2>1 DEF CallerRows
    <3>2. CallerAt(c, r) /\ cached' = [cached EXCEPT ![ProviderOf[c]] = NoToken]
      BY <1>8, <2>3 DEF Refused
    <3>3. cached' \in [Providers -> 0..MaxTokens]
      BY <1>1, <1>2, <1>3, <3>2
    <3> HIDE DEF r
    <3> QED BY <2>1, <3>1, <3>2, <3>3, CallerMoves
  <2> QED BY <2>2, <2>3
<1>9. ASSUME NEW p \in Providers, Expire(p) PROVE TokensIInv'
  <2>1. cached' \in [Providers -> 0..MaxTokens] /\ UNCHANGED <<issued, good, caller>>
    BY <1>1, <1>3, <1>9 DEF Expire
  <2> QED BY <2>1 DEF TokensIInv, TokensTypeOK, SecondTriesAreFresh, OnlySecondTriesFail
<1>10. ASSUME NEW c \in Callers, TokenArrives(c) PROVE TokensIInv'
  <2> DEFINE r == [caller[c] EXCEPT !.at = "request"]
  <2>1. caller[c] \in CallerRows /\ UNCHANGED <<issued, good>>
    BY <1>1, <1>10 DEF TokenArrives
  <2>2. r \in CallerRows /\ r.at = "request" /\ (r.again => r.token \in good \/ r.disturbed)
    <3>1. caller[c].again => caller[c].token \in good \/ caller[c].disturbed
      BY <1>10 DEF TokenArrives, TokensIInv, SecondTriesAreFresh
    <3> QED BY <2>1, <3>1 DEF CallerRows
  <2>3. CallerAt(c, r) /\ cached' = [cached EXCEPT ![ProviderOf[c]] = caller[c].token]
    BY <1>10 DEF TokenArrives
  <2>4. cached' \in [Providers -> 0..MaxTokens]
    BY <1>1, <1>2, <2>1, <2>3 DEF CallerRows
  <2> HIDE DEF r
  <2> QED BY <2>1, <2>2, <2>3, <2>4, CallerMoves
<1>11. CASE UNCHANGED tokenVars
  BY <1>11 DEF tokenVars, TokensIInv, TokensTypeOK, SecondTriesAreFresh, OnlySecondTriesFail
<1> QED
  BY <1>4, <1>5, <1>6, <1>7, <1>8, <1>9, <1>10, <1>11,
     IssueTokenKeeps, EndTokenKeeps DEF TokensNext

\* Tokens are always in order.
LEMMA TokensInvariance == TokensSpec => []TokensIInv
BY TokensStart, TokensKeep, PTL DEF TokensSpec

\* A call to WeChat gives up over its token only if the token it had just fetched was
\* ended under its hands (wechat-subscription.provider.ts, sendWithToken).
THEOREM OneRetryIsEnough == TokensSpec => []LoneCallGetsThrough
<1>1. TokensIInv => LoneCallGetsThrough
  BY DEF TokensIInv, SecondTriesAreFresh, OnlySecondTriesFail, LoneCallGetsThrough
<1> QED BY <1>1, TokensInvariance, PTL

-----------------------------------------------------------------------------
(* The dashboard *)

SaleRows == [status : SaleStatuses, paidAt : Dates \cup {NoDate},
             refund : SaleRefunds, completedAt : Dates \cup {NoDate}]

\* A step that writes the row of one order.
LEMMA SaleMoves ==
  ASSUME SalesIInv, NEW o \in Sales, NEW row, Write(o, row), row \in SaleRows,
         RowsAgreeOn(row)
  PROVE  SalesIInv'
<1>1. /\ today \in Dates /\ sale \in [Sales -> SaleRows] /\ \A p \in Sales : RowsAgreeOn(sale[p])
      /\ UNCHANGED today /\ sale' = [sale EXCEPT ![o] = row]
  BY DEF SalesIInv, SalesTypeOK, SaleRows, Write
<1>2. today' \in Dates /\ sale' \in [Sales -> SaleRows]
  BY <1>1
<1>3. ASSUME NEW p \in Sales PROVE RowsAgreeOn(sale[p])'
  <2>1. sale'[p] = IF p = o THEN row ELSE sale[p]
    BY <1>1
  <2>2. RowsAgreeOn(sale'[p])
    BY <1>1, <2>1
  <2> QED BY <1>1, <2>2 DEF RowsAgreeOn, NoDate
<1> QED BY <1>2, <1>3 DEF SalesIInv, SalesTypeOK, SaleRows

LEMMA SalesStart == SalesInit => SalesIInv
BY DatesAreNumbers
   DEF SalesInit, SalesIInv, SalesTypeOK, RowsAgreeOn, NoSale, NoDate, Dates, SaleStatuses,
       SaleRefunds

LEMMA SalesKeep == SalesIInv /\ [SalesNext]_salesVars => SalesIInv'
<1> SUFFICES ASSUME SalesIInv, [SalesNext]_salesVars PROVE SalesIInv'
  OBVIOUS
<1> USE DEF NoDate
<1>1. /\ today \in Dates /\ sale \in [Sales -> SaleRows] /\ LastDate \in Nat
      /\ today \in Nat /\ 1..today \subseteq Dates
  BY DatesAreNumbers DEF SalesIInv, SalesTypeOK, SaleRows, Dates
<1>2. \A o \in Sales : sale[o] \in SaleRows /\ RowsAgreeOn(sale[o]) /\ sale[o].paidAt \in Nat
  BY <1>1 DEF SalesIInv, SaleRows, Dates
<1>3. CASE DayPasses
  <2>1. today' \in Dates /\ UNCHANGED sale /\ today' = today + 1
    BY <1>1, <1>3 DEF DayPasses, Dates
  <2>2. ASSUME NEW o \in Sales PROVE RowsAgreeOn(sale[o])'
    BY <1>1, <1>2, <2>1 DEF RowsAgreeOn
  <2> QED BY <1>1, <2>1, <2>2 DEF SalesIInv, SalesTypeOK, SaleRows
<1>4. ASSUME NEW o \in Sales, PlaceSale(o) PROVE SalesIInv'
  <2> DEFINE row == [sale[o] EXCEPT !.status = "PENDING_PAYMENT"]
  <2>1. row \in SaleRows /\ RowsAgreeOn(row) /\ Write(o, row)
    BY <1>2, <1>4 DEF PlaceSale, SaleRows, RowsAgreeOn, SaleStatuses, SaleRefunds
  <2> HIDE DEF row
  <2> QED BY <2>1, SaleMoves
<1>5. ASSUME NEW o \in Sales, CancelSale(o) PROVE SalesIInv'
  <2> DEFINE row == [sale[o] EXCEPT !.status = "CANCELLED"]
  <2>1. row \in SaleRows /\ RowsAgreeOn(row) /\ Write(o, row)
    BY <1>2, <1>5 DEF CancelSale, SaleRows, RowsAgreeOn, SaleStatuses, SaleRefunds
  <2> HIDE DEF row
  <2> QED BY <2>1, SaleMoves
<1>6. ASSUME NEW o \in Sales, FulfilSale(o) PROVE SalesIInv'
  <2>1. PICK to \in SaleStatuses : /\ <<sale[o].status, to>> \in Fulfilments
                                  /\ Write(o, [sale[o] EXCEPT !.status = to])
    BY <1>6 DEF FulfilSale
  <2> DEFINE row == [sale[o] EXCEPT !.status = to]
  <2>2. row \in SaleRows /\ RowsAgreeOn(row)
    BY <1>2, <2>1 DEF Fulfilments, SaleRows, RowsAgreeOn
  <2>3. Write(o, row)
    BY <2>1
  <2> HIDE DEF row
  <2> QED BY <2>2, <2>3, SaleMoves
<1>7. ASSUME NEW o \in Sales, AskRefund(o) PROVE SalesIInv'
  <2> DEFINE row == [sale[o] EXCEPT !.status = "REFUND_PENDING", !.refund = "PENDING_REVIEW"]
  <2>1. row \in SaleRows /\ RowsAgreeOn(row) /\ Write(o, row)
    BY <1>2, <1>7 DEF AskRefund, SaleRows, RowsAgreeOn, SaleStatuses, SaleRefunds
  <2> HIDE DEF row
  <2> QED BY <2>1, SaleMoves
<1>8. ASSUME NEW o \in Sales, RejectRefund(o) PROVE SalesIInv'
  <2> DEFINE row == [sale[o] EXCEPT !.status = "PAID", !.refund = "REJECTED"]
  <2>1. row \in SaleRows /\ RowsAgreeOn(row) /\ Write(o, row)
    BY <1>2, <1>8 DEF RejectRefund, SaleRows, RowsAgreeOn, SaleStatuses, SaleRefunds
  <2> HIDE DEF row
  <2> QED BY <2>1, SaleMoves
<1>9. ASSUME NEW o \in Sales, ApproveRefund(o) PROVE SalesIInv'
  <2> DEFINE row == [sale[o] EXCEPT !.refund = "APPROVED"]
  <2>1. row \in SaleRows /\ RowsAgreeOn(row) /\ Write(o, row)
    BY <1>2, <1>9 DEF ApproveRefund, SaleRows, RowsAgreeOn, SaleStatuses, SaleRefunds
  <2> HIDE DEF row
  <2> QED BY <2>1, SaleMoves
<1>10. ASSUME NEW o \in Sales, RefundGoesOn(o) PROVE SalesIInv'
  <2>1. PICK to \in {"PROCESSING", "FAILED"} : Write(o, [sale[o] EXCEPT !.refund = to])
    BY <1>10 DEF RefundGoesOn
  <2> DEFINE row == [sale[o] EXCEPT !.refund = to]
  <2>2. row \in SaleRows /\ RowsAgreeOn(row)
    BY <1>2, <1>10, <2>1 DEF RefundGoesOn, SaleRows, RowsAgreeOn, SaleRefunds
  <2>3. Write(o, row)
    BY <2>1
  <2> HIDE DEF row
  <2> QED BY <2>2, <2>3, SaleMoves
<1>11. ASSUME NEW o \in Sales, SettleSale(o) PROVE SalesIInv'
  <2>1. PICK d \in 1..today : Write(o, [sale[o] EXCEPT !.status = "PAID", !.paidAt = d])
    BY <1>11 DEF SettleSale
  <2> DEFINE row == [sale[o] EXCEPT !.status = "PAID", !.paidAt = d]
  <2>2. row \in SaleRows /\ RowsAgreeOn(row)
    <3>1. d \in Nat \ {0} /\ d <= today /\ d \in Dates
      BY <1>1, <2>1
    <3>2. row \in SaleRows /\ row.status = "PAID" /\ row.paidAt = d /\ row.refund = sale[o].refund
      BY <1>2, <3>1 DEF SaleRows, SaleStatuses
    <3>3. sale[o].status = "PENDING_PAYMENT"
      BY <1>11 DEF SettleSale
    <3> HIDE DEF row
    <3> QED BY <1>2, <3>1, <3>2, <3>3 DEF RowsAgreeOn
  <2> HIDE DEF row
  <2>3. Write(o, row)
    BY <2>1 DEF row
  <2> QED BY <2>2, <2>3, SaleMoves
<1>12. ASSUME NEW o \in Sales, RefundCompletes(o) PROVE SalesIInv'
  <2>1. PICK d \in sale[o].paidAt..today :
          Write(o, [sale[o] EXCEPT !.status = "REFUNDED", !.refund = "SUCCESS",
                                   !.completedAt = d])
    BY <1>12 DEF RefundCompletes
  <2> DEFINE row == [sale[o] EXCEPT !.status = "REFUNDED", !.refund = "SUCCESS",
                                    !.completedAt = d]
  <2>2. sale[o].paidAt \in Nat \ {0}
    BY <1>2, <1>12 DEF RefundCompletes, RowsAgreeOn
  <2>3. d \in Dates
    BY <1>1, <2>1, <2>2
  <2>4. row \in SaleRows /\ RowsAgreeOn(row)
    BY <1>1, <1>2, <1>12, <2>3 DEF RefundCompletes, SaleRows, RowsAgreeOn, SaleStatuses, SaleRefunds
  <2> HIDE DEF row
  <2>5. Write(o, row)
    BY <2>1 DEF row
  <2> QED BY <2>4, <2>5, SaleMoves
<1>13. CASE UNCHANGED salesVars
  BY <1>13 DEF salesVars, SalesIInv, SalesTypeOK, RowsAgreeOn
<1> QED
  BY <1>3, <1>4, <1>5, <1>6, <1>7, <1>8, <1>9, <1>10, <1>11, <1>12, <1>13 DEF SalesNext

\* What the stores' rows add up to.
LEMMA StoresAddUp ==
  /\ StoresTotal("effective") = EffectiveOrders
  /\ StoresTotal("payments") = PaidWithin(today)
  /\ StoresTotal("refunds") = RefundedWithin(today)
<1> DEFINE Named == EffectiveOrders \cup PaidWithin(today) \cup RefundedWithin(today)
           Its(s, rows) == {o \in rows : ShopOf[o] = s}
<1>1. DOMAIN StoreTable = {ShopOf[o] : o \in Named}
  BY DEF StoreTable
<1>2. ASSUME NEW s \in DOMAIN StoreTable
      PROVE  /\ StoreTable[s]["effective"] = Its(s, EffectiveOrders)
             /\ StoreTable[s]["payments"] = Its(s, PaidWithin(today))
             /\ StoreTable[s]["refunds"] = Its(s, RefundedWithin(today))
  BY DEF StoreTable
<1>3. ASSUME NEW rows, rows \subseteq Named
      PROVE  UNION {Its(s, rows) : s \in DOMAIN StoreTable} = rows
  BY <1>1, <1>3
<1>4. StoresTotal("effective") = UNION {Its(s, EffectiveOrders) : s \in DOMAIN StoreTable}
  BY <1>2 DEF StoresTotal
<1>5. StoresTotal("payments") = UNION {Its(s, PaidWithin(today)) : s \in DOMAIN StoreTable}
  BY <1>2 DEF StoresTotal
<1>6. StoresTotal("refunds") = UNION {Its(s, RefundedWithin(today)) : s \in DOMAIN StoreTable}
  BY <1>2 DEF StoresTotal
<1> HIDE DEF Its
<1> QED BY <1>3, <1>4, <1>5, <1>6

\* The dashboard's figures agree with its definitions and with each other, whatever is paid,
\* fulfilled and refunded, on whichever days (operations.service.ts, dashboard).
THEOREM DashboardAddsUp == SalesSpec => []DashboardBalances
<1>1. ASSUME SalesIInv PROVE DashboardBalances
  <2> USE <1>1 DEF NoDate
  <2>1. /\ today \in Nat \ {0} /\ TrendDays \in Nat \ {0}
        /\ \A o \in Sales : /\ sale[o].paidAt \in Nat /\ sale[o].completedAt \in Nat
                           /\ sale[o].status \in SaleStatuses /\ sale[o].refund \in SaleRefunds
                           /\ RowsAgreeOn(sale[o])
    BY DatesAreNumbers DEF SalesIInv, SalesTypeOK, Dates
  <2>2. EffectiveOrders = PaidWithin(today) \ {o \in Sales : sale[o].status = "REFUNDED"}
    BY <2>1 DEF EffectiveOrders, PaidWithin, EffectivePaidOrderStatuses, RowsAgreeOn, SaleStatuses
  <2>3. \A o \in Sales : sale[o].status = "REFUND_PENDING" =>
          o \in Overview.refundInProgress \/ sale[o].refund = "FAILED"
    BY <2>1 DEF Overview, ActiveRefundStatuses, RowsAgreeOn
  <2>4. \A o \in Overview.refundInProgress : sale[o].status = "REFUND_PENDING"
    BY <2>1 DEF Overview, ActiveRefundStatuses, RowsAgreeOn
  <2>5. \A o \in Overview.refunds : sale[o].paidAt \in 1..today
    BY <2>1 DEF Overview, RefundedWithin, RowsAgreeOn
  <2>6. /\ Overview.effective = EffectiveOrders /\ Overview["effective"] = EffectiveOrders
        /\ Overview.payments = PaidWithin(today) /\ Overview["payments"] = PaidWithin(today)
        /\ Overview.refunds = RefundedWithin(today)
        /\ Overview["refunds"] = RefundedWithin(today)
    BY DEF Overview
  <2>7. \A figure \in {"effective", "payments", "refunds"} :
          StoresTotal(figure) = Overview[figure]
    BY <2>6, StoresAddUp
  <2>8. /\ Trend[today]["payments"] = PaidWithin(today)
        /\ Trend[today]["refunds"] = RefundedWithin(today)
    <3>1. today \in TrendStart..today
      BY <2>1 DEF TrendStart
    <3>2. /\ Trend[today]["payments"] = {o \in PaidWithin(TrendStart) : sale[o].paidAt = today}
          /\ Trend[today]["refunds"] =
               {o \in RefundedWithin(TrendStart) : sale[o].completedAt = today}
      BY <3>1 DEF Trend
    <3> QED BY <2>1, <3>1, <3>2 DEF PaidWithin, RefundedWithin
  <2> QED BY <2>2, <2>3, <2>4, <2>5, <2>6, <2>7, <2>8 DEF DashboardBalances
<1> QED BY <1>1, SalesStart, SalesKeep, PTL DEF SalesSpec

-----------------------------------------------------------------------------
(* The whole *)

\* What each part keeps, and each call under way in it, has its type.
THEOREM ShopIsTyped ==
  ResidentsSpec /\ AddressSpec /\ StoreSpec /\ AlertsSpec /\ TokensSpec /\ SalesSpec =>
    []ShopTypeOK
<1>1. ResidentsIInv /\ AddressIInv /\ StoreIInv /\ AlertsIInv /\ TokensIInv
        /\ SalesIInv => ShopTypeOK
  BY DEF ResidentsIInv, AddressIInv, StoreIInv, ShelfIInv, AlertsIInv, TokensIInv,
         SalesIInv, ShopTypeOK
<1> QED
  BY <1>1, ResidentsInvariance, AddressesInvariance, StoreInvariance, AlertsInvariance,
     TokensInvariance, SalesStart, SalesKeep, PTL DEF SalesSpec
=============================================================================
