----------------------------- MODULE Residents -----------------------------
(***************************************************************************)
(* Accounts of residents: first login by WeChat identity, the current      *)
(* community, the bound phone.  Every authenticated request begins by      *)
(* reading the account with its community, and a community that is no      *)
(* longer available is cleared from the account by a second statement      *)
(* (toPublicUser); so do the answers to login, selection, binding and      *)
(* profile.  Nothing locks the account between a request's statements.     *)
(*                                                                         *)
(*   Devices   the requests under way, of any resident                     *)
(*                                                                         *)
(* Whether a community is still available when a request reads it is       *)
(* decided once; what it does after that rests on a value that may be old. *)
(***************************************************************************)
EXTENDS Communities

CONSTANTS Identities, Phones, Devices, Nothing

ASSUME NothingIsNoValue == Nothing \notin Communities \cup Phones \cup Identities

VARIABLES
  account,  \* rows of users, by their unique WeChat identity
  request   \* where each request is, whose it is, its argument, what comes next

residentVars == <<account, request>>

Accounts == [status : {"none", "ACTIVE", "DISABLED"},
             phone : Phones \cup {Nothing},
             current : Communities \cup {Nothing}]
NoAccount == [status |-> "none", phone |-> Nothing, current |-> Nothing]

RequestStates == {"idle", "upsert", "create", "greet", "serve",
                  "select", "owner", "bind", "clear"}
NoRequest == [at |-> "idle", who |-> Nothing, arg |-> Nothing, next |-> "idle"]

ResidentsTypeOK ==
  /\ account \in [Identities -> Accounts]
  /\ request \in [Devices -> [at : RequestStates, who : Identities \cup {Nothing},
                              arg : Communities \cup Phones \cup {Nothing},
                              next : {"idle", "serve"}]]

ResidentsInit ==
  /\ account = [i \in Identities |-> NoAccount]
  /\ request = [d \in Devices |-> NoRequest]

To(d, r) == request' = [request EXCEPT ![d] = r]
Finish(d) == To(d, NoRequest)

\* Where a request of i stands that has just read c as i's current community and
\* turns the row into a public user: on its way to `next', unless c must be cleared.
Presented(i, c, next) ==
  IF c # Nothing /\ ~Available(c)
  THEN [at |-> "clear", who |-> i, arg |-> c, next |-> next]
  ELSE IF next = "idle" THEN NoRequest
  ELSE [NoRequest EXCEPT !.at = next, !.who = i]

\* clearCurrentCommunity: whatever the current community is by now.
ClearCurrentCommunity(d) ==
  LET r == request[d] IN
  /\ r.at = "clear"
  /\ account' = [account EXCEPT ![r.who].current = Nothing]
  /\ To(d, IF r.next = "idle" THEN NoRequest
           ELSE [NoRequest EXCEPT !.at = r.next, !.who = r.who])

(***************************************************************************)
(* Login.  The client library finds, then inserts, so that two first       *)
(* logins may both insert; the unique key refuses the second.              *)
(***************************************************************************)
ExchangeCode(d) ==
  /\ request[d].at = "idle"
  /\ \E i \in Identities : To(d, [NoRequest EXCEPT !.at = "upsert", !.who = i])
  /\ UNCHANGED account

FindByIdentity(d) ==
  LET i == request[d].who IN
  /\ request[d].at = "upsert"
  /\ CASE account[i].status = "none"   -> To(d, [request[d] EXCEPT !.at = "create"])
       [] account[i].status = "ACTIVE" -> To(d, [request[d] EXCEPT !.at = "greet"])
       [] OTHER                        -> Finish(d)
  /\ UNCHANGED account

CreateAccount(d) ==
  LET i == request[d].who IN
  /\ request[d].at = "create"
  /\ IF account[i].status = "none"
     THEN /\ account' = [account EXCEPT ![i].status = "ACTIVE"]
          /\ To(d, [request[d] EXCEPT !.at = "greet"])
     ELSE Finish(d) /\ UNCHANGED account

\* recordSuccess writes the time and reads the account back.
RecordSuccess(d) ==
  LET i == request[d].who IN
  /\ request[d].at = "greet"
  /\ To(d, Presented(i, account[i].current, "idle"))
  /\ UNCHANGED account

\* External: accounts are disabled in the database, by no call of the program.
DisableAccount(i) ==
  /\ account[i].status = "ACTIVE"
  /\ account' = [account EXCEPT ![i].status = "DISABLED"]
  /\ UNCHANGED request

\* Every authenticated request.  A disabled account is refused here.
Authenticate(d) ==
  /\ request[d].at = "idle"
  /\ \E i \in Identities :
       /\ account[i].status = "ACTIVE"
       /\ To(d, Presented(i, account[i].current, "serve"))
  /\ UNCHANGED account

(***************************************************************************)
(* Selecting a community                                                   *)
(***************************************************************************)
FindCommunity(d) ==
  /\ request[d].at = "serve"
  /\ \E c \in Communities :
       /\ Available(c)
       /\ To(d, [request[d] EXCEPT !.at = "select", !.arg = c])
  /\ UNCHANGED account

UpdateCurrentCommunity(d) ==
  LET r == request[d] IN
  /\ r.at = "select"
  /\ account' = [account EXCEPT ![r.who].current = r.arg]
  /\ To(d, Presented(r.who, r.arg, "idle"))

(***************************************************************************)
(* Binding a phone.  WeChat turns the code into a number, which may be     *)
(* anybody's; the owner is looked up, and the unique key decides.          *)
(***************************************************************************)
ExchangePhoneCode(d) ==
  /\ request[d].at = "serve"
  /\ \E p \in Phones : To(d, [request[d] EXCEPT !.at = "owner", !.arg = p])
  /\ UNCHANGED account

Owners(p) == {i \in Identities : account[i].phone = p}

FindByPhone(d) ==
  LET r == request[d] IN
  /\ r.at = "owner"
  /\ IF Owners(r.arg) \subseteq {r.who}
     THEN To(d, [r EXCEPT !.at = "bind"])
     ELSE Finish(d)
  /\ UNCHANGED account

MutantBindPhone(d) ==
  LET r == request[d] IN
  /\ r.at = "bind"
  /\ account' = [account EXCEPT ![r.who].phone = r.arg]
  /\ To(d, Presented(r.who, account[r.who].current, "idle"))

BindPhone(d) ==
  LET r == request[d] IN
  /\ r.at = "bind"
  /\ IF Owners(r.arg) \subseteq {r.who}
     THEN /\ account' = [account EXCEPT ![r.who].phone = r.arg]
          /\ To(d, Presented(r.who, account[r.who].current, "idle"))
     ELSE Finish(d) /\ UNCHANGED account

\* The profile writes what no other part reads, and reads the account back.
UpdateProfile(d) ==
  LET i == request[d].who IN
  /\ request[d].at = "serve"
  /\ To(d, Presented(i, account[i].current, "idle"))
  /\ UNCHANGED account

\* All other endpoints, and every step of a request whose process dies.
LeaveRequest(d) ==
  /\ request[d].at # "idle"
  /\ Finish(d)
  /\ UNCHANGED account

ResidentsNext ==
  \/ CommunitiesNext /\ UNCHANGED residentVars
  \/ /\ \/ \E i \in Identities : DisableAccount(i)
        \/ \E d \in Devices :
             \/ ExchangeCode(d) \/ FindByIdentity(d) \/ CreateAccount(d)
             \/ RecordSuccess(d) \/ Authenticate(d) \/ ClearCurrentCommunity(d)
             \/ FindCommunity(d) \/ UpdateCurrentCommunity(d)
             \/ ExchangePhoneCode(d) \/ FindByPhone(d) \/ BindPhone(d)
             \/ UpdateProfile(d) \/ LeaveRequest(d)
     /\ UNCHANGED community

ResidentsSpec == CommunitiesInit /\ ResidentsInit /\ [][ResidentsNext]_<<community, residentVars>>

----------------------------------------------------------------------------
\* No phone number is bound to two accounts, although every binding looks for the
\* owner long before it writes (user-phone.service.ts bind).
PhoneHasOneOwner == \A p \in Phones : \A i, j \in Owners(p) : i = j
----------------------------------------------------------------------------
\* A request past its authentication is somebody's, and holds what it is about to write.
RequestsAreWhole ==
  \A d \in Devices : request[d].at # "idle" =>
    /\ request[d].who \in Identities
    /\ request[d].at = "select" => request[d].arg \in Communities
    /\ request[d].at \in {"owner", "bind"} => request[d].arg \in Phones

ResidentsIInv == ResidentsTypeOK /\ RequestsAreWhole /\ PhoneHasOneOwner
=============================================================================
