------------------------------- MODULE Visit -------------------------------
(***************************************************************************)
(* A visit to the mini program: the session, the community whose stores    *)
(* are shown, and the changes to the cart under way.  Token and community  *)
(* outlive the program in its storage; the server keeps a current          *)
(* community of its own, by which it judges the cart.                      *)
(*                                                                         *)
(*   Areas    communities               Asks    the calls under way        *)
(*                                                                         *)
(* Of the profile, only the community counts here.                         *)
(***************************************************************************)
EXTENDS Integers, FiniteSets

CONSTANTS Areas, Asks, NoArea, NoProfile

ASSUME VisitHasAreas ==
  {NoArea, NoProfile} \cap Areas = {} /\ NoArea # NoProfile /\ IsFiniteSet(Asks)

VARIABLES
  served,   \* the server: the resident's community, the communities that are enabled
  visit,    \* the stores user.ts and community.ts
  edits,    \* mutationCount of cart.ts
  asks,     \* the calls under way
  apart     \* what keeps the two communities, or the count, from agreeing

visitVars == <<served, visit, edits, asks, apart>>

Places == Areas \cup {NoArea}
NoAsking == [kind |-> "none", area |-> NoArea, reply |-> "none", from |-> "none"]
AskingKinds == {"none", "restore", "login", "select", "sync", "communities", "edit"}

VisitTypeOK ==
  /\ served \in [area : Places, enabled : SUBSET Areas]
  /\ visit \in [token : BOOLEAN, profile : Places \cup {NoProfile}, shown : Places,
                restoring : BOOLEAN, loggingIn : BOOLEAN, selecting : Places]
  /\ edits \in Int
  /\ asks \in [Asks -> [kind : AskingKinds, area : Places,
                        reply : {"none", "ok", "gone", "failed"},
                        from : {"none", "restoring", "loggingIn"}]]
  /\ apart \subseteq {"community", "count"}

VisitInit ==
  /\ served \in [area : Places, enabled : {Areas}]
  /\ visit \in [token : BOOLEAN, profile : {NoProfile}, shown : Places,
                restoring : {FALSE}, loggingIn : {FALSE}, selecting : {NoArea}]
  /\ edits = 0
  /\ asks = [c \in Asks |-> NoAsking]
  /\ apart = IF visit.shown = served.area THEN {} ELSE {"community"}

UnderWay(kinds) == {c \in Asks : asks[c].kind \in kinds}
Asking(c, kind, area) ==
  /\ asks[c].kind = "none"
  /\ asks' = [asks EXCEPT ![c] = [NoAsking EXCEPT !.kind = kind, !.area = area]]
Answered(c, kind) == asks[c].kind = kind /\ asks[c].reply # "none"
Over(c) == asks' = [asks EXCEPT ![c] = NoAsking]
Kept(c) == asks[c].reply = "ok"

(***************************************************************************)
(* The server.  Reading a profile forgets a community that was disabled.   *)
(* A call that failed was served or was not.                               *)
(***************************************************************************)
ReadProfile(c) ==
  LET now == IF served.area \in served.enabled THEN served.area ELSE NoArea IN
  /\ asks[c].kind \in {"restore", "login"} /\ asks[c].reply = "none"
  /\ served' = [served EXCEPT !.area = now]
  /\ asks' = [asks EXCEPT ![c].reply = "ok", ![c].area = now]
  /\ UNCHANGED <<visit, edits, apart>>

UpdateCommunity(c) ==
  /\ asks[c].kind \in {"select", "sync"} /\ asks[c].reply = "none"
  /\ IF asks[c].area \in served.enabled
     THEN /\ served' = [served EXCEPT !.area = asks[c].area]
          /\ asks' = [asks EXCEPT ![c].reply = "ok"]
     ELSE asks' = [asks EXCEPT ![c].reply = "gone"] /\ UNCHANGED served
  /\ UNCHANGED <<visit, edits, apart>>

Fail(c) ==
  /\ asks[c].kind # "none" /\ asks[c].reply \in {"none", "ok"}
  /\ asks' = [asks EXCEPT ![c].reply = "failed"]
  /\ UNCHANGED <<served, visit, edits, apart>>

ServeOther(c) ==
  /\ asks[c].kind \in {"communities", "edit"} /\ asks[c].reply = "none"
  /\ asks' = [asks EXCEPT ![c].reply = "ok"]
  /\ UNCHANGED <<served, visit, edits, apart>>

\* A community is disabled.
Disable ==
  /\ \E a \in served.enabled :
       /\ served' = [served EXCEPT !.enabled = @ \ {a}]
       /\ apart' = apart \cup (IF a \in {served.area, visit.shown} THEN {"community"} ELSE {})
  /\ UNCHANGED <<visit, edits, asks>>

(***************************************************************************)
(* The session                                                             *)
(***************************************************************************)
Authenticated == visit.token /\ visit.profile # NoProfile

\* Whose community counts is settled when nothing that reads or writes it is under way.
Settling == {"restore", "login", "select", "sync"}

RestoreSession(c) ==
  /\ visit.token /\ ~visit.restoring /\ visit.profile = NoProfile
  /\ Asking(c, "restore", NoArea)
  /\ visit' = [visit EXCEPT !.restoring = TRUE]
  /\ apart' = IF UnderWay(Settling) = {} THEN apart \ {"community"}
              ELSE apart \cup {"community"}
  /\ UNCHANGED <<served, edits>>

\* From the profile, or before a product is put into the cart.
LoginWithWechat(c) ==
  /\ ~visit.token /\ ~visit.restoring /\ ~visit.loggingIn
  /\ Asking(c, "login", NoArea)
  /\ visit' = [visit EXCEPT !.loggingIn = TRUE]
  /\ apart' = IF UnderWay(Settling) = {} THEN apart \ {"community"}
              ELSE apart \cup {"community"}
  /\ UNCHANGED <<served, edits>>

MutantSyncAfterLogin(c, area, flag) ==
  LET known == [visit EXCEPT !.token = TRUE, !.profile = area] IN
  /\ visit' = [known EXCEPT ![flag] = FALSE]
  /\ Over(c)

\* syncAfterLogin: the server's community wins; where it has none, it is sent ours.
SyncAfterLogin(c, area, flag) ==
  LET known == [visit EXCEPT !.token = TRUE, !.profile = area] IN
  IF area # NoArea
  THEN visit' = [known EXCEPT ![flag] = FALSE, !.shown = area] /\ Over(c)
  ELSE IF visit.shown = NoArea
  THEN visit' = [known EXCEPT ![flag] = FALSE] /\ Over(c)
  ELSE /\ visit' = [known EXCEPT !.selecting = visit.shown]
       /\ asks' = [asks EXCEPT ![c] = [kind |-> "sync", area |-> visit.shown,
                                       reply |-> "none", from |-> flag]]

\* clearSession, after any error.
SignedOut(s) == [s EXCEPT !.token = FALSE, !.profile = NoProfile]

Restored(c) ==
  /\ Answered(c, "restore")
  /\ IF Kept(c)
     THEN SyncAfterLogin(c, asks[c].area, "restoring") /\ UNCHANGED <<edits, apart>>
     ELSE /\ visit' = [SignedOut(visit) EXCEPT !.restoring = FALSE]
          /\ edits' = 0 /\ Over(c)
          /\ apart' = apart \cup (IF UnderWay({"edit"}) = {} THEN {} ELSE {"count"})
  /\ UNCHANGED served

LoggedIn(c) ==
  /\ Answered(c, "login")
  /\ IF Kept(c) THEN SyncAfterLogin(c, asks[c].area, "loggingIn")
     ELSE visit' = [visit EXCEPT !.loggingIn = FALSE] /\ Over(c)
  /\ UNCHANGED <<served, edits, apart>>

\* The end of syncAfterLogin.  It may come after the resident has signed out.
Synced(c) ==
  LET r == asks[c]
      done == [visit EXCEPT ![r.from] = FALSE, !.selecting = NoArea] IN
  /\ Answered(c, "sync")
  /\ visit' = CASE r.reply = "ok"     -> [done EXCEPT !.shown = r.area, !.profile = r.area]
                [] r.reply = "gone"   -> [done EXCEPT !.shown = NoArea]
                [] r.reply = "failed" -> done
  /\ apart' = IF r.reply = "failed" THEN apart \cup {"community"} ELSE apart
  /\ Over(c)
  /\ UNCHANGED <<served, edits>>

Logout ==
  /\ Authenticated /\ ~visit.restoring
  /\ visit' = SignedOut(visit)
  /\ edits' = 0
  /\ apart' = apart \cup (IF UnderWay({"edit"}) = {} THEN {} ELSE {"count"})
  /\ UNCHANGED <<served, asks>>

\* The program is closed and opened again; what was under way is served or lost.
Relaunch ==
  /\ visit' = [visit EXCEPT !.profile = NoProfile, !.restoring = FALSE,
                            !.loggingIn = FALSE, !.selecting = NoArea]
  /\ edits' = 0
  /\ asks' = [c \in Asks |-> NoAsking]
  /\ served' \in [area : {served.area} \cup {asks[c].area : c \in UnderWay({"select", "sync"})},
                  enabled : {served.enabled}]
  /\ apart' = {"community"}

(***************************************************************************)
(* The community                                                           *)
(***************************************************************************)

\* A choice is sent with whatever token there is, also one that is being verified.
SelectCommunity ==
  /\ visit.selecting = NoArea
  /\ \E a \in Areas :
       IF visit.token
       THEN /\ \E c \in Asks : Asking(c, "select", a)
            /\ visit' = [visit EXCEPT !.selecting = a]
            /\ apart' = IF UnderWay(Settling) = {} THEN apart \ {"community"}
                        ELSE apart \cup {"community"}
       ELSE /\ visit' = [visit EXCEPT !.shown = a]
            /\ apart' = apart \cup {"community"}
            /\ UNCHANGED asks
  /\ UNCHANGED <<served, edits>>

Selected(c) ==
  LET r == asks[c]
      done == [visit EXCEPT !.selecting = NoArea] IN
  /\ Answered(c, "select")
  /\ visit' = IF Kept(c) THEN [done EXCEPT !.shown = r.area, !.profile = r.area] ELSE done
  /\ apart' = IF Kept(c) THEN apart ELSE apart \cup {"community"}
  /\ Over(c)
  /\ UNCHANGED <<served, edits>>

LoadCommunities(c) ==
  /\ UnderWay({"communities"}) = {}
  /\ Asking(c, "communities", NoArea)
  /\ UNCHANGED <<served, visit, edits, apart>>

\* A community that was not enabled any more when the list was read is forgotten.
CommunitiesLoaded(c) ==
  /\ Answered(c, "communities")
  /\ \E listed \in SUBSET Areas :
       /\ served.enabled \subseteq listed
       /\ visit' = IF Kept(c) /\ visit.shown \notin listed
                   THEN [visit EXCEPT !.shown = NoArea] ELSE visit
  /\ Over(c)
  /\ UNCHANGED <<served, edits, apart>>

(***************************************************************************)
(* The cart: a change counts as under way, so that the buttons are off.    *)
(* A product's page and a store's page may add to it whatever the count.   *)
(***************************************************************************)
EditCart(c) ==
  /\ visit.token
  /\ Asking(c, "edit", NoArea)
  /\ edits' = edits + 1
  /\ UNCHANGED <<served, visit, apart>>

CartEdited(c) ==
  /\ Answered(c, "edit")
  /\ edits' = edits - 1
  /\ Over(c)
  /\ UNCHANGED <<served, visit, apart>>

VisitNext ==
  \/ Disable \/ Logout \/ Relaunch \/ SelectCommunity
  \/ \E c \in Asks :
       \/ ReadProfile(c) \/ UpdateCommunity(c) \/ ServeOther(c) \/ Fail(c)
       \/ RestoreSession(c) \/ Restored(c) \/ LoginWithWechat(c) \/ LoggedIn(c)
       \/ Synced(c) \/ Selected(c)
       \/ LoadCommunities(c) \/ CommunitiesLoaded(c) \/ EditCart(c) \/ CartEdited(c)

VisitSpec == VisitInit /\ [][VisitNext]_visitVars

----------------------------------------------------------------------------
\* A signed-in resident is shown the stores of the community by which the server judges
\* their cart, and the cart's buttons are never left off when no change is under way, and
\* are off while one is (community.ts syncAfterLogin, user.ts setSession, cart.ts mutate).
\* The first is excepted after a selection that failed or that overlapped with another call
\* about the community, and after a community was chosen while signed out or was disabled;
\* the last after the count was reset by signing out while a change was under way, which
\* leaves it too low.
VisitAgrees ==
  /\ Authenticated /\ UnderWay(Settling) = {} /\ "community" \notin apart =>
       visit.shown = served.area
  /\ edits <= Cardinality(UnderWay({"edit"}))
  /\ "count" \notin apart => edits = Cardinality(UnderWay({"edit"}))
-----------------------------------------------------------------------------
\* Calls name a community where they need one, and the flag they will clear.
AsksAreWhole ==
  \A c \in Asks :
    /\ asks[c].kind \in {"select", "sync"} => asks[c].area \in Areas
    /\ asks[c].kind = "sync" => asks[c].from \in {"restoring", "loggingIn"}
    /\ asks[c].reply = "gone" => asks[c].kind \in {"select", "sync"}

Standing == served.area \in served.enabled \cup {NoArea}

\* What a call about the community has found out, or brought about, at the server.
Settles(r) ==
  /\ r.kind = "login" => ~visit.token
  /\ r.kind \in {"restore", "login"} /\ r.reply = "ok" => r.area = served.area /\ Standing
  /\ r.kind \in {"select", "sync"} /\ r.reply = "ok" => r.area = served.area /\ Standing
  /\ r.kind = "sync" /\ r.reply \in {"none", "gone"} => served.area = NoArea

\* Unless the communities are apart, one call at a time is about them, and what it found
\* still holds when its answer comes.
OneCallSettles ==
  "community" \notin apart =>
    \A c \in UnderWay(Settling) :
      Settles(asks[c]) /\ \A d \in UnderWay(Settling) : c = d

\* With none, the community shown can be chosen (so that loading the list keeps it).
ShownIsStanding ==
  Authenticated /\ UnderWay(Settling) = {} /\ "community" \notin apart => Standing

VisitIInv == VisitTypeOK /\ AsksAreWhole /\ OneCallSettles /\ ShownIsStanding /\ VisitAgrees
=============================================================================
