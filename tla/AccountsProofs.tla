--------------------------- MODULE AccountsProofs ---------------------------
(***************************************************************************)
(* Proofs about SignIn and, on top of it, Accounts, for any accounts, any  *)
(* number of attempts under way at once and any number of refreshes: who   *)
(* can be the current user, and on which screen; whose requests are in the *)
(* list.                                                                   *)
(*                                                                         *)
(* That an account of the wrong role is being checked is inductive but for *)
(* a kill on the landing screen, which must find a checked user there.     *)
(* That needs LandingIsForElderly, which in turn needs to know that an     *)
(* attempt without company reads back the uid it signed in, unless the     *)
(* session has ended (Solo), and that what a kill leaves behind is checked *)
(* or known not to be                                                      *)
(* (OffIsChecked).                                                         *)
(*                                                                         *)
(* OwnRequestsOnly is not inductive: a refresh that completes must be one  *)
(* of the current user.  It is, unless another's was left over when the    *)
(* user signed in, because a refresh begins with the uid of the user that  *)
(* is current (NoOthersUnderWay).                                          *)
(***************************************************************************)
EXTENDS Accounts, TLAPS

-----------------------------------------------------------------------------
\* The session (SignIn).

Solo ==
    ~overlapped =>
        /\ \A j, k \in Attempts :
            stage[j] # "idle" /\ stage[k] # "idle" => j = k
        /\ \A k \in Attempts :
            stage[k] \in {"signed", "role"} =>
                IF currentUser = None THEN ended ELSE uid[k] = currentUser
        /\ screen = "landing" => \A k \in Attempts : stage[k] = "idle"

OffIsIdle == screen = "off" => \A k \in Attempts : stage[k] = "idle"

OffIsChecked ==
    (screen = "off" /\ ~survived /\ currentUser # None) =>
        Role[currentUser] = "elderly"

\* The inductive invariant.
IInv ==
    /\ TypeOK
    /\ WrongRoleIsBeingChecked
    /\ LandingIsForElderly
    /\ Solo
    /\ OffIsIdle
    /\ OffIsChecked

-----------------------------------------------------------------------------
(***************************************************************************)
(* Before the first launch nobody is signed in.                            *)
(***************************************************************************)
LEMMA InitHolds == Init => IInv
<1> SUFFICES ASSUME Init PROVE IInv
    OBVIOUS
<1>1. TypeOK
  BY DEF Init, TypeOK
<1>2. WrongRoleIsBeingChecked /\ LandingIsForElderly
  BY DEF Init, WrongRoleIsBeingChecked, LandingIsForElderly
<1>3. Solo /\ OffIsIdle /\ OffIsChecked
  BY DEF Init, Solo, OffIsIdle, OffIsChecked
<1> QED BY <1>1, <1>2, <1>3 DEF IInv

(***************************************************************************)
(* A launch shows the landing screen only to a user left behind.           *)
(***************************************************************************)
LEMMA LaunchHolds ==
    ASSUME IInv, Launch
    PROVE  IInv'
<1>1. TypeOK'
  BY DEF IInv, TypeOK, Launch, presentSignin, viewDidLoad, signout, InFlight
<1>2. WrongRoleIsBeingChecked'
  BY DEF IInv, TypeOK, WrongRoleIsBeingChecked,
     Launch, presentSignin, viewDidLoad, signout, InFlight
<1>3. LandingIsForElderly'
  BY DEF IInv, TypeOK, LandingIsForElderly, OffIsChecked,
     Launch, presentSignin, viewDidLoad, signout, InFlight
<1>4. Solo'
  BY DEF IInv, TypeOK, Solo, OffIsIdle,
     Launch, presentSignin, viewDidLoad, signout, InFlight
<1>5. OffIsIdle'
  BY DEF IInv, TypeOK, OffIsIdle, Launch, presentSignin, viewDidLoad,
     signout, InFlight
<1>6. OffIsChecked'
  BY DEF IInv, TypeOK, OffIsChecked, Launch, presentSignin, viewDidLoad,
     signout, InFlight
<1> QED BY <1>1, <1>2, <1>3, <1>4, <1>5, <1>6 DEF IInv

(***************************************************************************)
(* An attempt that begins beside another sets overlapped.                  *)
(***************************************************************************)
LEMMA ClickHolds ==
    ASSUME IInv, NEW k \in Attempts, NEW u \in Users \cup {None},
           clickedSignIn(k, u)
    PROVE  IInv'
<1>1. TypeOK'
  BY DEF IInv, TypeOK, clickedSignIn, InFlight
<1>2. WrongRoleIsBeingChecked'
  BY DEF IInv, TypeOK, WrongRoleIsBeingChecked, clickedSignIn, InFlight
<1>3. LandingIsForElderly'
  BY DEF IInv, TypeOK, LandingIsForElderly, Solo, clickedSignIn, InFlight
<1>4. Solo'
  BY DEF IInv, TypeOK, Solo, OffIsIdle, clickedSignIn, InFlight
<1>5. OffIsIdle'
  BY DEF IInv, TypeOK, OffIsIdle, clickedSignIn, InFlight
<1>6. OffIsChecked'
  BY DEF IInv, TypeOK, OffIsChecked, clickedSignIn, InFlight
<1> QED BY <1>1, <1>2, <1>3, <1>4, <1>5, <1>6 DEF IInv

(***************************************************************************)
(* An attempt the service refuses has not changed the user.                *)
(***************************************************************************)
LEMMA RefusedHolds ==
    ASSUME IInv, NEW k \in Attempts, AuthRefused(k)
    PROVE  IInv'
<1>1. TypeOK'
  BY DEF IInv, TypeOK, AuthRefused, ResultShown, Ends
<1>2. WrongRoleIsBeingChecked'
  BY DEF IInv, TypeOK, WrongRoleIsBeingChecked, AuthRefused, ResultShown, Ends
<1>3. LandingIsForElderly'
  BY DEF IInv, TypeOK, LandingIsForElderly, Solo,
     AuthRefused, ResultShown, Ends
<1>4. Solo'
  BY DEF IInv, TypeOK, Solo, OffIsIdle, AuthRefused, ResultShown, Ends
<1>5. OffIsIdle'
  BY DEF IInv, TypeOK, OffIsIdle, AuthRefused, ResultShown, Ends
<1>6. OffIsChecked'
  BY DEF IInv, TypeOK, OffIsChecked, AuthRefused, ResultShown, Ends
<1> QED BY <1>1, <1>2, <1>3, <1>4, <1>5, <1>6 DEF IInv

(***************************************************************************)
(* Neither has one that fails with an unknown code.                        *)
(***************************************************************************)
LEMMA OddHolds ==
    ASSUME IInv, NEW k \in Attempts, AuthFailedOddly(k)
    PROVE  IInv'
<1>1. TypeOK'
  BY DEF IInv, TypeOK, AuthFailedOddly, Silent, Ends
<1>2. WrongRoleIsBeingChecked'
  BY DEF IInv, TypeOK, WrongRoleIsBeingChecked, AuthFailedOddly, Silent, Ends
<1>3. LandingIsForElderly'
  BY DEF IInv, TypeOK, LandingIsForElderly, Solo,
     AuthFailedOddly, Silent, Ends
<1>4. Solo'
  BY DEF IInv, TypeOK, Solo, OffIsIdle, AuthFailedOddly, Silent, Ends
<1>5. OffIsIdle'
  BY DEF IInv, TypeOK, OffIsIdle, AuthFailedOddly, Silent, Ends
<1>6. OffIsChecked'
  BY DEF IInv, TypeOK, OffIsChecked, AuthFailedOddly, Silent, Ends
<1> QED BY <1>1, <1>2, <1>3, <1>4, <1>5, <1>6 DEF IInv

(***************************************************************************)
(* The new user comes with an attempt whose callback is still to run.      *)
(***************************************************************************)
LEMMA AcceptedHolds ==
    ASSUME IInv, NEW k \in Attempts, AuthAccepted(k)
    PROVE  IInv'
<1>1. TypeOK'
  BY DEF IInv, TypeOK, AuthAccepted
<1>2. WrongRoleIsBeingChecked'
  BY DEF IInv, TypeOK, WrongRoleIsBeingChecked, AuthAccepted
<1>3. LandingIsForElderly'
  BY DEF IInv, TypeOK, LandingIsForElderly, Solo, AuthAccepted
<1>4. Solo'
  BY DEF IInv, TypeOK, Solo, OffIsIdle, AuthAccepted
<1>5. OffIsIdle'
  BY DEF IInv, TypeOK, OffIsIdle, AuthAccepted
<1>6. OffIsChecked'
  BY DEF IInv, TypeOK, OffIsIdle, OffIsChecked, AuthAccepted
<1> QED BY <1>1, <1>2, <1>3, <1>4, <1>5, <1>6 DEF IInv

(***************************************************************************)
(* The callback asks for the role of the current user.                     *)
(***************************************************************************)
LEMMA CallbackHolds ==
    ASSUME IInv, NEW k \in Attempts, signinCallback(k)
    PROVE  IInv'
<1>1. TypeOK'
  BY DEF IInv, TypeOK, signinCallback, Silent, Ends
<1>2. WrongRoleIsBeingChecked'
  BY DEF IInv, TypeOK, WrongRoleIsBeingChecked, signinCallback, Silent, Ends
<1>3. LandingIsForElderly'
  BY DEF IInv, TypeOK, LandingIsForElderly, Solo, signinCallback, Silent, Ends
<1>4. Solo'
  BY DEF IInv, TypeOK, Solo, OffIsIdle, signinCallback, Silent, Ends
<1>5. OffIsIdle'
  BY DEF IInv, TypeOK, OffIsIdle, signinCallback, Silent, Ends
<1>6. OffIsChecked'
  BY DEF IInv, TypeOK, OffIsChecked, signinCallback, Silent, Ends
<1> QED BY <1>1, <1>2, <1>3, <1>4, <1>5, <1>6 DEF IInv

(***************************************************************************)
(* The attempt that ends was not the one checking a staff account.         *)
(***************************************************************************)
LEMMA MissingHolds ==
    ASSUME IInv, NEW k \in Attempts, RoleMissing(k)
    PROVE  IInv'
<1>1. TypeOK'
  BY DEF IInv, TypeOK, RoleMissing, ResultShown, Ends
<1>2. WrongRoleIsBeingChecked'
  BY DEF IInv, TypeOK, WrongRoleIsBeingChecked, RoleMissing, ResultShown, Ends
<1>3. LandingIsForElderly'
  BY DEF IInv, TypeOK, LandingIsForElderly, Solo,
     RoleMissing, ResultShown, Ends
<1>4. Solo'
  BY DEF IInv, TypeOK, Solo, OffIsIdle, RoleMissing, ResultShown, Ends
<1>5. OffIsIdle'
  BY DEF IInv, TypeOK, OffIsIdle, RoleMissing, ResultShown, Ends
<1>6. OffIsChecked'
  BY DEF IInv, TypeOK, OffIsChecked, RoleMissing, ResultShown, Ends
<1> QED BY <1>1, <1>2, <1>3, <1>4, <1>5, <1>6 DEF IInv

(***************************************************************************)
(* The login screen goes away for the user the role was asked for, unless  *)
(* attempts overlap.                                                       *)
(***************************************************************************)
LEMMA ElderlyHolds ==
    ASSUME IInv, NEW k \in Attempts, RoleElderly(k)
    PROVE  IInv'
<1>1. TypeOK'
  BY DEF IInv, TypeOK, RoleElderly, ResultShown, Ends
<1>2. WrongRoleIsBeingChecked'
  BY DEF IInv, TypeOK, WrongRoleIsBeingChecked, RoleElderly, ResultShown, Ends
<1>3. LandingIsForElderly'
  BY NoneAssumption DEF IInv, TypeOK, LandingIsForElderly, Solo,
     RoleElderly, ResultShown, Ends
<1>4. Solo'
  BY DEF IInv, TypeOK, Solo, OffIsIdle, RoleElderly, ResultShown, Ends
<1>5. OffIsIdle'
  BY DEF IInv, TypeOK, OffIsIdle, RoleElderly, ResultShown, Ends
<1>6. OffIsChecked'
  BY DEF IInv, TypeOK, OffIsChecked, RoleElderly, ResultShown, Ends
<1> QED BY <1>1, <1>2, <1>3, <1>4, <1>5, <1>6 DEF IInv

(***************************************************************************)
(* A user of the wrong role is signed out, or survives.                    *)
(***************************************************************************)
LEMMA WrongHolds ==
    ASSUME IInv, NEW k \in Attempts, RoleWrong(k)
    PROVE  IInv'
<1>1. TypeOK'
  BY DEF IInv, TypeOK, RoleWrong, ResultShown, Ends, signout
<1>2. WrongRoleIsBeingChecked'
  BY DEF IInv, TypeOK, WrongRoleIsBeingChecked,
     RoleWrong, ResultShown, Ends, signout
<1>3. LandingIsForElderly'
  BY DEF IInv, TypeOK, LandingIsForElderly, Solo,
     RoleWrong, ResultShown, Ends, signout
<1>4. Solo'
  BY DEF IInv, TypeOK, Solo, OffIsIdle, RoleWrong, ResultShown, Ends, signout
<1>5. OffIsIdle'
  BY DEF IInv, TypeOK, OffIsIdle, RoleWrong, ResultShown, Ends, signout
<1>6. OffIsChecked'
  BY DEF IInv, TypeOK, OffIsChecked, RoleWrong, ResultShown, Ends, signout
<1> QED BY <1>1, <1>2, <1>3, <1>4, <1>5, <1>6 DEF IInv

(***************************************************************************)
(* A refused check leaves a survivor.                                      *)
(***************************************************************************)
LEMMA RoleRefusedHolds ==
    ASSUME IInv, NEW k \in Attempts, RoleRefused(k)
    PROVE  IInv'
<1>1. TypeOK'
  BY DEF IInv, TypeOK, RoleRefused, Ends
<1>2. WrongRoleIsBeingChecked'
  BY DEF IInv, TypeOK, WrongRoleIsBeingChecked, RoleRefused, Ends
<1>3. LandingIsForElderly'
  BY DEF IInv, TypeOK, LandingIsForElderly, Solo, RoleRefused, Ends
<1>4. Solo'
  BY DEF IInv, TypeOK, Solo, OffIsIdle, RoleRefused, Ends
<1>5. OffIsIdle'
  BY DEF IInv, TypeOK, OffIsIdle, RoleRefused, Ends
<1>6. OffIsChecked'
  BY DEF IInv, TypeOK, OffIsChecked, RoleRefused, Ends
<1> QED BY <1>1, <1>2, <1>3, <1>4, <1>5, <1>6 DEF IInv

(***************************************************************************)
(* A session that ends by itself leaves nobody, on any screen.             *)
(***************************************************************************)
LEMMA SessionEndsHolds ==
    ASSUME IInv, SessionEnds
    PROVE  IInv'
<1>1. TypeOK'
  BY DEF IInv, TypeOK, SessionEnds
<1>2. WrongRoleIsBeingChecked' /\ LandingIsForElderly'
  BY DEF SessionEnds, WrongRoleIsBeingChecked, LandingIsForElderly
<1>3. Solo'
  BY DEF IInv, TypeOK, Solo, SessionEnds
<1>4. OffIsIdle' /\ OffIsChecked'
  BY DEF OffIsIdle, OffIsChecked, SessionEnds
<1> QED BY <1>1, <1>2, <1>3, <1>4 DEF IInv

(***************************************************************************)
(* Signing out leaves nobody, or a survivor.                               *)
(***************************************************************************)
LEMMA SignOutHolds ==
    ASSUME IInv, handleSignOut
    PROVE  IInv'
<1>1. TypeOK'
  BY DEF IInv, TypeOK, handleSignOut, presentSignin, viewDidLoad, signout,
     InFlight
<1>2. WrongRoleIsBeingChecked'
  BY DEF IInv, TypeOK, WrongRoleIsBeingChecked,
     handleSignOut, presentSignin, viewDidLoad, signout, InFlight
<1>3. LandingIsForElderly'
  BY DEF IInv, TypeOK, LandingIsForElderly, Solo,
     handleSignOut, presentSignin, viewDidLoad, signout, InFlight
<1>4. Solo'
  BY DEF IInv, TypeOK, Solo, OffIsIdle,
     handleSignOut, presentSignin, viewDidLoad, signout, InFlight
<1>5. OffIsIdle'
  BY DEF IInv, TypeOK, OffIsIdle,
     handleSignOut, presentSignin, viewDidLoad, signout, InFlight
<1>6. OffIsChecked'
  BY DEF IInv, TypeOK, OffIsChecked,
     handleSignOut, presentSignin, viewDidLoad, signout, InFlight
<1> QED BY <1>1, <1>2, <1>3, <1>4, <1>5, <1>6 DEF IInv

(***************************************************************************)
(* A kill drops all checks; on the landing screen there was none to drop,  *)
(* unless attempts overlapped.                                             *)
(***************************************************************************)
LEMMA KillHolds ==
    ASSUME IInv, Kill
    PROVE  IInv'
<1>1. TypeOK'
  BY DEF IInv, TypeOK, Kill
<1>2. WrongRoleIsBeingChecked'
  BY DEF IInv, TypeOK, WrongRoleIsBeingChecked, LandingIsForElderly, Solo,  
      Kill
<1>3. LandingIsForElderly'
  BY DEF IInv, TypeOK, LandingIsForElderly, Solo, OffIsChecked, Kill
<1>4. Solo'
  BY DEF IInv, TypeOK, Solo, OffIsIdle, Kill
<1>5. OffIsIdle'
  BY DEF IInv, TypeOK, OffIsIdle, Kill
<1>6. OffIsChecked'
  BY DEF IInv, TypeOK, OffIsChecked, LandingIsForElderly, Kill
<1> QED BY <1>1, <1>2, <1>3, <1>4, <1>5, <1>6 DEF IInv

(***************************************************************************)
(* Every step preserves the invariant.                                     *)
(***************************************************************************)
LEMMA StepHolds == IInv /\ [Next]_vars => IInv'
<1> SUFFICES ASSUME IInv, [Next]_vars PROVE IInv'
    OBVIOUS
<1>1. CASE Launch
  BY <1>1, LaunchHolds
<1>2. CASE \E k \in Attempts, u \in Users \cup {None} : clickedSignIn(k, u)
  BY <1>2, ClickHolds
<1>3. ASSUME NEW k \in Attempts, AttemptStep(k) PROVE IInv'
  BY <1>3, RefusedHolds, OddHolds, AcceptedHolds, CallbackHolds, MissingHolds,
     ElderlyHolds, WrongHolds, RoleRefusedHolds DEF AttemptStep
<1>4. CASE handleSignOut
  BY <1>4, SignOutHolds
<1>5. CASE Kill
  BY <1>5, KillHolds
<1>7. CASE SessionEnds
  BY <1>7, SessionEndsHolds
<1>6. CASE UNCHANGED vars
  <2>1. TypeOK' /\ WrongRoleIsBeingChecked' /\ LandingIsForElderly'
    BY <1>6 DEF vars, IInv, TypeOK, WrongRoleIsBeingChecked, LandingIsForElderly
  <2>2. Solo' /\ OffIsIdle' /\ OffIsChecked'
    BY <1>6 DEF vars, IInv, Solo, OffIsIdle, OffIsChecked
  <2> QED BY <2>1, <2>2 DEF IInv
<1> QED BY <1>1, <1>2, <1>3, <1>4, <1>5, <1>6, <1>7 DEF Next

(***************************************************************************)
(* The invariant holds throughout, whoever signs in and is killed when.    *)
(***************************************************************************)
THEOREM Inductive == Spec => []IInv
<1> QED BY InitHolds, StepHolds, PTL DEF Spec

(***************************************************************************)
(* An account of the wrong role that is the current user is being checked, *)
(* however sign-in attempts overlap, unless it outlived a kill, a refused  *)
(* check or a failed sign-out.                                             *)
(***************************************************************************)
THEOREM WrongRoleChecked == Spec => []WrongRoleIsBeingChecked
<1>1. IInv => WrongRoleIsBeingChecked
  BY DEF IInv
<1> QED BY <1>1, Inductive, PTL

(***************************************************************************)
(* Without overlapping attempts and such survivors the landing screen is   *)
(* only up for an elderly user, or for nobody after a session that ended   *)
(* by itself.                                                              *)
(***************************************************************************)
THEOREM LandingChecked == Spec => []LandingIsForElderly
<1>1. IInv => LandingIsForElderly
  BY DEF IInv
<1> QED BY <1>1, Inductive, PTL

(***************************************************************************)
(* Every variable of the session keeps its type: an attempt is never found *)
(* with a uid, a screen or a stage the sign-in screens do not know.        *)
(***************************************************************************)
THEOREM TypeCorrect == Spec => []TypeOK
<1>1. IInv => TypeOK
  BY DEF IInv
<1> QED BY <1>1, Inductive, PTL

-----------------------------------------------------------------------------
\* The device (Accounts).

NoOthersUnderWay == ~leftover => UnderWay \subseteq {currentUser}

\* The inductive invariant.
AInv == LandingTypeOK /\ NoOthersUnderWay /\ OwnRequestsOnly

(***************************************************************************)
(* Before the first launch there is nothing to show and nothing under way. *)
(***************************************************************************)
LEMMA AccountsInitHolds == AccountsInit => AInv
<1> SUFFICES ASSUME AccountsInit PROVE AInv
    OBVIOUS
<1>1. LandingTypeOK
  BY DEF AccountsInit, LandingTypeOK
<1>2. NoOthersUnderWay
  BY DEF AccountsInit, NoOthersUnderWay, UnderWay
<1>3. OwnRequestsOnly
  BY DEF AccountsInit, OwnRequestsOnly
<1> QED BY <1>1, <1>2, <1>3 DEF AInv

(***************************************************************************)
(* A refresh is begun for the current user only.                           *)
(***************************************************************************)
LEMMA BegunForCurrent ==
    ASSUME LandingTypeOK, NoOthersUnderWay, fetchAllUserRequests,
           leftover' = leftover, currentUser' = currentUser
    PROVE  fetches' \in [Users -> Nat] /\ NoOthersUnderWay'
<1>1. fetches' \in [Users -> Nat]
  BY DEF LandingTypeOK, fetchAllUserRequests
<1>2. ASSUME NEW u \in Users, u # currentUser PROVE fetches'[u] = fetches[u]
  BY <1>2 DEF LandingTypeOK, fetchAllUserRequests
<1>3. NoOthersUnderWay'
  BY <1>2 DEF NoOthersUnderWay, UnderWay
<1> QED BY <1>1, <1>3

(***************************************************************************)
(* A launch leaves the current user as it was.                             *)
(***************************************************************************)
LEMMA LaunchKeepsUser == Launch => currentUser' = currentUser
<1> QED BY DEF Launch, presentSignin, viewDidLoad, signout

(***************************************************************************)
(* A launch shows the cache, which was the current user's if the list was. *)
(***************************************************************************)
LEMMA LaunchLandingHolds ==
    ASSUME AInv, LaunchLanding
    PROVE  AInv'
<1>1. currentUser' = currentUser /\ refreshed' = refreshed /\ leftover' = leftover
  BY LaunchKeepsUser DEF LaunchLanding, session
<1>2. fetches' \in [Users -> Nat] /\ NoOthersUnderWay'
  BY <1>1, BegunForCurrent DEF AInv, LaunchLanding
<1>3. LandingTypeOK'
  BY <1>1, <1>2 DEF AInv, LandingTypeOK, LaunchLanding
<1>4. OwnRequestsOnly'
  BY <1>1 DEF AInv, OwnRequestsOnly, LaunchLanding
<1> QED BY <1>2, <1>3, <1>4 DEF AInv

(***************************************************************************)
(* Whoever signs in or out, the history tells whether another's refresh is *)
(* left over.                                                              *)
(***************************************************************************)
LEMMA SessionHolds ==
    ASSUME AInv, SessionGoesOn, UNCHANGED landing
    PROVE  AInv'
<1>1. list' = list /\ cache' = cache /\ fetches' = fetches
  BY DEF landing
<1>2. LandingTypeOK'
  <2>1. refreshed' \in BOOLEAN /\ leftover' \in BOOLEAN
    BY DEF AInv, LandingTypeOK, SessionGoesOn, OthersUnderWay
  <2> QED BY <1>1, <2>1 DEF AInv, LandingTypeOK
<1>3. NoOthersUnderWay'
  <2>1. CASE currentUser' = currentUser
    BY <1>1, <2>1 DEF AInv, NoOthersUnderWay, UnderWay, SessionGoesOn
  <2>2. CASE currentUser' # currentUser
    <3>1. ~leftover' => UnderWay' \ {currentUser'} = {}
      BY <2>2 DEF SessionGoesOn, OthersUnderWay
    <3>2. UnderWay' = UnderWay
      BY <1>1 DEF UnderWay
    <3> QED BY <3>1, <3>2 DEF NoOthersUnderWay
  <2> QED BY <2>1, <2>2
<1>4. OwnRequestsOnly'
  BY <1>1 DEF AInv, OwnRequestsOnly, SessionGoesOn
<1> QED BY <1>2, <1>3, <1>4 DEF AInv

(***************************************************************************)
(* A pull, or the way back from a request.                                 *)
(***************************************************************************)
LEMMA RefreshHolds ==
    ASSUME AInv, refreshData
    PROVE  AInv'
<1>1. /\ currentUser' = currentUser /\ refreshed' = refreshed
      /\ leftover' = leftover /\ list' = list /\ cache' = cache
  BY DEF refreshData, vars, session
<1>2. fetches' \in [Users -> Nat] /\ NoOthersUnderWay'
  BY <1>1, BegunForCurrent DEF AInv, refreshData
<1>3. LandingTypeOK' /\ OwnRequestsOnly'
  BY <1>1, <1>2 DEF AInv, LandingTypeOK, OwnRequestsOnly
<1> QED BY <1>2, <1>3 DEF AInv

(***************************************************************************)
(* A refresh is over: if it was left over that is known, else it is the    *)
(* current user's.                                                         *)
(***************************************************************************)
LEMMA CompleteHolds ==
    ASSUME AInv, NEW u \in Users, Complete(u)
    PROVE  AInv'
<1>1. currentUser' = currentUser
  BY DEF Complete, vars
<1>2. fetches \in [Users -> Nat] /\ fetches[u] > 0
  BY DEF AInv, LandingTypeOK, Complete
<1>3. fetches' \in [Users -> Nat] /\ \A v \in Users : fetches'[v] <= fetches[v]
  BY <1>2 DEF Complete
<1>4. UnderWay' \subseteq UnderWay
  BY <1>2, <1>3 DEF UnderWay
<1>5. PICK fetched \in {{}, {u}} :
        \/ /\ cache' = fetched
           /\ refreshed' = (refreshed \/ u = currentUser)
           /\ leftover' = IF u = currentUser THEN OthersUnderWay' ELSE leftover
        \/ /\ \E stay \in SUBSET cache : cache' = stay \cup fetched
           /\ refreshed' = FALSE
           /\ leftover' = leftover
  BY DEF Complete, updateSavedRequests, updateThrows
<1>6. list' \in {cache', {}}
  BY DEF Complete
<1>7. LandingTypeOK'
  <2>1. cache' \subseteq Users /\ refreshed' \in BOOLEAN
    BY <1>5 DEF AInv, LandingTypeOK
  <2>2. leftover' \in BOOLEAN
    BY <1>5 DEF AInv, LandingTypeOK, OthersUnderWay
  <2> QED BY <1>3, <1>6, <2>1, <2>2 DEF LandingTypeOK
<1>8. NoOthersUnderWay'
  <2>1. CASE leftover' = leftover
    BY <1>1, <1>4, <2>1 DEF AInv, NoOthersUnderWay
  <2>2. CASE leftover' # leftover
    BY <1>5, <2>2 DEF NoOthersUnderWay, OthersUnderWay
  <2> QED BY <2>1, <2>2
<1>9. OwnRequestsOnly'
  <2> SUFFICES ASSUME refreshed', ~leftover'
               PROVE  list' \cup cache' \subseteq {currentUser}
    BY <1>1 DEF OwnRequestsOnly
  <2>1. cache' = fetched
    BY <1>5
  <2>2. u = currentUser
    <3>1. ~leftover \/ u = currentUser
      BY <1>5
    <3> QED BY <1>2, <3>1 DEF AInv, NoOthersUnderWay, UnderWay
  <2> QED BY <1>6, <2>1, <2>2
<1> QED BY <1>7, <1>8, <1>9 DEF AInv

(***************************************************************************)
(* A refresh that stalls changes nothing.                                  *)
(***************************************************************************)
LEMMA StallHolds ==
    ASSUME AInv, NEW u \in Users, Stall(u)
    PROVE  AInv'
<1>1. /\ currentUser' = currentUser /\ leftover' = leftover
      /\ refreshed' = refreshed /\ list' = list /\ cache' = cache
  BY DEF Stall, vars, session
<1>2. fetches \in [Users -> Nat] /\ fetches[u] > 0
  BY DEF AInv, LandingTypeOK, Stall
<1>3. fetches' \in [Users -> Nat] /\ \A v \in Users : fetches'[v] <= fetches[v]
  BY <1>2 DEF Stall
<1>4. LandingTypeOK' /\ OwnRequestsOnly'
  BY <1>1, <1>3 DEF AInv, LandingTypeOK, OwnRequestsOnly
<1>5. NoOthersUnderWay'
  BY <1>1, <1>2, <1>3 DEF AInv, NoOthersUnderWay, UnderWay
<1> QED BY <1>4, <1>5 DEF AInv

(***************************************************************************)
(* A kill forgets all refreshes, and with them what was left over.         *)
(***************************************************************************)
LEMMA KillLandingHolds ==
    ASSUME AInv, KillLanding
    PROVE  AInv'
<1>1. cache' \subseteq Users
  BY DEF AInv, LandingTypeOK, KillLanding, UnderWay
<1>2. LandingTypeOK'
  BY <1>1 DEF KillLanding, LandingTypeOK
<1>3. NoOthersUnderWay' /\ OwnRequestsOnly'
  BY DEF KillLanding, NoOthersUnderWay, UnderWay, OwnRequestsOnly
<1> QED BY <1>2, <1>3 DEF AInv

(***************************************************************************)
(* Every step preserves the invariant.                                     *)
(***************************************************************************)
LEMMA AccountsStepHolds == AInv /\ [AccountsNext]_allVars => AInv'
<1> SUFFICES ASSUME AInv, [AccountsNext]_allVars PROVE AInv'
    OBVIOUS
<1>1. CASE LaunchLanding
  BY <1>1, LaunchLandingHolds
<1>2. CASE SessionStep
  BY <1>2, SessionHolds DEF SessionStep
<1>3. CASE refreshData
  BY <1>3, RefreshHolds
<1>4. CASE \E u \in Users : Complete(u) \/ Stall(u)
  BY <1>4, CompleteHolds, StallHolds
<1>5. CASE KillLanding
  BY <1>5, KillLandingHolds
<1>6. CASE UNCHANGED allVars
  BY <1>6 DEF allVars, landing, session, vars, AInv, LandingTypeOK,
              NoOthersUnderWay, UnderWay, OwnRequestsOnly
<1> QED BY <1>1, <1>2, <1>3, <1>4, <1>5, <1>6 DEF AccountsNext

(***************************************************************************)
(* Once the current user's requests have been fetched nobody else's are in *)
(* the list or the cache, whatever is signed in, out, refreshed and killed *)
(* in between, unless the last update of the cache failed to read it or    *)
(* another account's refresh was left over.                                *)
(***************************************************************************)
THEOREM OwnRequestsOnlyHolds == AccountsSpec => []OwnRequestsOnly
<1>1. AInv => OwnRequestsOnly
  BY DEF AInv
<1> QED BY <1>1, AccountsInitHolds, AccountsStepHolds, PTL DEF AccountsSpec

(***************************************************************************)
(* The steps of the device are those of the session, or leave it alone.    *)
(***************************************************************************)
LEMMA ImplementsSignIn == AccountsSpec => Spec
<1>1. AccountsInit => Init
  BY DEF AccountsInit
<1>2. [AccountsNext]_allVars => [Next]_vars
  <2> SUFFICES ASSUME [AccountsNext]_allVars PROVE [Next]_vars
      OBVIOUS
  <2>1. CASE LaunchLanding
    BY <2>1 DEF LaunchLanding, Next
  <2>2. CASE SessionStep
    BY <2>2 DEF SessionStep, Next
  <2>3. CASE refreshData
    BY <2>3 DEF refreshData
  <2>4. CASE \E u \in Users : Complete(u) \/ Stall(u)
    BY <2>4 DEF Complete, Stall
  <2>5. CASE KillLanding
    BY <2>5 DEF KillLanding, Next
  <2>6. CASE UNCHANGED allVars
    BY <2>6 DEF allVars
  <2> QED BY <2>1, <2>2, <2>3, <2>4, <2>5, <2>6 DEF AccountsNext
<1> QED BY <1>1, <1>2, PTL DEF AccountsSpec, Spec

(***************************************************************************)
(* What is proved of the session holds of the device: while nobody signs   *)
(* in twice at once, only an elderly user, or nobody once the session has  *)
(* ended, has the landing screen and the requests in it before them.       *)
(***************************************************************************)
THEOREM DeviceLandingChecked == AccountsSpec => []LandingIsForElderly
<1> QED BY ImplementsSignIn, LandingChecked, PTL

(***************************************************************************)
(* And so does the type correctness of the session.                        *)
(***************************************************************************)
THEOREM DeviceTypeCorrect == AccountsSpec => []TypeOK
<1> QED BY ImplementsSignIn, TypeCorrect, PTL
=============================================================================
