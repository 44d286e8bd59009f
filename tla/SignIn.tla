------------------------------- MODULE SignIn -------------------------------
(***************************************************************************)
(* The session: FirAuthHandler, LoginViewController, the scene delegate's  *)
(* choice of the first screen, and the sign-out of the profile card.       *)
(*                                                                         *)
(* Signing in takes two answers, of the authentication service and then of *)
(* the database, which tells the account's role.  The button stays enabled *)
(* meanwhile, so that attempts overlap, while there is only one current    *)
(* user; and Firebase keeps that user across launches, checked or not.     *)
(* The session may also end by itself, at any time.                        *)
(***************************************************************************)
EXTENDS Naturals

CONSTANTS
    Users,      \* accounts
    Role,       \* the role of each: "elderly", "staff" or "missing"
    Attempts,   \* identities of calls of signin that are under way at once
    None        \* nil

ASSUME RoleAssumption == Role \in [Users -> {"elderly", "staff", "missing"}]

ASSUME NoneAssumption == None \notin Users

VARIABLES
    screen,         \* "off", "login" or "landing"
    currentUser,    \* Auth.auth().currentUser, kept across launches
    stage,          \* of each attempt: "idle", "auth", "signed" or "role"
    uid,            \* of each attempt: the account typed in, then the uid read
    mine,           \* attempts made on the login screen that is up now
    spinner,        \* loadIndicator is animating
    dropped,        \* history: an attempt of this screen ended without result
    overlapped,     \* history: attempts overlapped since the last sign-out
    survived,       \* history: the current user outlived a kill before it was
                    \* checked, a check that was refused or a failed sign-out
    ended           \* history: there is no user because the session has ended

vars == <<screen, currentUser, stage, uid, mine, spinner, dropped, overlapped,
          survived, ended>>

InFlight == {k \in Attempts : stage[k] # "idle"}

(***************************************************************************)
(* FirAuthHandler.signout, of whoever is the current user.  If the         *)
(* keychain throws, the error is printed and the user stays.               *)
(***************************************************************************)
signout ==
    \/ currentUser' = None /\ survived' = FALSE /\ ended' = FALSE
    \/ /\ currentUser # None
       /\ survived' = TRUE
       /\ UNCHANGED <<currentUser, ended>>

(***************************************************************************)
(* LoginViewController.viewDidLoad signs out.  Attempts of an earlier      *)
(* login screen go on, for a screen that is gone.                          *)
(***************************************************************************)
viewDidLoad ==
    /\ signout
    /\ mine' = {}
    /\ spinner' = FALSE
    /\ dropped' = FALSE
    /\ overlapped' = (InFlight # {})

(***************************************************************************)
(* FirAuthHandler.presentSignin: a new login screen.                       *)
(***************************************************************************)
presentSignin == screen' = "login" /\ viewDidLoad

(***************************************************************************)
(* SceneDelegate.scene(willConnectTo:): no login if there is a user.       *)
(***************************************************************************)
Launch ==
    /\ screen = "off"
    /\ \/ /\ currentUser = None
          /\ presentSignin
       \/ /\ currentUser # None
          /\ screen' = "landing"
          /\ UNCHANGED <<currentUser, mine, spinner, dropped, overlapped,
                         survived, ended>>
    /\ UNCHANGED <<stage, uid>>

(***************************************************************************)
(* clickedSignIn, for the account u or for an email or password that is    *)
(* none.                                                                   *)
(***************************************************************************)
clickedSignIn(k, u) ==
    /\ screen = "login"
    /\ stage[k] = "idle"
    /\ stage' = [stage EXCEPT ![k] = "auth"]
    /\ uid' = [uid EXCEPT ![k] = u]
    /\ mine' = mine \cup {k}
    /\ spinner' = TRUE
    /\ overlapped' = (overlapped \/ InFlight # {})
    /\ UNCHANGED <<screen, currentUser, dropped, survived, ended>>

(***************************************************************************)
(* An attempt is over.                                                     *)
(***************************************************************************)
Ends(k) ==
    /\ stage' = [stage EXCEPT ![k] = "idle"]
    /\ uid' = [uid EXCEPT ![k] = None]
    /\ mine' = mine \ {k}

(***************************************************************************)
(* The completion of LoginViewController.signIn, up to the error shown.    *)
(* Each result stops the spinner of its own screen.                        *)
(***************************************************************************)
ResultShown(k) ==
    /\ Ends(k)
    /\ spinner' = IF k \in mine THEN FALSE ELSE spinner

\* The callback returns without a result.
Silent(k) ==
    /\ Ends(k)
    /\ dropped' = (dropped \/ k \in mine)
    /\ UNCHANGED <<screen, currentUser, spinner, overlapped, survived, ended>>

\* Mutant of AuthRefused: the result is not reported.
AuthRefusedSilently(k) ==
    /\ stage[k] = "auth"
    /\ Ends(k)
    /\ UNCHANGED <<screen, currentUser, spinner, dropped, overlapped, survived,
                   ended>>

(***************************************************************************)
(* The authentication service refuses: handleAuthErrors turns every error  *)
(* code it knows of into a result; a code unknown to the enum gives none.  *)
(***************************************************************************)
AuthRefused(k) ==
    /\ stage[k] = "auth"
    /\ ResultShown(k)
    /\ UNCHANGED <<screen, currentUser, dropped, overlapped, survived, ended>>

AuthFailedOddly(k) == stage[k] = "auth" /\ Silent(k)

(***************************************************************************)
(* The service accepts: FirebaseAuth sets and stores the current user on a *)
(* queue of its own, and then queues the callback on the main thread.      *)
(***************************************************************************)
AuthAccepted(k) ==
    /\ stage[k] = "auth"
    /\ uid[k] # None
    /\ currentUser' = uid[k]
    /\ stage' = [stage EXCEPT ![k] = "signed"]
    /\ survived' = FALSE
    /\ ended' = FALSE
    /\ UNCHANGED <<screen, uid, mine, spinner, dropped, overlapped>>

\* Mutant of signinCallback: nil is not ruled out.
signinCallbackNoGuard(k) ==
    /\ stage[k] = "signed"
    /\ stage' = [stage EXCEPT ![k] = "role"]
    /\ uid' = [uid EXCEPT ![k] = currentUser]
    /\ UNCHANGED <<screen, currentUser, mine, spinner, dropped, overlapped,
                   survived, ended>>

(***************************************************************************)
(* The callback reads the uid of whoever is the current user by now, and   *)
(* asks for the role, or returns if there is none.                         *)
(***************************************************************************)
signinCallback(k) ==
    /\ stage[k] = "signed"
    /\ \/ /\ currentUser # None
          /\ stage' = [stage EXCEPT ![k] = "role"]
          /\ uid' = [uid EXCEPT ![k] = currentUser]
          /\ UNCHANGED <<screen, currentUser, mine, spinner, dropped,
                         overlapped, survived, ended>>
       \/ currentUser = None /\ Silent(k)

\* Mutants of RoleMissing and RoleWrong: an account without a role passes; an
\* account with another role is turned away, but stays signed in.
RoleMissingPasses(k) ==
    /\ stage[k] = "role"
    /\ Role[uid[k]] = "missing"
    /\ ResultShown(k)
    /\ screen' = IF k \in mine THEN "landing" ELSE screen
    /\ UNCHANGED <<currentUser, dropped, overlapped, survived, ended>>

RoleWrongStays(k) ==
    /\ stage[k] = "role"
    /\ Role[uid[k]] = "staff"
    /\ ResultShown(k)
    /\ UNCHANGED <<screen, currentUser, dropped, overlapped, survived, ended>>

(***************************************************************************)
(* The role is answered.  None: an error is shown and the user stays.      *)
(***************************************************************************)
RoleMissing(k) ==
    /\ stage[k] = "role"
    /\ Role[uid[k]] = "missing"
    /\ ResultShown(k)
    /\ UNCHANGED <<screen, currentUser, dropped, overlapped, survived, ended>>

(***************************************************************************)
(* "elderly": finishSignIn dismisses the login screen of the attempt.      *)
(***************************************************************************)
RoleElderly(k) ==
    /\ stage[k] = "role"
    /\ Role[uid[k]] = "elderly"
    /\ ResultShown(k)
    /\ screen' = IF k \in mine /\ screen = "login" THEN "landing" ELSE screen
    /\ UNCHANGED <<currentUser, dropped, overlapped, survived, ended>>

(***************************************************************************)
(* Any other role: signout, and an error.                                  *)
(***************************************************************************)
RoleWrong(k) ==
    /\ stage[k] = "role"
    /\ Role[uid[k]] = "staff"
    /\ ResultShown(k)
    /\ signout
    /\ UNCHANGED <<screen, dropped, overlapped>>

(***************************************************************************)
(* The read of the role is refused.  It has no cancel block: no callback   *)
(* runs, the spinner goes on and the user stays signed in, unchecked.      *)
(***************************************************************************)
RoleRefused(k) ==
    /\ stage[k] = "role"
    /\ Ends(k)
    /\ dropped' = (dropped \/ k \in mine)
    /\ survived' = (survived \/ uid[k] = currentUser)
    /\ UNCHANGED <<screen, currentUser, spinner, overlapped, ended>>

(***************************************************************************)
(* ProfileViewController.handleSignOut                                     *)
(***************************************************************************)
handleSignOut ==
    /\ screen = "landing"
    /\ presentSignin
    /\ UNCHANGED <<stage, uid>>

(***************************************************************************)
(* FIRUser.signOutIfTokenIsInvalid: a request of the SDK finds the account *)
(* disabled or the token revoked, and the session ends.  The app does not  *)
(* listen for it: the screen stays.                                        *)
(***************************************************************************)
SessionEnds ==
    /\ screen # "off"
    /\ currentUser # None
    /\ currentUser' = None
    /\ survived' = FALSE
    /\ ended' = TRUE
    /\ UNCHANGED <<screen, stage, uid, mine, spinner, dropped, overlapped>>

(***************************************************************************)
(* The process is killed.  The user stays, the check under way does not.   *)
(***************************************************************************)
Kill ==
    /\ screen # "off"
    /\ screen' = "off"
    /\ stage' = [k \in Attempts |-> "idle"]
    /\ uid' = [k \in Attempts |-> None]
    /\ mine' = {}
    /\ spinner' = FALSE
    /\ dropped' = FALSE
    /\ survived' = /\ currentUser # None
                   /\ survived \/ overlapped \/ screen = "login"
    /\ UNCHANGED <<currentUser, overlapped, ended>>

Init ==
    /\ screen = "off"
    /\ currentUser = None
    /\ stage = [k \in Attempts |-> "idle"]
    /\ uid = [k \in Attempts |-> None]
    /\ mine = {}
    /\ spinner = FALSE
    /\ dropped = FALSE
    /\ overlapped = FALSE
    /\ survived = FALSE
    /\ ended = FALSE

AttemptStep(k) ==
    \/ AuthRefused(k)
    \/ AuthFailedOddly(k)
    \/ AuthAccepted(k)
    \/ signinCallback(k)
    \/ RoleMissing(k)
    \/ RoleElderly(k)
    \/ RoleWrong(k)
    \/ RoleRefused(k)

Next ==
    \/ Launch
    \/ \E k \in Attempts :
        \/ \E u \in Users \cup {None} : clickedSignIn(k, u)
        \/ AttemptStep(k)
    \/ handleSignOut
    \/ SessionEnds
    \/ Kill

Spec == Init /\ [][Next]_vars

(***************************************************************************)
(* Both services answer, and callbacks run.                                *)
(***************************************************************************)
FairSpec == Spec /\ \A k \in Attempts : WF_vars(AttemptStep(k))

-----------------------------------------------------------------------------
(***************************************************************************)
(* Every variable has its type, and an attempt that asks for a role has a  *)
(* uid to ask for.                                                         *)
(***************************************************************************)
TypeOK ==
    /\ screen \in {"off", "login", "landing"}
    /\ currentUser \in Users \cup {None}
    /\ stage \in [Attempts -> {"idle", "auth", "signed", "role"}]
    /\ uid \in [Attempts -> Users \cup {None}]
    /\ mine \subseteq Attempts
    /\ spinner \in BOOLEAN
    /\ dropped \in BOOLEAN
    /\ overlapped \in BOOLEAN
    /\ survived \in BOOLEAN
    /\ ended \in BOOLEAN
    /\ \A k \in Attempts : stage[k] = "role" => uid[k] \in Users

(***************************************************************************)
(* Only a kill, a failed sign-out or a refused read of the role lets the   *)
(* wrong role in for good: however attempts overlap and whoever's uid      *)
(* their callbacks read, while an account of another role is the current   *)
(* user there is an attempt that will look at it.                          *)
(***************************************************************************)
WrongRoleIsBeingChecked ==
    (currentUser # None /\ Role[currentUser] = "staff" /\ ~survived) =>
        \E k \in Attempts :
            stage[k] = "signed" \/ (stage[k] = "role" /\ uid[k] = currentUser)

(***************************************************************************)
(* Without overlapping attempts, and unless the user survived unchecked (a *)
(* kill, a refused check, a failed sign-out), the landing screen is only   *)
(* ever up for an elderly user, or for nobody once the session has ended   *)
(* by itself: then it stays until the next sign-out or launch.             *)
(***************************************************************************)
LandingIsForElderly ==
    (screen = "landing" /\ ~overlapped /\ ~survived) =>
        IF currentUser = None THEN ended ELSE Role[currentUser] = "elderly"

(***************************************************************************)
(* The spinner of the login screen stops, unless an attempt was dropped:   *)
(* by an unknown error code, because its user was gone before its callback *)
(* ran (another attempt signed out, the session ended), or because the     *)
(* read of its role was refused.                                           *)
(***************************************************************************)
SpinnerStops == spinner ~> (~spinner \/ dropped)
=============================================================================
