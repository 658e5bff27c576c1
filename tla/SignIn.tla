------------------------------- MODULE SignIn -------------------------------
(***************************************************************************)
(* One account: signing in with a password or through the identity         *)
(* provider, the lockout, sessions, and what ends them: a changed or reset *)
(* password and a suspension, each a write followed by                     *)
(* RevokeSessionsForUser. Requests overlap at every statement. An era is   *)
(* the time between two such writes; a session belongs to the era its      *)
(* sign-in read.                                                           *)
(***************************************************************************)
EXTENDS Integers, FiniteSets, Common

CONSTANTS
    Logins,         \* sign-in requests in flight
    Sessions,       \* rows of the sessions table
    MaxFailed,      \* MaxFailedLogins
    MaxEras         \* bound: password changes, resets and suspensions

ASSUME SignInAssumption == MaxFailed \in Nat \ {0} /\ MaxEras \in Nat /\ IsFiniteSet(Logins)

VARIABLES
    user,           \* the account's sign-in columns
    login,          \* [Logins -> LoginState]
    session,        \* [Sessions -> SessionState]
    ending,         \* what writes and then ends the sessions
    unended,        \* history: RevokeSessionsForUser failed, which is only logged
    guesses         \* history: wrong passwords verified since the last unlocking

signInVars == <<user, login, session, ending, unended, guesses>>

Eras == 0..MaxEras
UserState == [era : Eras, active : BOOLEAN, failed : 0..MaxFailed, locked : BOOLEAN]
\* failed: failed_logins as read; late: the sessions were ended meanwhile.
LoginState == [at : {"none", "verify", "create"}, era : Eras, failed : 0..MaxFailed, late : BOOLEAN]
SessionState == [at : {"none", "live", "ended"}, era : Eras, late : BOOLEAN]
Ending == {"none", "revoke", "revoke_renew", "renew"}

NoLogin == [at |-> "none", era |-> 0, failed |-> 0, late |-> FALSE]
NoSession == [at |-> "none", era |-> 0, late |-> FALSE]
EndedSession == [NoSession EXCEPT !.at = "ended"]
Free == {s \in Sessions : session[s].at = "none"}
NextSession == CHOOSE s \in Free : TRUE

SignInInit ==
    /\ user = [era |-> 0, active |-> TRUE, failed |-> 0, locked |-> FALSE]
    /\ login = [l \in Logins |-> NoLogin] /\ session = [s \in Sessions |-> NoSession]
    /\ ending = "none" /\ unended = FALSE /\ guesses = 0

-----------------------------------------------------------------------------
(* AuthenticatePassword and what follows it in Login.                      *)

\* The row is read; a locked or a suspended account is refused here. The
\* account's two reads, one after the other, are taken as one.
ReadAccount(l) ==
    /\ login[l].at = "none" /\ ~user.locked /\ user.active
    /\ login' = [login EXCEPT ![l] = [at |-> "verify", era |-> user.era, failed |-> user.failed, late |-> FALSE]]
    /\ UNCHANGED <<user, session, ending, unended, guesses>>

\* Mutant of FailedNow: the count read before the password was verified.
FailedNowAsRead(l) == IF login[l].failed < MaxFailed THEN login[l].failed + 1 ELSE MaxFailed

\* failed_logins + 1, in the update itself; beyond the limit it makes no
\* difference and is not counted on.
FailedNow(l) == IF user.failed < MaxFailed THEN user.failed + 1 ELSE MaxFailed

WrongPassword(l) ==
    /\ login[l].at = "verify"
    /\ user' = [user EXCEPT !.failed = FailedNow(l), !.locked = @ \/ FailedNow(l) >= MaxFailed]
    /\ login' = [login EXCEPT ![l] = NoLogin]
    /\ guesses' = guesses + 1
    /\ UNCHANGED <<session, ending, unended>>

\* The password as stored when it was read.
RightPassword(l) ==
    /\ login[l].at = "verify"
    /\ login' = [login EXCEPT ![l].at = "create"]
    /\ IF login[l].failed > 0 THEN user' = [user EXCEPT !.failed = 0, !.locked = FALSE] /\ guesses' = 0
       ELSE UNCHANGED <<user, guesses>>
    /\ UNCHANGED <<session, ending, unended>>

\* Callback: the provider vouches, the account must be active.
Callback(l) ==
    /\ login[l].at = "none" /\ user.active
    /\ login' = [login EXCEPT ![l] = [at |-> "create", era |-> user.era, failed |-> 0, late |-> FALSE]]
    /\ UNCHANGED <<user, session, ending, unended, guesses>>

CreateSession(l) ==
    /\ login[l].at = "create" /\ Free # {}
    /\ session' = [session EXCEPT ![NextSession] = [at |-> "live", era |-> login[l].era, late |-> login[l].late]]
    /\ login' = [login EXCEPT ![l] = NoLogin]
    /\ UNCHANGED <<user, ending, unended, guesses>>

\* The request is abandoned, refused by the provider, or the insert fails.
LoginDies(l) ==
    /\ login[l].at # "none" /\ login' = [login EXCEPT ![l] = NoLogin]
    /\ UNCHANGED <<user, session, ending, unended, guesses>>

\* locked_until passes; failed_logins stays where it is.
LockoutEnds ==
    /\ user.locked /\ user' = [user EXCEPT !.locked = FALSE] /\ guesses' = 0
    /\ UNCHANGED <<login, session, ending, unended>>

-----------------------------------------------------------------------------
(* Ends of sessions.                                                       *)

\* Logout, or expires_at passes.
EndSession(s) ==
    /\ session[s].at = "live" /\ session' = [session EXCEPT ![s] = EndedSession]
    /\ UNCHANGED <<user, login, ending, unended, guesses>>

NewEra == [user EXCEPT !.era = @ + 1]

\* SetUserPassword, of ResetPassword or of ChangePassword, whose holder gets a
\* session of its own after the others ended.
SetUserPassword(then) ==
    /\ ending = "none" /\ user.era < MaxEras /\ then \in {"revoke", "revoke_renew"}
    /\ then = "revoke_renew" => \E s \in Sessions : session[s].at = "live" /\ user.active
    /\ user' = [NewEra EXCEPT !.failed = 0, !.locked = FALSE] /\ guesses' = 0
    /\ ending' = then
    /\ UNCHANGED <<login, session, unended>>

\* Mutant of AfterSuspend: the sessions are left to be refused one by one.
AfterSuspendNothing == "none"

\* Update: a suspension ends the account's sessions next.
AfterSuspend == "revoke"

Suspend ==
    /\ ending = "none" /\ user.active /\ user.era < MaxEras
    /\ user' = [NewEra EXCEPT !.active = FALSE] /\ ending' = AfterSuspend
    /\ UNCHANGED <<login, session, unended, guesses>>

Reinstate ==
    /\ ending = "none" /\ ~user.active /\ user' = [user EXCEPT !.active = TRUE]
    /\ UNCHANGED <<login, session, ending, unended, guesses>>

AfterRevoke == IF ending = "revoke" THEN "none" ELSE "renew"

RevokeSessionsForUser ==
    /\ ending \in {"revoke", "revoke_renew"} /\ ending' = AfterRevoke
    /\ session' = [s \in Sessions |-> IF session[s].at = "live" THEN EndedSession ELSE session[s]]
    /\ login' = [l \in Logins |-> [login[l] EXCEPT !.late = login[l].at # "none"]]
    /\ UNCHANGED <<user, unended, guesses>>

RevokeFails ==
    /\ ending \in {"revoke", "revoke_renew"} /\ ending' = AfterRevoke /\ unended' = TRUE
    /\ UNCHANGED <<user, login, session, guesses>>

\* ChangePassword ends with a session for the one who changed it, if it can.
RenewSession ==
    /\ ending = "renew" /\ ending' = "none"
    /\ session' = IF Free # {}
                  THEN [session EXCEPT ![NextSession] = [at |-> "live", era |-> user.era, late |-> FALSE]] ELSE session
    /\ UNCHANGED <<user, login, unended, guesses>>

SignInNext ==
    \/ \E l \in Logins : ReadAccount(l) \/ WrongPassword(l) \/ RightPassword(l) \/ Callback(l) \/ LoginDies(l)
                      \/ CreateSession(l)
    \/ \E s \in Sessions : EndSession(s)
    \/ \E then \in {"revoke", "revoke_renew"} : SetUserPassword(then)
    \/ LockoutEnds \/ Suspend \/ Reinstate \/ RevokeSessionsForUser \/ RevokeFails \/ RenewSession

-----------------------------------------------------------------------------
SignInTypeOK ==
    /\ user \in UserState /\ login \in [Logins -> LoginState] /\ session \in [Sessions -> SessionState]
    /\ ending \in Ending /\ unended \in BOOLEAN /\ guesses \in 0..MaxFailed + Cardinality(Logins)

\* A changed or reset password and a suspension, lifted since or not, end the
\* sessions that were there. What gets round it is a sign-in that was under
\* way, or a RevokeSessionsForUser that failed.
SessionsEndWithTheirEra ==
    unended \/ ending \in {"revoke", "revoke_renew"} \/
        \A s \in Sessions : session[s].at = "live" /\ ~session[s].late => session[s].era = user.era

\* Between two unlockings nobody tries more wrong passwords than the limit and
\* the sign-ins that were under way when it was reached.
GuessesBounded == guesses < MaxFailed + Cardinality(Logins)
=============================================================================
