------------------------------ MODULE AccountOtp ------------------------------
(***************************************************************************)
(* Accounts and one-time codes: AuthService (register, resendOtp,          *)
(* verifyOtp, login, logout) and the accounts an admin creates.            *)
(*                                                                         *)
(* Each request reads the tables, decides, and writes later; other         *)
(* requests run in between, because Prisma's transactions are READ         *)
(* COMMITTED and verifyOtp and login read outside any transaction.  What a *)
(* transaction writes is one step, the one at which it commits.            *)
(***************************************************************************)
EXTENDS Integers

CONSTANTS
    Emails,          \* an account is known by its email: no request changes it
    StudentIds,
    Otps,            \* rows of otp_verifications
    Requests,        \* request slots
    NoValue,         \* stands for "none" in a record
    ManualDelivery,  \* OTP_DELIVERY_MODE = manual: no mail is sent
    Lifetime,        \* OTP_EXPIRES_MINUTES, in units of five minutes
    StatedLifetime   \* the lifetime the mail states, in the same units

ASSUME AccountAssumption ==
    /\ NoValue \notin Emails \cup StudentIds \cup Otps
    /\ ManualDelivery \in BOOLEAN
    /\ Lifetime \in Nat \ {0} /\ StatedLifetime \in Nat

VARIABLES
    account,      \* account[e]: the users row, or NoAccount
    otp,          \* otp[o]: the otp_verifications row, or NoOtp
    request,      \* request[r]: the request in slot r, after its reads
    mailed,       \* codes that the mail provider has accepted
    tokens,       \* emails that have been given a token
    adminCreated, \* history: accounts created by an admin
    late,         \* history: requests whose read has been overtaken by a
                  \*          verification
    demoted,      \* history: accounts that a registration made unverified
                  \*          again
    reused        \* history: codes that have verified twice

history == <<adminCreated, late, demoted, reused>>
accountVars == <<account, otp, request, mailed, tokens, history>>

Accounts == [student : StudentIds, verified : BOOLEAN, online : BOOLEAN]
NoAccount == [student |-> NoValue, verified |-> FALSE, online |-> FALSE]

MaxAge == IF Lifetime > StatedLifetime THEN Lifetime ELSE StatedLifetime
OtpRows == [email : Emails, used : BOOLEAN, age : 0..MaxAge]
NoOtp == [email |-> NoValue, used |-> TRUE, age |-> 0]

Steps == {"registerWrite", "resendWrite", "mail", "verifyWrite", "loginWrite",
          "adminWrite"}
At(step, e, s, seen, o) ==
    [step |-> step, email |-> e, student |-> s, seen |-> seen, otp |-> o]
Idle == At("idle", NoValue, NoValue, "none", NoValue)
Pending == [step : Steps, email : Emails, student : StudentIds \cup {NoValue},
            seen : {"none", "unverified", "verified"},
            otp : Otps \cup {NoValue}]

AccountInit ==
    /\ account = [e \in Emails |-> NoAccount]
    /\ otp = [o \in Otps |-> NoOtp]
    /\ request = [r \in Requests |-> Idle]
    /\ mailed = {}
    /\ tokens = {}
    /\ adminCreated = {}
    /\ late = {}
    /\ demoted = {}
    /\ reused = {}

HasAccount(e) == account[e] # NoAccount
Seen(e) == IF ~HasAccount(e) THEN "none"
           ELSE IF account[e].verified THEN "verified" ELSE "unverified"
TakenByOther(s, e) == \E f \in Emails \ {e} : account[f].student = s

Becomes(r, next) == request' = [request EXCEPT ![r] = next]
Ends(r) == /\ Becomes(r, Idle)
           /\ late' = late \ {r}

-----------------------------------------------------------------------------
(* register and resendOtp                                                  *)

\* Mutant: a verified account may be registered again.
AcceptsVerified(e, s) == ~TakenByOther(s, e)

\* The conflict checks.  A request that fails one changes nothing.
MayRegister(e, s) == ~TakenByOther(s, e) /\ Seen(e) # "verified"

\* Both findUnique calls: what changes between them is caught by the same
\* unique indexes as what changes after them.
RegisterRead(r, e, s) ==
    /\ request[r] = Idle
    /\ MayRegister(e, s)
    /\ Becomes(r, At("registerWrite", e, s, Seen(e), NoValue))
    /\ UNCHANGED <<account, otp, mailed, tokens, history>>

\* createOtp, in the transaction of its caller, and what the caller does next.
CreateOtp(r, o) ==
    LET e == request[r].email IN
    /\ otp[o] = NoOtp
    /\ otp' = [otp EXCEPT ![o] = [email |-> e, used |-> FALSE, age |-> 0]]
    /\ IF ManualDelivery
         THEN Ends(r)
         ELSE /\ Becomes(r, At("mail", e, NoValue, "none", o))
              /\ late' = late \ {r}

\* The unique indexes on email and studentId.
IndexesAllow(r) ==
    /\ ~TakenByOther(request[r].student, request[r].email)
    /\ request[r].seen = "none" => ~HasAccount(request[r].email)

\* The row is created, or updated by its id: isVerified is set to false
\* whatever it is by now.
RegisterWrite(r, o) ==
    LET e == request[r].email
        s == request[r].student
    IN  /\ request[r].step = "registerWrite"
        /\ IndexesAllow(r)
        /\ account' = [account EXCEPT
             ![e] = [student |-> s, verified |-> FALSE, online |-> @.online]]
        /\ CreateOtp(r, o)
        /\ demoted' = IF account[e].verified THEN demoted \cup {e} ELSE demoted
        /\ UNCHANGED <<mailed, tokens, adminCreated, reused>>

\* Mutants: a verified account may ask for another code; anybody may.
ResendIfKnown(e) == HasAccount(e)
ResendToAnyone(e) == Seen(e) # "verified"

MayResend(e) == Seen(e) = "unverified"

ResendRead(r, e) ==
    /\ request[r] = Idle
    /\ MayResend(e)
    /\ Becomes(r, At("resendWrite", e, NoValue, Seen(e), NoValue))
    /\ UNCHANGED <<account, otp, mailed, tokens, history>>

ResendWrite(r, o) ==
    /\ request[r].step = "resendWrite"
    /\ CreateOtp(r, o)
    /\ UNCHANGED <<account, mailed, tokens, adminCreated, demoted, reused>>

\* The mail is sent after the commit.
SendOtpEmail(r) ==
    /\ request[r].step = "mail"
    /\ mailed' = mailed \cup {request[r].otp}
    /\ Ends(r)
    /\ UNCHANGED <<account, otp, tokens, adminCreated, demoted, reused>>

-----------------------------------------------------------------------------
(* verifyOtp, login, logout                                                *)

\* Mutant: used codes are found as well.
UsableAgain(o) == otp[o] # NoOtp /\ otp[o].age < Lifetime

\* Codes that have neither been used nor expired.
Usable(o) == otp[o] # NoOtp /\ ~otp[o].used /\ otp[o].age < Lifetime

\* Mutant: the code is looked up without its email.
MatchesAnyone(o, e) == Usable(o) /\ HasAccount(e)

\* The row that findFirst returns for an email and a code.  Codes are random,
\* and two rows of an email may have the same one; any of them may be found.
Matches(o, e) == Usable(o) /\ otp[o].email = e

VerifyRead(r, e, o) ==
    /\ request[r] = Idle
    /\ Matches(o, e)
    /\ Becomes(r, At("verifyWrite", e, NoValue, Seen(e), o))
    /\ UNCHANGED <<account, otp, mailed, tokens, history>>

\* Requests that have read what a verification of e with code o changes.
Overtaken(e, o) ==
    {q \in Requests :
        \/ /\ request[q].step \in {"registerWrite", "resendWrite"}
           /\ request[q].email = e
           /\ request[q].seen = "unverified"
        \/ request[q].step = "verifyWrite" /\ request[q].otp = o}

\* The two updates of one transaction, then the token.  Neither looks at what
\* the row is by now.
VerifyWrite(r) ==
    LET e == request[r].email
        o == request[r].otp
    IN  /\ request[r].step = "verifyWrite"
        /\ otp' = [otp EXCEPT ![o].used = TRUE]
        /\ account' = [account EXCEPT ![e].verified = TRUE, ![e].online = TRUE]
        /\ tokens' = tokens \cup {e}
        /\ Becomes(r, Idle)
        /\ late' = (late \cup Overtaken(e, o)) \ {r}
        /\ reused' = IF otp[o].used THEN reused \cup {o} ELSE reused
        /\ demoted' = demoted \ {e}
        /\ UNCHANGED <<mailed, adminCreated>>

\* Mutant: an account need not be verified to log in.
MayLoginUnverified(e) == HasAccount(e)

\* The password matches and the account is verified; nothing in the program
\* disables an account (isActive).
MayLogin(e) == Seen(e) = "verified"

LoginRead(r, e) ==
    /\ request[r] = Idle
    /\ MayLogin(e)
    /\ Becomes(r, At("loginWrite", e, NoValue, "verified", NoValue))
    /\ UNCHANGED <<account, otp, mailed, tokens, history>>

LoginWrite(r) ==
    LET e == request[r].email IN
    /\ request[r].step = "loginWrite"
    /\ account' = [account EXCEPT ![e].online = TRUE]
    /\ tokens' = tokens \cup {e}
    /\ Ends(r)
    /\ UNCHANGED <<otp, mailed, adminCreated, demoted, reused>>

Logout(e) ==
    /\ e \in tokens
    /\ account' = [account EXCEPT ![e].online = FALSE]
    /\ UNCHANGED <<otp, request, mailed, tokens, history>>

-----------------------------------------------------------------------------
(* UsersService.create, time and faults                                    *)

AdminRead(r, e, s) ==
    /\ request[r] = Idle
    /\ ~HasAccount(e)
    /\ ~TakenByOther(s, e)
    /\ Becomes(r, At("adminWrite", e, s, "none", NoValue))
    /\ UNCHANGED <<account, otp, mailed, tokens, history>>

AdminWrite(r) ==
    LET e == request[r].email IN
    /\ request[r].step = "adminWrite"
    /\ IndexesAllow(r)
    /\ account' = [account EXCEPT ![e] = [student |-> request[r].student,
                                          verified |-> TRUE,
                                          online |-> FALSE]]
    /\ adminCreated' = adminCreated \cup {e}
    /\ Ends(r)
    /\ UNCHANGED <<otp, mailed, tokens, demoted, reused>>

\* A unique index refuses the write, a statement or the mail provider fails,
\* or the process dies: the request ends and a transaction is rolled back.
RequestFails(r) ==
    /\ request[r] # Idle
    /\ Ends(r)
    /\ UNCHANGED <<account, otp, mailed, tokens, adminCreated, demoted, reused>>

Older(row) == IF row # NoOtp /\ row.age < MaxAge
                THEN [row EXCEPT !.age = @ + 1] ELSE row

\* Five minutes pass.
TimePasses ==
    /\ \E o \in Otps : Older(otp[o]) # otp[o]
    /\ otp' = [o \in Otps |-> Older(otp[o])]
    /\ UNCHANGED <<account, request, mailed, tokens, history>>

RegistrationStep(r) ==
    \/ \E e \in Emails, s \in StudentIds : RegisterRead(r, e, s)
    \/ \E o \in Otps : RegisterWrite(r, o)
    \/ \E e \in Emails : ResendRead(r, e)
    \/ \E o \in Otps : ResendWrite(r, o)
    \/ SendOtpEmail(r)

SessionStep(r) ==
    \/ \E e \in Emails, o \in Otps : VerifyRead(r, e, o)
    \/ VerifyWrite(r)
    \/ \E e \in Emails : LoginRead(r, e)
    \/ LoginWrite(r)

AdminStep(r) ==
    \/ \E e \in Emails, s \in StudentIds : AdminRead(r, e, s)
    \/ AdminWrite(r)

AccountNext ==
    \/ \E r \in Requests : \/ RegistrationStep(r)
                           \/ SessionStep(r)
                           \/ AdminStep(r)
                           \/ RequestFails(r)
    \/ \E e \in Emails : Logout(e)
    \/ TimePasses

AccountSpec == AccountInit /\ [][AccountNext]_accountVars

-----------------------------------------------------------------------------
(* Properties                                                              *)

\* Every variable has its type, and every code belongs to an account, which no
\* foreign key enforces: verifyOtp updates the account of the code it found.
AccountTypeOK ==
    /\ account \in [Emails -> Accounts \cup {NoAccount}]
    /\ otp \in [Otps -> OtpRows \cup {NoOtp}]
    /\ request \in [Requests -> Pending \cup {Idle}]
    /\ mailed \subseteq Otps /\ reused \subseteq Otps
    /\ tokens \subseteq Emails
    /\ adminCreated \subseteq Emails /\ demoted \subseteq Emails
    /\ late \subseteq Requests
    /\ \A o \in Otps : otp[o] # NoOtp => HasAccount(otp[o].email)

\* The account an admin has created stays verified, whatever registrations run
\* beside its creation: register's update never applies to it, and its create
\* is refused by the unique index.
AdminAccountsStayVerified == \A e \in adminCreated : account[e].verified

\* Nobody is verified or holds a token without a code of their own having been
\* entered, or an admin having vouched for the account.
EarnedByCode ==
    \A e \in Emails :
        account[e].verified \/ e \in tokens
            => \/ e \in adminCreated
               \/ \E o \in Otps : otp[o].email = e /\ otp[o].used

\* A user is shown online only with a verified account, except for an account
\* that a late registration has made unverified again: register does not take
\* the user offline, and a login that has read the account does not look again.
OnlineIsVerified ==
    \A e \in Emails :
        account[e].online => account[e].verified \/ e \in demoted

\* A verified account becomes unverified only through a registration that had
\* read it before it was verified (auth.service.ts reads isVerified at line 83
\* and resets it at line 95).
VerificationKept ==
    [][\A e \in Emails :
        account[e].verified /\ ~account'[e].verified
            => \E r \in late : /\ request[r].step = "registerWrite"
                              /\ request[r].email = e
                              /\ request'[r].step # "registerWrite"]_accountVars

\* A code is created for a verified account only by a request that had read it
\* before it was verified.
CodesForUnverified ==
    [][\A o \in Otps :
        otp[o] = NoOtp /\ otp'[o] # NoOtp /\ account[otp'[o].email].verified
            => \E r \in late : /\ request[r].step \in {"registerWrite",
                                                        "resendWrite"}
                              /\ request[r].email = otp'[o].email
                              /\ request'[r] # request[r]]_accountVars

\* A code verifies once, except for requests that had found it before its
\* first use was stored.
CodeUsedOnce ==
    [][\A o \in Otps :
        o \in reused' \ reused
            => \E r \in late : request[r].otp = o]_accountVars

\* What the mail says of a code (mail.service.ts:189, "This code expires in 10
\* minutes"): until then it is accepted.
MailKeepsItsWord ==
    \A o \in mailed :
        ~otp[o].used /\ otp[o].age < StatedLifetime => Usable(o)

=============================================================================
