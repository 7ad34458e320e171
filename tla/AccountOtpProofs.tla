--------------------------- MODULE AccountOtpProofs ---------------------------
(***************************************************************************)
(* Theorems about accounts and one-time codes, for any number of emails,   *)
(* codes and requests.                                                     *)
(***************************************************************************)
EXTENDS AccountOtp, TLAPS

\* What a registration, a resend or an admin still knows after its read.
ReadIsKept(r) ==
    /\ request[r].step \in {"registerWrite", "resendWrite"} =>
           /\ request[r].seen # "verified"
           /\ request[r].seen = "unverified" =>
                  /\ HasAccount(request[r].email)
                  /\ request[r].email \notin adminCreated
                  /\ account[request[r].email].verified => r \in late
    /\ request[r].step = "resendWrite" => request[r].seen = "unverified"
    /\ request[r].step = "adminWrite" => request[r].seen = "none"
    /\ request[r].step \in {"registerWrite", "adminWrite"} =>
           request[r].student \in StudentIds

\* A request that is verifying holds a code of its own account, and is late
\* once the code has been used.
CodeIsKept(r) ==
    /\ request[r].step = "mail" => request[r].otp \in Otps
    /\ request[r].step = "verifyWrite" =>
           /\ request[r].otp \in Otps
           /\ otp[request[r].otp] # NoOtp
           /\ otp[request[r].otp].email = request[r].email
           /\ otp[request[r].otp].used => r \in late

Earned(e) == \/ e \in adminCreated
             \/ \E o \in Otps : otp[o].email = e /\ otp[o].used

\* A login under way has seen a verified account.
LoginIsEarned(r) ==
    request[r].step = "loginWrite" =>
        /\ Earned(request[r].email)
        /\ HasAccount(request[r].email)
        /\ account[request[r].email].verified \/ request[r].email \in demoted

RequestInv(r) == ReadIsKept(r) /\ CodeIsKept(r) /\ LoginIsEarned(r)

TokensHaveAccounts == \A e \in tokens : HasAccount(e)

TablesInv == /\ AdminAccountsStayVerified
             /\ EarnedByCode
             /\ OnlineIsVerified
             /\ TokensHaveAccounts

AccountInv == /\ AccountTypeOK
              /\ TablesInv
              /\ \A r \in Requests : RequestInv(r)

-----------------------------------------------------------------------------
(* Facts the steps share.                                                  *)

LEMMA RowsAreRows ==
    ASSUME AccountTypeOK
    PROVE  /\ \A e \in Emails : HasAccount(e) <=> account[e] \in Accounts
           /\ \A o \in Otps : otp[o] # NoOtp <=> otp[o] \in OtpRows
           /\ \A o \in Otps : otp[o] # NoOtp => otp[o].email \in Emails
           /\ NoAccount.student \notin StudentIds
           /\ NoOtp.email \notin Emails
BY AccountAssumption
   DEF AccountTypeOK, HasAccount, Accounts, NoAccount, OtpRows, NoOtp

\* A request at some step is not idle, so its email is one.
LEMMA BusyRequests ==
    ASSUME AccountTypeOK, NEW r \in Requests, request[r].step \in Steps
    PROVE  /\ request[r] \in Pending
           /\ request[r].email \in Emails
BY DEF AccountTypeOK, Idle, At, Pending, Steps

\* A step that leaves the tables alone leaves what is said of them alone.
LEMMA TablesUnchanged ==
    ASSUME TablesInv, UNCHANGED <<account, otp, tokens, adminCreated, demoted>>
    PROVE  TablesInv'
BY DEF TablesInv, AdminAccountsStayVerified, EarnedByCode, OnlineIsVerified,
       TokensHaveAccounts, HasAccount

\* The same of a request that does not move.
LEMMA RequestUnchanged ==
    ASSUME NEW r \in Requests, RequestInv(r), request'[r] = request[r],
           UNCHANGED <<account, otp, adminCreated, demoted>>,
           r \in late => r \in late'
    PROVE  RequestInv(r)'
BY DEF RequestInv, ReadIsKept, CodeIsKept, LoginIsEarned, Earned, HasAccount

\* Nothing is asked of an idle request.
LEMMA IdleRequest ==
    ASSUME NEW r \in Requests, request'[r] = Idle
    PROVE  RequestInv(r)'
BY DEF RequestInv, ReadIsKept, CodeIsKept, LoginIsEarned, Idle, At

\* A read starts a request and changes nothing else.
LEMMA ReadKeepsInv ==
    ASSUME AccountInv, NEW r \in Requests, NEW next \in Pending,
           Becomes(r, next), RequestInv(r)',
           UNCHANGED <<account, otp, mailed, tokens, history>>
    PROVE  AccountInv'
<1>1. AccountTypeOK'
  BY DEF AccountInv, AccountTypeOK, Becomes, history, HasAccount
<1>2. TablesInv'
  BY TablesUnchanged DEF AccountInv, history
<1>3. ASSUME NEW q \in Requests, q # r  PROVE RequestInv(q)'
  <2>1. request'[q] = request[q]
    BY <1>3 DEF Becomes, AccountInv, AccountTypeOK
  <2>2. QED
    BY <2>1, RequestUnchanged DEF AccountInv, history
<1>4. QED
  BY <1>1, <1>2, <1>3 DEF AccountInv

\* The end of a request that changes no table.
LEMMA EndKeepsInv ==
    ASSUME AccountInv, NEW r \in Requests, Ends(r), mailed' \subseteq Otps,
           UNCHANGED <<account, otp, tokens, adminCreated, demoted, reused>>
    PROVE  AccountInv'
<1>1. AccountTypeOK'
  BY DEF AccountInv, AccountTypeOK, Ends, Becomes, HasAccount
<1>2. TablesInv'
  BY TablesUnchanged DEF AccountInv
<1>3. ASSUME NEW q \in Requests  PROVE RequestInv(q)'
  <2>1. CASE q = r
    BY <2>1, IdleRequest DEF Ends, Becomes, AccountInv, AccountTypeOK
  <2>2. CASE q # r
    <3>1. request'[q] = request[q] /\ (q \in late => q \in late')
      BY <2>2 DEF Ends, Becomes, AccountInv, AccountTypeOK
    <3>2. QED
      BY <3>1, RequestUnchanged DEF AccountInv
  <2>3. QED
    BY <2>1, <2>2
<1>4. QED
  BY <1>1, <1>2, <1>3 DEF AccountInv

-----------------------------------------------------------------------------
(* Every step preserves the invariant.                                     *)

LEMMA RegisterReadKeeps ==
    ASSUME AccountInv, NEW r \in Requests, NEW e \in Emails,
           NEW s \in StudentIds, RegisterRead(r, e, s)
    PROVE  AccountInv'
<1> DEFINE next == At("registerWrite", e, s, Seen(e), NoValue)
<1>1. next \in Pending /\ request'[r] = next
  BY DEF At, Pending, Steps, Seen, RegisterRead, Becomes, AccountInv,
         AccountTypeOK
<1>2. RequestInv(r)'
  BY <1>1, AccountAssumption
     DEF At, Seen, HasAccount, RequestInv, ReadIsKept, CodeIsKept,
         LoginIsEarned, RegisterRead, MayRegister, history, AccountInv,
         TablesInv, AdminAccountsStayVerified
<1>3. QED
  BY <1>1, <1>2, ReadKeepsInv DEF RegisterRead

LEMMA ResendReadKeeps ==
    ASSUME AccountInv, NEW r \in Requests, NEW e \in Emails, ResendRead(r, e)
    PROVE  AccountInv'
<1> DEFINE next == At("resendWrite", e, NoValue, Seen(e), NoValue)
<1>1. next \in Pending /\ request'[r] = next
  BY DEF At, Pending, Steps, Seen, ResendRead, Becomes, AccountInv,
         AccountTypeOK
<1>2. RequestInv(r)'
  BY <1>1 DEF At, Seen, HasAccount, RequestInv, ReadIsKept, CodeIsKept,
              LoginIsEarned, ResendRead, MayResend, history, AccountInv,
              TablesInv, AdminAccountsStayVerified
<1>3. QED
  BY <1>1, <1>2, ReadKeepsInv DEF ResendRead

LEMMA VerifyReadKeeps ==
    ASSUME AccountInv, NEW r \in Requests, NEW e \in Emails, NEW o \in Otps,
           VerifyRead(r, e, o)
    PROVE  AccountInv'
<1> DEFINE next == At("verifyWrite", e, NoValue, Seen(e), o)
<1>1. next \in Pending /\ request'[r] = next
  BY DEF At, Pending, Steps, Seen, VerifyRead, Becomes, AccountInv,
         AccountTypeOK
<1>2. RequestInv(r)'
  BY <1>1 DEF At, RequestInv, ReadIsKept, CodeIsKept, LoginIsEarned,
              VerifyRead, Matches, Usable
<1>3. QED
  BY <1>1, <1>2, ReadKeepsInv DEF VerifyRead

LEMMA LoginReadKeeps ==
    ASSUME AccountInv, NEW r \in Requests, NEW e \in Emails, LoginRead(r, e)
    PROVE  AccountInv'
<1> DEFINE next == At("loginWrite", e, NoValue, "verified", NoValue)
<1>1. next \in Pending /\ request'[r] = next
  BY DEF At, Pending, Steps, LoginRead, Becomes, AccountInv, AccountTypeOK
<1>2. HasAccount(e) /\ account[e].verified /\ Earned(e)
  BY DEF LoginRead, MayLogin, Seen, AccountInv, TablesInv, EarnedByCode, Earned
<1>3. RequestInv(r)'
  BY <1>1, <1>2 DEF At, RequestInv, ReadIsKept, CodeIsKept, LoginIsEarned,
                    Earned, HasAccount, LoginRead, history
<1>4. QED
  BY <1>1, <1>3, ReadKeepsInv DEF LoginRead

LEMMA AdminReadKeeps ==
    ASSUME AccountInv, NEW r \in Requests, NEW e \in Emails,
           NEW s \in StudentIds, AdminRead(r, e, s)
    PROVE  AccountInv'
<1> DEFINE next == At("adminWrite", e, s, "none", NoValue)
<1>1. next \in Pending /\ request'[r] = next
  BY DEF At, Pending, Steps, AdminRead, Becomes, AccountInv, AccountTypeOK
<1>2. RequestInv(r)'
  BY <1>1 DEF At, RequestInv, ReadIsKept, CodeIsKept, LoginIsEarned, AdminRead
<1>3. QED
  BY <1>1, <1>2, ReadKeepsInv DEF AdminRead

LEMMA SendOtpEmailKeeps ==
    ASSUME AccountInv, NEW r \in Requests, SendOtpEmail(r)
    PROVE  AccountInv'
<1>1. mailed' \subseteq Otps
  BY DEF SendOtpEmail, AccountInv, AccountTypeOK, RequestInv, CodeIsKept
<1>2. QED
  BY <1>1, EndKeepsInv DEF SendOtpEmail

LEMMA RequestFailsKeeps ==
    ASSUME AccountInv, NEW r \in Requests, RequestFails(r)
    PROVE  AccountInv'
<1>1. mailed' \subseteq Otps
  BY DEF RequestFails, AccountInv, AccountTypeOK
<1>2. QED
  BY <1>1, EndKeepsInv DEF RequestFails

\* A code is added; what it was looked up for before was no code.
LEMMA OtpAdded ==
    ASSUME AccountInv, NEW r \in Requests, NEW o \in Otps,
           request[r].step \in Steps, CreateOtp(r, o)
    PROVE  /\ otp' \in [Otps -> OtpRows \cup {NoOtp}]
           /\ \A e \in Emails : (\E p \in Otps : otp[p].email = e /\ otp[p].used)
                 => \E p \in Otps : otp'[p].email = e /\ otp'[p].used
           /\ \A p \in Otps : otp[p] # NoOtp => otp'[p] = otp[p]
           /\ \A p \in Otps : otp'[p] # NoOtp =>
                 otp[p] # NoOtp \/ otp'[p].email = request[r].email
           /\ request'[r] \in Pending \cup {Idle}
           /\ request' = [request EXCEPT ![r] = request'[r]]
           /\ RequestInv(r)'
           /\ late' = late \ {r}
<1> DEFINE e0 == request[r].email
<1>1. e0 \in Emails /\ request[r] \in Pending
  BY BusyRequests DEF AccountInv
<1>2. 0 \in 0..MaxAge
  BY AccountAssumption DEF MaxAge
<1>3. otp' = [otp EXCEPT ![o] = [email |-> e0, used |-> FALSE, age |-> 0]]
  BY DEF CreateOtp
<1>4. otp \in [Otps -> OtpRows \cup {NoOtp}] /\ otp[o] = NoOtp
  BY DEF AccountInv, AccountTypeOK, CreateOtp
<1>5. otp' \in [Otps -> OtpRows \cup {NoOtp}]
  BY <1>1, <1>2, <1>3, <1>4 DEF OtpRows
<1>6. NoOtp.email \notin Emails
  BY RowsAreRows DEF AccountInv
<1>7. \A p \in Otps : p # o => otp'[p] = otp[p]
  BY <1>3, <1>4
<1>8. /\ \A p \in Otps : otp[p] # NoOtp => otp'[p] = otp[p]
      /\ \A p \in Otps : otp'[p] # NoOtp => otp[p] # NoOtp \/ otp'[p].email = e0
  BY <1>3, <1>4, <1>7
<1>9. \A e \in Emails : (\E p \in Otps : otp[p].email = e /\ otp[p].used)
          => \E p \in Otps : otp'[p].email = e /\ otp'[p].used
  BY <1>4, <1>6, <1>7
<1>10. /\ request'[r] = IF ManualDelivery THEN Idle
                        ELSE At("mail", e0, NoValue, "none", o)
       /\ late' = late \ {r}
       /\ request' = [request EXCEPT ![r] = request'[r]]
  BY DEF CreateOtp, Ends, Becomes, AccountInv, AccountTypeOK
<1>11. request'[r] \in Pending \cup {Idle}
  BY <1>1, <1>10 DEF At, Pending, Steps
<1>12. RequestInv(r)'
  BY <1>10 DEF At, Idle, RequestInv, ReadIsKept, CodeIsKept, LoginIsEarned
<1>13. QED
  BY <1>5, <1>8, <1>9, <1>10, <1>11, <1>12

LEMMA ResendWriteKeeps ==
    ASSUME AccountInv, NEW r \in Requests, NEW o \in Otps, ResendWrite(r, o)
    PROVE  AccountInv'
<1>1. request[r].step \in Steps /\ HasAccount(request[r].email)
  BY DEF ResendWrite, Steps, AccountInv, RequestInv, ReadIsKept, HasAccount
<1>2. /\ otp' \in [Otps -> OtpRows \cup {NoOtp}]
      /\ \A e \in Emails : (\E p \in Otps : otp[p].email = e /\ otp[p].used)
            => \E p \in Otps : otp'[p].email = e /\ otp'[p].used
      /\ \A p \in Otps : otp[p] # NoOtp => otp'[p] = otp[p]
      /\ \A p \in Otps : otp'[p] # NoOtp =>
            otp[p] # NoOtp \/ otp'[p].email = request[r].email
      /\ request'[r] \in Pending \cup {Idle}
      /\ request' = [request EXCEPT ![r] = request'[r]]
      /\ RequestInv(r)'
      /\ late' = late \ {r}
  BY <1>1, OtpAdded DEF ResendWrite
<1>3. AccountTypeOK'
  <2>1. \A p \in Otps : otp'[p] # NoOtp => account'[otp'[p].email] # NoAccount
    BY <1>1, <1>2 DEF AccountInv, AccountTypeOK, ResendWrite, HasAccount
  <2>2. request' \in [Requests -> Pending \cup {Idle}]
    BY <1>2 DEF AccountInv, AccountTypeOK
  <2>3. QED
    BY <1>2, <2>1, <2>2 DEF AccountInv, AccountTypeOK, ResendWrite, HasAccount
<1>4. TablesInv'
  BY <1>2 DEF AccountInv, TablesInv, AdminAccountsStayVerified, EarnedByCode,
              OnlineIsVerified, TokensHaveAccounts, HasAccount, ResendWrite
<1>5. ASSUME NEW q \in Requests, q # r  PROVE RequestInv(q)'
  <2>1. request'[q] = request[q] /\ (q \in late => q \in late')
    BY <1>2, <1>5 DEF AccountInv, AccountTypeOK
  <2>2. request[q].step \in Steps => request[q].email \in Emails
    BY BusyRequests DEF AccountInv
  <2>3. ReadIsKept(q)'
    BY <2>1 DEF ResendWrite, AccountInv, RequestInv, ReadIsKept, HasAccount
  <2>4. CodeIsKept(q)'
    BY <1>2, <2>1 DEF AccountInv, RequestInv, CodeIsKept
  <2>5. LoginIsEarned(q)'
    BY <1>2, <2>1, <2>2 DEF ResendWrite, AccountInv, RequestInv,
         LoginIsEarned, Earned, HasAccount, Steps
  <2>6. QED
    BY <2>3, <2>4, <2>5 DEF RequestInv
<1>6. QED
  BY <1>2, <1>3, <1>4, <1>5 DEF AccountInv

LEMMA RegisterWriteKeeps ==
    ASSUME AccountInv, NEW r \in Requests, NEW o \in Otps, RegisterWrite(r, o)
    PROVE  AccountInv'
<1> DEFINE e0 == request[r].email
           row == [student |-> request[r].student, verified |-> FALSE,
                   online |-> account[e0].online]
<1>1. /\ request[r].step \in Steps
      /\ e0 \in Emails
      /\ request[r].student \in StudentIds
      /\ account \in [Emails -> Accounts \cup {NoAccount}]
      /\ account' = [account EXCEPT ![e0] = row]
  BY BusyRequests DEF RegisterWrite, Steps, AccountInv, AccountTypeOK,
       RequestInv, ReadIsKept
<1>2. row \in Accounts /\ row # NoAccount
  <2>1. account[e0].online \in BOOLEAN
    <3>1. CASE account[e0] \in Accounts
      BY <3>1 DEF Accounts
    <3>2. CASE account[e0] = NoAccount
      <4>1. account[e0].online = FALSE
        BY <3>2 DEF NoAccount
      <4>2. QED
        BY <4>1
    <3>3. QED
      BY <1>1, <3>1, <3>2
  <2>2. QED
    BY <1>1, <2>1, AccountAssumption DEF Accounts, NoAccount
<1>3. /\ \A e \in Emails : HasAccount(e) => account'[e] # NoAccount
      /\ account'[e0] # NoAccount
  BY <1>1, <1>2 DEF HasAccount
<1>4. /\ otp' \in [Otps -> OtpRows \cup {NoOtp}]
      /\ \A e \in Emails : (\E p \in Otps : otp[p].email = e /\ otp[p].used)
            => \E p \in Otps : otp'[p].email = e /\ otp'[p].used
      /\ \A p \in Otps : otp[p] # NoOtp => otp'[p] = otp[p]
      /\ \A p \in Otps : otp'[p] # NoOtp =>
            otp[p] # NoOtp \/ otp'[p].email = e0
      /\ request'[r] \in Pending \cup {Idle}
      /\ request' = [request EXCEPT ![r] = request'[r]]
      /\ RequestInv(r)'
      /\ late' = late \ {r}
  <2>1. CreateOtp(r, o)
    BY DEF RegisterWrite
  <2>2. QED
    BY <1>1, <2>1, OtpAdded
<1>5. e0 \notin adminCreated
  BY <1>1 DEF RegisterWrite, IndexesAllow, AccountInv, TablesInv,
       AdminAccountsStayVerified, RequestInv, ReadIsKept, HasAccount, NoAccount,
       AccountTypeOK, Pending, Idle, At
<1>6. /\ \A e \in Emails : e # e0 => account'[e] = account[e]
      /\ account'[e0] = row
      /\ UNCHANGED <<mailed, tokens, adminCreated, reused>>
      /\ demoted \subseteq demoted' /\ demoted' \subseteq demoted \cup {e0}
      /\ account[e0].verified => e0 \in demoted'
  BY <1>1 DEF RegisterWrite
<1>7. AccountTypeOK'
  <2>1. \A p \in Otps : otp'[p] # NoOtp => account'[otp'[p].email] # NoAccount
    BY <1>3, <1>4, RowsAreRows DEF AccountInv, AccountTypeOK
  <2>2. request' \in [Requests -> Pending \cup {Idle}]
    BY <1>4 DEF AccountInv, AccountTypeOK
  <2>3. account' \in [Emails -> Accounts \cup {NoAccount}]
    BY <1>1, <1>2
  <2>4. QED
    BY <1>1, <1>4, <1>6, <2>1, <2>2, <2>3
       DEF AccountInv, AccountTypeOK, HasAccount
<1>8. TablesInv'
  <2>1. AdminAccountsStayVerified' /\ TokensHaveAccounts'
    BY <1>3, <1>5, <1>6
       DEF AccountInv, AccountTypeOK, TablesInv, AdminAccountsStayVerified,
           TokensHaveAccounts, HasAccount
  <2>2. EarnedByCode'
    BY <1>4, <1>6 DEF AccountInv, TablesInv, EarnedByCode
  <2>3. OnlineIsVerified'
    BY <1>6 DEF AccountInv, TablesInv, OnlineIsVerified
  <2>4. QED
    BY <2>1, <2>2, <2>3 DEF TablesInv
<1>9. ASSUME NEW q \in Requests, q # r  PROVE RequestInv(q)'
  <2>1. request'[q] = request[q] /\ (q \in late => q \in late')
    BY <1>4, <1>9 DEF AccountInv, AccountTypeOK
  <2>2. request[q].step \in Steps => request[q].email \in Emails
    BY BusyRequests DEF AccountInv
  <2>3. ReadIsKept(q)'
    BY <1>3, <1>6, <2>1, <2>2
       DEF AccountInv, RequestInv, ReadIsKept, Steps, HasAccount
  <2>4. CodeIsKept(q)'
    BY <1>4, <2>1 DEF AccountInv, RequestInv, CodeIsKept
  <2>5. LoginIsEarned(q)'
    BY <1>3, <1>4, <1>6, <2>1, <2>2
       DEF AccountInv, RequestInv, LoginIsEarned, Earned, Steps, HasAccount
  <2>6. QED
    BY <2>3, <2>4, <2>5 DEF RequestInv
<1>10. QED
  BY <1>4, <1>7, <1>8, <1>9 DEF AccountInv

LEMMA VerifyWriteKeeps ==
    ASSUME AccountInv, NEW r \in Requests, VerifyWrite(r)
    PROVE  AccountInv'
<1> DEFINE e0 == request[r].email
           o0 == request[r].otp
<1>1. /\ e0 \in Emails /\ o0 \in Otps
      /\ otp[o0] # NoOtp /\ otp[o0].email = e0
      /\ HasAccount(e0)
  BY BusyRequests DEF VerifyWrite, Steps, AccountInv, AccountTypeOK,
       RequestInv, CodeIsKept
<1>2. /\ otp' \in [Otps -> OtpRows \cup {NoOtp}]
      /\ \A p \in Otps : p # o0 => otp'[p] = otp[p]
      /\ otp'[o0] \in OtpRows /\ otp'[o0].email = e0 /\ otp'[o0].used
      /\ \A p \in Otps : otp'[p] # NoOtp => otp[p] # NoOtp
      /\ \A p \in Otps : otp[p] # NoOtp => otp'[p] # NoOtp
      /\ \A p \in Otps : otp'[p].email = otp[p].email
      /\ \A p \in Otps : otp[p].used => otp'[p].used
  <2>1. otp[o0] \in OtpRows
    BY <1>1, RowsAreRows DEF AccountInv
  <2>2. otp' = [otp EXCEPT ![o0] = [otp[o0] EXCEPT !.used = TRUE]]
    BY DEF VerifyWrite
  <2>3. [otp[o0] EXCEPT !.used = TRUE] \in OtpRows
    BY <2>1 DEF OtpRows
  <2>4. otp'[o0] \in OtpRows /\ otp'[o0].email = e0 /\ otp'[o0].used
    BY <1>1, <2>1, <2>2, <2>3 DEF AccountInv, AccountTypeOK, OtpRows
  <2>5. /\ otp' \in [Otps -> OtpRows \cup {NoOtp}]
        /\ \A p \in Otps : p # o0 => otp'[p] = otp[p]
    BY <2>2, <2>3 DEF AccountInv, AccountTypeOK
  <2>6. otp'[o0] # NoOtp
    BY <1>1, <2>4, RowsAreRows DEF AccountInv
  <2>7. QED
    BY <1>1, <2>4, <2>5, <2>6
<1>3. /\ account' \in [Emails -> Accounts \cup {NoAccount}]
      /\ \A e \in Emails : e # e0 => account'[e] = account[e]
      /\ account'[e0].verified
      /\ \A e \in Emails : HasAccount(e) => account'[e] # NoAccount
  <2>1. account[e0] \in Accounts
    BY <1>1, RowsAreRows DEF AccountInv
  <2>2. account' = [account EXCEPT
          ![e0] = [account[e0] EXCEPT !.verified = TRUE, !.online = TRUE]]
    BY <2>1 DEF VerifyWrite, AccountInv, AccountTypeOK, Accounts
  <2>3. /\ [account[e0] EXCEPT !.verified = TRUE, !.online = TRUE] \in Accounts
        /\ [account[e0] EXCEPT !.verified = TRUE, !.online = TRUE].verified
    BY <2>1 DEF Accounts
  <2>4. account'[e0] \in Accounts /\ account'[e0].verified
    BY <1>1, <2>2, <2>3 DEF AccountInv, AccountTypeOK
  <2>5. account'[e0] # NoAccount
    BY <2>4 DEF NoAccount
  <2>6. QED
    BY <2>2, <2>3, <2>4, <2>5 DEF AccountInv, AccountTypeOK, HasAccount
<1>4. /\ tokens' = tokens \cup {e0}
      /\ request' = [request EXCEPT ![r] = Idle]
      /\ late' = (late \cup Overtaken(e0, o0)) \ {r}
      /\ demoted' = demoted \ {e0}
      /\ reused' \subseteq reused \cup {o0}
      /\ mailed' = mailed /\ adminCreated' = adminCreated
  BY DEF VerifyWrite, Becomes
<1>5. AccountTypeOK'
  <2>1. \A p \in Otps : otp'[p] # NoOtp => account'[otp'[p].email] # NoAccount
    BY <1>2, <1>3, RowsAreRows DEF AccountInv, AccountTypeOK
  <2>2. request' \in [Requests -> Pending \cup {Idle}]
    BY <1>4 DEF AccountInv, AccountTypeOK
  <2>3. late' \subseteq Requests
    BY <1>4 DEF Overtaken, AccountInv, AccountTypeOK
  <2>4. QED
    BY <1>1, <1>2, <1>3, <1>4, <2>1, <2>2, <2>3
       DEF AccountInv, AccountTypeOK, HasAccount
<1>6. TablesInv'
  <2>1. AdminAccountsStayVerified' /\ TokensHaveAccounts'
    BY <1>1, <1>3, <1>4
       DEF AccountInv, AccountTypeOK, TablesInv, AdminAccountsStayVerified,
           TokensHaveAccounts, HasAccount
  <2>2. EarnedByCode'
    BY <1>1, <1>2, <1>3, <1>4 DEF AccountInv, TablesInv, EarnedByCode
  <2>3. OnlineIsVerified'
    BY <1>3, <1>4 DEF AccountInv, TablesInv, OnlineIsVerified
  <2>4. QED
    BY <2>1, <2>2, <2>3 DEF TablesInv
<1>7. ASSUME NEW q \in Requests  PROVE RequestInv(q)'
  <2>1. CASE q = r
    BY <1>4, <2>1, IdleRequest DEF AccountInv, AccountTypeOK
  <2>2. CASE q # r
    <3>1. request'[q] = request[q] /\ (q \in late => q \in late')
      BY <1>4, <2>2 DEF AccountInv, AccountTypeOK
    <3>2. request[q].step \in Steps => request[q].email \in Emails
      BY BusyRequests DEF AccountInv
    <3>3. ReadIsKept(q)'
      BY <1>3, <1>4, <2>2, <3>1, <3>2
         DEF AccountInv, RequestInv, ReadIsKept, Steps, HasAccount, Overtaken
    <3>4. CodeIsKept(q)'
      BY <1>2, <1>4, <2>2, <3>1
         DEF AccountInv, RequestInv, CodeIsKept, Overtaken
    <3>5. LoginIsEarned(q)'
      BY <1>1, <1>2, <1>3, <1>4, <3>1, <3>2
         DEF AccountInv, RequestInv, LoginIsEarned, Earned, Steps, HasAccount
    <3>6. QED
      BY <3>3, <3>4, <3>5 DEF RequestInv
  <2>3. QED
    BY <2>1, <2>2
<1>8. QED
  BY <1>5, <1>6, <1>7 DEF AccountInv

\* A step that sets the online flag of one account.
LEMMA OnlineWritten ==
    ASSUME AccountInv, NEW e0 \in Emails, NEW on \in BOOLEAN, HasAccount(e0),
           account' = [account EXCEPT ![e0].online = on]
    PROVE  /\ account' \in [Emails -> Accounts \cup {NoAccount}]
           /\ \A e \in Emails : e # e0 => account'[e] = account[e]
           /\ \A e \in Emails : account'[e].verified = account[e].verified
           /\ account'[e0].online = on
           /\ \A e \in Emails : HasAccount(e) => account'[e] # NoAccount
<1>1. account[e0] \in Accounts
  BY RowsAreRows DEF AccountInv
<1>2. account' = [account EXCEPT ![e0] = [account[e0] EXCEPT !.online = on]]
  OBVIOUS
<1>3. /\ [account[e0] EXCEPT !.online = on] \in Accounts
      /\ [account[e0] EXCEPT !.online = on].verified = account[e0].verified
      /\ [account[e0] EXCEPT !.online = on].online = on
  BY <1>1 DEF Accounts
<1>4. /\ account'[e0] \in Accounts
      /\ account'[e0].verified = account[e0].verified
      /\ account'[e0].online = on
      /\ \A e \in Emails : e # e0 => account'[e] = account[e]
      /\ account' \in [Emails -> Accounts \cup {NoAccount}]
  BY <1>2, <1>3 DEF AccountInv, AccountTypeOK
<1>5. account'[e0] # NoAccount
  BY <1>4, AccountAssumption DEF Accounts, NoAccount
<1>6. QED
  BY <1>4, <1>5 DEF HasAccount

LEMMA LoginWriteKeeps ==
    ASSUME AccountInv, NEW r \in Requests, LoginWrite(r)
    PROVE  AccountInv'
<1> DEFINE e0 == request[r].email
<1>1. e0 \in Emails /\ LoginIsEarned(r) /\ request[r].step = "loginWrite"
  BY BusyRequests DEF LoginWrite, Steps, AccountInv, RequestInv
<1>2. /\ HasAccount(e0) /\ Earned(e0)
      /\ account[e0].verified \/ e0 \in demoted
  BY <1>1 DEF LoginIsEarned
<1>3. /\ account' \in [Emails -> Accounts \cup {NoAccount}]
      /\ \A e \in Emails : e # e0 => account'[e] = account[e]
      /\ \A e \in Emails : account'[e].verified = account[e].verified
      /\ \A e \in Emails : HasAccount(e) => account'[e] # NoAccount
  BY <1>1, <1>2, OnlineWritten DEF LoginWrite
<1>4. /\ tokens' = tokens \cup {e0}
      /\ request' = [request EXCEPT ![r] = Idle]
      /\ late' = late \ {r}
      /\ UNCHANGED <<otp, mailed, adminCreated, demoted, reused>>
  BY DEF LoginWrite, Ends, Becomes
<1>5. AccountTypeOK'
  BY <1>1, <1>3, <1>4, RowsAreRows DEF AccountInv, AccountTypeOK, HasAccount
<1>6. TablesInv'
  <2>1. AdminAccountsStayVerified' /\ TokensHaveAccounts'
    BY <1>2, <1>3, <1>4 DEF AccountInv, AccountTypeOK, TablesInv,
         AdminAccountsStayVerified, TokensHaveAccounts, HasAccount
  <2>2. EarnedByCode'
    BY <1>2, <1>3, <1>4 DEF AccountInv, TablesInv, EarnedByCode, Earned
  <2>3. OnlineIsVerified'
    BY <1>2, <1>3, <1>4 DEF AccountInv, TablesInv, OnlineIsVerified
  <2>4. QED
    BY <2>1, <2>2, <2>3 DEF TablesInv
<1>7. ASSUME NEW q \in Requests  PROVE RequestInv(q)'
  <2>1. CASE q = r
    BY <1>4, <2>1, IdleRequest DEF AccountInv, AccountTypeOK
  <2>2. CASE q # r
    <3>1. request'[q] = request[q] /\ (q \in late => q \in late')
      BY <1>4, <2>2 DEF AccountInv, AccountTypeOK
    <3>2. request[q].step \in Steps => request[q].email \in Emails
      BY BusyRequests DEF AccountInv
    <3>3. ReadIsKept(q)' /\ CodeIsKept(q)'
      BY <1>3, <1>4, <3>1, <3>2 DEF AccountInv, RequestInv, ReadIsKept,
           CodeIsKept, Steps, HasAccount
    <3>4. LoginIsEarned(q)'
      BY <1>3, <1>4, <3>1, <3>2
         DEF AccountInv, RequestInv, LoginIsEarned, Earned, Steps, HasAccount
    <3>5. QED
      BY <3>3, <3>4 DEF RequestInv
  <2>3. QED
    BY <2>1, <2>2
<1>8. QED
  BY <1>5, <1>6, <1>7 DEF AccountInv

LEMMA LogoutKeeps ==
    ASSUME AccountInv, NEW e0 \in Emails, Logout(e0)
    PROVE  AccountInv'
<1>1. HasAccount(e0)
  BY DEF Logout, AccountInv, TablesInv, TokensHaveAccounts
<1>2. /\ account' \in [Emails -> Accounts \cup {NoAccount}]
      /\ \A e \in Emails : e # e0 => account'[e] = account[e]
      /\ \A e \in Emails : account'[e].verified = account[e].verified
      /\ account'[e0].online = FALSE
      /\ \A e \in Emails : HasAccount(e) => account'[e] # NoAccount
  BY <1>1, OnlineWritten DEF Logout
<1>3. UNCHANGED <<otp, request, mailed, tokens, history>>
  BY DEF Logout
<1>4. AccountTypeOK'
  BY <1>2, <1>3, RowsAreRows
     DEF AccountInv, AccountTypeOK, HasAccount, history
<1>5. TablesInv'
  <2>1. AdminAccountsStayVerified' /\ TokensHaveAccounts' /\ EarnedByCode'
    BY <1>2, <1>3 DEF AccountInv, AccountTypeOK, TablesInv,
         AdminAccountsStayVerified, TokensHaveAccounts, HasAccount,
         EarnedByCode, history
  <2>2. OnlineIsVerified'
    BY <1>2, <1>3 DEF AccountInv, TablesInv, OnlineIsVerified, history
  <2>3. QED
    BY <2>1, <2>2 DEF TablesInv
<1>6. ASSUME NEW q \in Requests  PROVE RequestInv(q)'
  <2>1. request[q].step \in Steps => request[q].email \in Emails
    BY BusyRequests DEF AccountInv
  <2>2. QED
    BY <1>2, <1>3, <2>1 DEF AccountInv, RequestInv, ReadIsKept, CodeIsKept,
         LoginIsEarned, Earned, Steps, HasAccount, history
<1>7. QED
  BY <1>4, <1>5, <1>6 DEF AccountInv

LEMMA AdminWriteKeeps ==
    ASSUME AccountInv, NEW r \in Requests, AdminWrite(r)
    PROVE  AccountInv'
<1> DEFINE e0 == request[r].email
           row == [student |-> request[r].student, verified |-> TRUE,
                   online |-> FALSE]
<1>1. /\ e0 \in Emails
      /\ request[r].student \in StudentIds
      /\ ~HasAccount(e0)
  BY BusyRequests DEF AdminWrite, IndexesAllow, Steps, AccountInv, RequestInv,
       ReadIsKept
<1>2. row \in Accounts /\ row.verified /\ row # NoAccount
  BY <1>1 DEF Accounts, NoAccount
<1>3. /\ account' = [account EXCEPT ![e0] = row]
      /\ adminCreated' = adminCreated \cup {e0}
      /\ request' = [request EXCEPT ![r] = Idle]
      /\ late' = late \ {r}
      /\ UNCHANGED <<otp, mailed, tokens, demoted, reused>>
  BY DEF AdminWrite, Ends, Becomes
<1>4. /\ account' \in [Emails -> Accounts \cup {NoAccount}]
      /\ account'[e0] = row
      /\ \A e \in Emails : e # e0 => account'[e] = account[e]
      /\ \A e \in Emails : HasAccount(e) => account'[e] # NoAccount
  BY <1>1, <1>2, <1>3 DEF AccountInv, AccountTypeOK, HasAccount
<1>5. AccountTypeOK'
  BY <1>1, <1>3, <1>4, RowsAreRows DEF AccountInv, AccountTypeOK, HasAccount
<1>6. TablesInv'
  <2>1. AdminAccountsStayVerified' /\ TokensHaveAccounts'
    BY <1>2, <1>3, <1>4 DEF AccountInv, AccountTypeOK, TablesInv,
         AdminAccountsStayVerified, TokensHaveAccounts, HasAccount
  <2>2. EarnedByCode' /\ OnlineIsVerified'
    BY <1>2, <1>3, <1>4
       DEF AccountInv, TablesInv, EarnedByCode, OnlineIsVerified
  <2>3. QED
    BY <2>1, <2>2 DEF TablesInv
<1>7. ASSUME NEW q \in Requests  PROVE RequestInv(q)'
  <2>1. CASE q = r
    BY <1>3, <2>1, IdleRequest DEF AccountInv, AccountTypeOK
  <2>2. CASE q # r
    <3>1. request'[q] = request[q] /\ (q \in late => q \in late')
      BY <1>3, <2>2 DEF AccountInv, AccountTypeOK
    <3>2. request[q].step \in Steps => request[q].email \in Emails
      BY BusyRequests DEF AccountInv
    <3>3. ReadIsKept(q)' /\ CodeIsKept(q)'
      BY <1>1, <1>3, <1>4, <3>1, <3>2 DEF AccountInv, RequestInv, ReadIsKept,
           CodeIsKept, Steps, HasAccount
    <3>4. LoginIsEarned(q)'
      BY <1>1, <1>3, <1>4, <3>1, <3>2
         DEF AccountInv, RequestInv, LoginIsEarned, Earned, Steps, HasAccount
    <3>5. QED
      BY <3>3, <3>4 DEF RequestInv
  <2>3. QED
    BY <2>1, <2>2
<1>8. QED
  BY <1>5, <1>6, <1>7 DEF AccountInv

LEMMA TimePassesKeeps ==
    ASSUME AccountInv, TimePasses
    PROVE  AccountInv'
<1>1. /\ otp' = [o \in Otps |-> Older(otp[o])]
      /\ UNCHANGED <<account, request, mailed, tokens, history>>
  BY DEF TimePasses
<1>2. ASSUME NEW o \in Otps
      PROVE  /\ otp'[o] \in OtpRows \cup {NoOtp}
             /\ otp'[o] # NoOtp <=> otp[o] # NoOtp
             /\ otp'[o].email = otp[o].email /\ otp'[o].used = otp[o].used
  <2>1. CASE otp[o] = NoOtp
    BY <1>1, <2>1 DEF Older
  <2>2. CASE otp[o] # NoOtp
    <3>1. otp[o] \in OtpRows /\ NoOtp.email \notin Emails
      BY <2>2, RowsAreRows DEF AccountInv
    <3>2. MaxAge \in Nat
      BY AccountAssumption DEF MaxAge
    <3>3. /\ otp'[o] \in OtpRows
          /\ otp'[o].email = otp[o].email /\ otp'[o].used = otp[o].used
      BY <1>1, <3>1, <3>2 DEF Older, OtpRows
    <3>4. QED
      BY <2>2, <3>1, <3>3 DEF OtpRows
  <2>3. QED
    BY <2>1, <2>2
<1>3. AccountTypeOK'
  BY <1>1, <1>2 DEF AccountInv, AccountTypeOK, HasAccount, history
<1>4. TablesInv'
  BY <1>1, <1>2 DEF AccountInv, TablesInv, AdminAccountsStayVerified,
       EarnedByCode, OnlineIsVerified, TokensHaveAccounts, HasAccount, history
<1>5. ASSUME NEW q \in Requests  PROVE RequestInv(q)'
  BY <1>1, <1>2 DEF AccountInv, RequestInv, ReadIsKept, CodeIsKept,
       LoginIsEarned, Earned, HasAccount, history
<1>6. QED
  BY <1>3, <1>4, <1>5 DEF AccountInv

LEMMA AccountInitially == AccountInit => AccountInv
<1> SUFFICES ASSUME AccountInit PROVE AccountInv
  OBVIOUS
<1>1. AccountTypeOK
  BY DEF AccountInit, AccountTypeOK
<1>2. TablesInv
  BY DEF AccountInit, TablesInv, AdminAccountsStayVerified, EarnedByCode,
         OnlineIsVerified, TokensHaveAccounts, NoAccount
<1>3. \A r \in Requests : RequestInv(r)
  BY DEF AccountInit, RequestInv, ReadIsKept, CodeIsKept, LoginIsEarned, Idle,
         At
<1>4. QED
  BY <1>1, <1>2, <1>3 DEF AccountInv

LEMMA AccountStutters ==
    ASSUME AccountInv, UNCHANGED accountVars
    PROVE  AccountInv'
<1>1. AccountTypeOK'
  BY DEF AccountInv, AccountTypeOK, accountVars, history, HasAccount
<1>2. TablesInv'
  BY TablesUnchanged DEF AccountInv, accountVars, history
<1>3. \A r \in Requests : RequestInv(r)'
  BY RequestUnchanged DEF AccountInv, accountVars, history
<1>4. QED
  BY <1>1, <1>2, <1>3 DEF AccountInv

LEMMA AccountStep == AccountInv /\ [AccountNext]_accountVars => AccountInv'
<1> SUFFICES ASSUME AccountInv, [AccountNext]_accountVars PROVE AccountInv'
  OBVIOUS
<1>1. ASSUME NEW r \in Requests, RegistrationStep(r) PROVE AccountInv'
  BY <1>1, RegisterReadKeeps, RegisterWriteKeeps, ResendReadKeeps,
     ResendWriteKeeps, SendOtpEmailKeeps DEF RegistrationStep
<1>2. ASSUME NEW r \in Requests, SessionStep(r) PROVE AccountInv'
  BY <1>2, VerifyReadKeeps, VerifyWriteKeeps, LoginReadKeeps, LoginWriteKeeps
     DEF SessionStep
<1>3. ASSUME NEW r \in Requests, AdminStep(r) PROVE AccountInv'
  BY <1>3, AdminReadKeeps, AdminWriteKeeps DEF AdminStep
<1>4. ASSUME NEW r \in Requests, RequestFails(r) PROVE AccountInv'
  BY <1>4, RequestFailsKeeps
<1>5. ASSUME NEW e \in Emails, Logout(e) PROVE AccountInv'
  BY <1>5, LogoutKeeps
<1>6. CASE TimePasses
  BY <1>6, TimePassesKeeps
<1>7. CASE UNCHANGED accountVars
  BY <1>7, AccountStutters
<1>8. QED
  BY <1>1, <1>2, <1>3, <1>4, <1>5, <1>6, <1>7 DEF AccountNext

\* The inductive invariant holds in every reachable state.
THEOREM AccountInvariant == AccountSpec => []AccountInv
<1>1. QED
  BY AccountInitially, AccountStep, PTL DEF AccountSpec

\* Every variable keeps its type, and every code belongs to an account.
THEOREM AccountTypeCorrect == AccountSpec => []AccountTypeOK
<1>1. AccountInv => AccountTypeOK
  BY DEF AccountInv
<1>2. QED
  BY <1>1, AccountInvariant, PTL

\* An account created by an admin is never made unverified, and nobody is
\* verified or logged in without a used code or an admin.
THEOREM AccountsAreEarned ==
    AccountSpec => [](AdminAccountsStayVerified /\ EarnedByCode)
<1>1. AccountInv => AdminAccountsStayVerified /\ EarnedByCode
  BY DEF AccountInv, TablesInv
<1>2. QED
  BY <1>1, AccountInvariant, PTL

\* Nobody is shown online unverified unless a late registration has undone a
\* verification.
THEOREM OnlineAreVerified == AccountSpec => []OnlineIsVerified
<1>1. AccountInv => OnlineIsVerified
  BY DEF AccountInv, TablesInv
<1>2. QED
  BY <1>1, AccountInvariant, PTL

-----------------------------------------------------------------------------
(* Action properties: what only a late request may do.                     *)

\* Only the write of a registration takes a verification back.
LEMMA OnlyRegisterUnverifies ==
    ASSUME AccountInv, [AccountNext]_accountVars, NEW e \in Emails,
           account[e].verified, ~account'[e].verified
    PROVE  \E r \in Requests, o \in Otps :
               RegisterWrite(r, o) /\ request[r].email = e
<1>1. HasAccount(e)
  BY DEF HasAccount, NoAccount
<1>2. account # account'
  OBVIOUS
<1>3. ASSUME NEW r \in Requests, NEW o \in Otps, RegisterWrite(r, o)
      PROVE  request[r].email = e
  BY <1>3 DEF RegisterWrite, AccountInv, AccountTypeOK
<1>4. ASSUME NEW r \in Requests, VerifyWrite(r) PROVE FALSE
  BY <1>1, <1>4, RowsAreRows
     DEF VerifyWrite, AccountInv, AccountTypeOK, Accounts
<1>5. ASSUME NEW r \in Requests, LoginWrite(r) PROVE FALSE
  BY <1>1, <1>5, RowsAreRows
     DEF LoginWrite, AccountInv, AccountTypeOK, Accounts
<1>6. ASSUME NEW f \in Emails, Logout(f) PROVE FALSE
  BY <1>1, <1>6, RowsAreRows DEF Logout, AccountInv, AccountTypeOK, Accounts
<1>7. ASSUME NEW r \in Requests, AdminWrite(r) PROVE FALSE
  BY <1>7 DEF AdminWrite, AccountInv, AccountTypeOK
<1>8. QED
  BY <1>2, <1>3, <1>4, <1>5, <1>6, <1>7
     DEF AccountNext, RegistrationStep, SessionStep, AdminStep, RegisterRead,
         ResendRead, ResendWrite, SendOtpEmail, VerifyRead, LoginRead,
         AdminRead, RequestFails, TimePasses, accountVars

\* Requests move on when they write.
LEMMA WritersMoveOn ==
    ASSUME AccountInv, NEW r \in Requests, NEW o \in Otps,
           RegisterWrite(r, o) \/ ResendWrite(r, o)
    PROVE  /\ request[r].step \in {"registerWrite", "resendWrite"}
           /\ request'[r].step \notin {"registerWrite", "resendWrite"}
           /\ request'[r] # request[r]
BY DEF RegisterWrite, ResendWrite, CreateOtp, Ends, Becomes, At, Idle,
       AccountInv, AccountTypeOK

\* A verified account becomes unverified only through a registration that had
\* read it before it was verified.
THEOREM VerificationIsKept == AccountSpec => VerificationKept
<1>1. ASSUME AccountInv, [AccountNext]_accountVars, NEW e \in Emails,
             account[e].verified, ~account'[e].verified
      PROVE  \E r \in late : /\ request[r].step = "registerWrite"
                            /\ request[r].email = e
                            /\ request'[r].step # "registerWrite"
  <2>1. PICK r \in Requests, o \in Otps :
            RegisterWrite(r, o) /\ request[r].email = e
    BY <1>1, OnlyRegisterUnverifies
  <2>2. request[r].step = "registerWrite" /\ request'[r].step # "registerWrite"
    BY <1>1, <2>1, WritersMoveOn DEF RegisterWrite
  <2>3. request[r].seen # "none"
    BY <1>1, <2>1 DEF RegisterWrite, IndexesAllow, HasAccount, NoAccount
  <2>4. request[r].seen = "unverified"
    BY <1>1, <2>2, <2>3, BusyRequests
       DEF AccountInv, RequestInv, ReadIsKept, Steps, Pending
  <2>5. r \in late
    BY <1>1, <2>1, <2>2, <2>4 DEF AccountInv, RequestInv, ReadIsKept
  <2>6. QED
    BY <2>1, <2>2, <2>5
<1>2. AccountInv /\ [AccountNext]_accountVars =>
        [\A e \in Emails :
          account[e].verified /\ ~account'[e].verified
            => \E r \in late : /\ request[r].step = "registerWrite"
                              /\ request[r].email = e
                              /\ request'[r].step # "registerWrite"]_accountVars
  BY <1>1
<1>3. QED
  BY <1>2, AccountInvariant, PTL DEF AccountSpec, VerificationKept

\* A code is created for a verified account only by a request that had read it
\* before it was verified.
THEOREM CodesAreForUnverified == AccountSpec => CodesForUnverified
<1>1. ASSUME AccountInv, [AccountNext]_accountVars, NEW o \in Otps,
             otp[o] = NoOtp, otp'[o] # NoOtp, account[otp'[o].email].verified
      PROVE  \E r \in late : /\ request[r].step \in {"registerWrite",
                                                      "resendWrite"}
                            /\ request[r].email = otp'[o].email
                            /\ request'[r] # request[r]
  <2>1. PICK r \in Requests, p \in Otps :
            /\ RegisterWrite(r, p) \/ ResendWrite(r, p)
            /\ CreateOtp(r, p)
    <3>1. ASSUME NEW r \in Requests, VerifyWrite(r) PROVE FALSE
      BY <1>1, <3>1 DEF VerifyWrite, AccountInv, AccountTypeOK, RequestInv,
           CodeIsKept
    <3>2. ASSUME TimePasses PROVE FALSE
      BY <1>1, <3>2 DEF TimePasses, Older
    <3>3. QED
      BY <1>1, <3>1, <3>2
         DEF AccountNext, RegistrationStep, SessionStep, AdminStep,
             RegisterRead, RegisterWrite, ResendRead, ResendWrite,
             SendOtpEmail, VerifyRead, LoginRead, LoginWrite, AdminRead,
             AdminWrite, RequestFails, Logout, accountVars
  <2>2. otp'[o].email = request[r].email
    BY <1>1, <2>1 DEF CreateOtp, AccountInv, AccountTypeOK
  <2>3. /\ request[r].step \in {"registerWrite", "resendWrite"}
        /\ request'[r] # request[r]
    BY <1>1, <2>1, WritersMoveOn
  <2>4. account[request[r].email] # NoAccount
    BY <1>1, <2>2 DEF NoAccount
  <2>5. request[r].seen = "unverified"
    <3>1. CASE RegisterWrite(r, p)
      <4>1. request[r].seen # "none"
        BY <2>4, <3>1 DEF RegisterWrite, IndexesAllow, HasAccount
      <4>2. QED
        BY <1>1, <2>3, <4>1, BusyRequests
           DEF AccountInv, RequestInv, ReadIsKept, Steps, Pending
    <3>2. CASE ResendWrite(r, p)
      BY <1>1, <3>2 DEF ResendWrite, AccountInv, RequestInv, ReadIsKept
    <3>3. QED
      BY <2>1, <3>1, <3>2
  <2>6. r \in late
    BY <1>1, <2>2, <2>3, <2>5 DEF AccountInv, RequestInv, ReadIsKept
  <2>7. QED
    BY <2>2, <2>3, <2>6
<1>2. AccountInv /\ [AccountNext]_accountVars =>
        [\A o \in Otps :
          otp[o] = NoOtp /\ otp'[o] # NoOtp /\ account[otp'[o].email].verified
            => \E r \in late : /\ request[r].step \in {"registerWrite",
                                                        "resendWrite"}
                              /\ request[r].email = otp'[o].email
                              /\ request'[r] # request[r]]_accountVars
  BY <1>1
<1>3. QED
  BY <1>2, AccountInvariant, PTL DEF AccountSpec, CodesForUnverified

\* A code verifies a second time only for a request that had found it before
\* its first use was stored.
THEOREM CodesAreUsedOnce == AccountSpec => CodeUsedOnce
<1>1. ASSUME AccountInv, [AccountNext]_accountVars, NEW o \in Otps,
             o \in reused' \ reused
      PROVE  \E r \in late : request[r].otp = o
  <2>1. PICK r \in Requests : VerifyWrite(r)
    BY <1>1 DEF AccountNext, RegistrationStep, SessionStep, AdminStep,
         RegisterRead, RegisterWrite, ResendRead, ResendWrite, SendOtpEmail,
         VerifyRead, LoginRead, LoginWrite, AdminRead, AdminWrite,
         RequestFails, Logout, TimePasses, accountVars, history
  <2>2. request[r].otp = o /\ otp[o].used
    BY <1>1, <2>1 DEF VerifyWrite
  <2>3. r \in late
    BY <1>1, <2>1, <2>2 DEF VerifyWrite, AccountInv, RequestInv, CodeIsKept
  <2>4. QED
    BY <2>2, <2>3
<1>2. AccountInv /\ [AccountNext]_accountVars =>
        [\A o \in Otps :
          o \in reused' \ reused => \E r \in late : request[r].otp = o]_accountVars
  BY <1>1
<1>3. QED
  BY <1>2, AccountInvariant, PTL DEF AccountSpec, CodeUsedOnce

=============================================================================
