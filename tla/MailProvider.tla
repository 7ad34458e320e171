----------------------------- MODULE MailProvider -----------------------------
(***************************************************************************)
(* MailService: which provider a configuration selects, what a startup     *)
(* makes of it, and what becomes of the mails that are sent afterwards.    *)
(*                                                                         *)
(* A configuration says of each variable whether it has a non-empty value. *)
(* A process keeps it for life; the container is started again after a     *)
(* failed startup or an exit.                                              *)
(***************************************************************************)
EXTENDS Naturals

CONSTANT MaxOutages   \* bound: how often the provider becomes unreachable

ASSUME OutagesAssumption == MaxOutages \in Nat

VARIABLES
    config,       \* the environment of the container
    phase,        \* "down", "verifying" (awaiting verify), "running"
    transporter,  \* whether there is a nodemailer transporter
    reachable,    \* whether the provider that the configuration names answers
    outages,      \* outages so far
    lastSend      \* what became of the last sendOtpEmail

mailVars == <<config, phase, transporter, reachable, outages, lastSend>>

Flags == {"manual", "resendApiKey", "smtpHost", "smtpUser", "smtpPass",
          "fromAddress", "isProduction", "smtpFailFast", "smtpVerifyOnStartup"}
Configurations == [wanted : {"auto", "smtp", "resend"}, set : SUBSET Flags]
Has(c, flag) == flag \in c.set

Provider(c) ==
    CASE c.wanted = "resend" -> IF Has(c, "resendApiKey") THEN "resend" ELSE "null"
      [] c.wanted = "smtp"   -> IF Has(c, "smtpHost") THEN "smtp" ELSE "null"
      [] OTHER -> IF Has(c, "resendApiKey") THEN "resend"
                  ELSE IF Has(c, "smtpHost") THEN "smtp" ELSE "null"

HalfAuth(c) == Has(c, "smtpUser") # Has(c, "smtpPass")

\* Mutant: half of the SMTP credentials are enough.
ConfiguredWithHalfAuth(c) ==
    \/ Has(c, "manual")
    \/ Has(c, "fromAddress") /\ Provider(c) # "null"

IsMailConfigured(c) ==
    \/ Has(c, "manual")
    \/ /\ Has(c, "fromAddress")
       /\ Provider(c) # "null"
       /\ Provider(c) = "smtp" => ~HalfAuth(c)

\* The keys that the error of a failed startup names.
MissingConfigKeys(c) ==
    LET needsHost == Provider(c) = "null" /\ c.wanted # "resend"
        needsKey  == Provider(c) = "null" /\ c.wanted # "smtp"
        half      == Provider(c) = "smtp" /\ HalfAuth(c)
    IN  IF Has(c, "manual") THEN {}
        ELSE (IF needsHost THEN {"SMTP_HOST"} ELSE {})
             \cup (IF needsKey THEN {"RESEND_API_KEY"} ELSE {})
             \cup (IF half /\ ~Has(c, "smtpUser") THEN {"SMTP_USER"} ELSE {})
             \cup (IF half /\ ~Has(c, "smtpPass") THEN {"SMTP_PASS"} ELSE {})
             \cup (IF Has(c, "fromAddress") THEN {} ELSE {"MAIL_FROM"})

MailInit ==
    /\ config \in Configurations
    /\ phase = "down"
    /\ transporter = FALSE
    /\ reachable \in BOOLEAN
    /\ outages = 0
    /\ lastSend = "none"

UsesSmtp(c) == IsMailConfigured(c) /\ ~Has(c, "manual") /\ Provider(c) = "smtp"

\* onModuleInit throws: the process exits before it listens.
RefusesToStart(c) == ~IsMailConfigured(c) /\ Has(c, "isProduction")

StartWith(created) ==
    /\ phase = "down"
    /\ ~RefusesToStart(config)
    /\ UsesSmtp(config) => ~Has(config, "smtpVerifyOnStartup")
    /\ phase' = "running"
    /\ transporter' = created
    /\ UNCHANGED <<config, reachable, outages, lastSend>>

\* Mutant: the transporter is created by the verification only.
StartWithoutTransporter == StartWith(FALSE)

\* onModuleInit of a service that has nothing to verify.
StartWithoutVerify == StartWith(UsesSmtp(config))

StartVerify ==
    /\ phase = "down"
    /\ UsesSmtp(config) /\ Has(config, "smtpVerifyOnStartup")
    /\ phase' = "verifying"
    /\ transporter' = TRUE
    /\ UNCHANGED <<config, reachable, outages, lastSend>>

VerifySucceeds ==
    /\ phase = "verifying"
    /\ reachable
    /\ phase' = "running"
    /\ UNCHANGED <<config, transporter, reachable, outages, lastSend>>

FailsFast(c) == Has(c, "isProduction") /\ Has(c, "smtpFailFast")

\* The catch block: the transporter is dropped, and nothing else sets it.
VerifyFails ==
    /\ phase = "verifying"
    /\ ~reachable
    /\ phase' = IF FailsFast(config) THEN "down" ELSE "running"
    /\ transporter' = FALSE
    /\ UNCHANGED <<config, reachable, outages, lastSend>>

\* What a send needs to get through.
Delivers ==
    /\ reachable
    /\ Has(config, "fromAddress")
    /\ Provider(config) = "resend" \/ transporter

SendOtpEmail ==
    /\ phase = "running"
    /\ lastSend' = IF Has(config, "manual") THEN "skipped"
                   ELSE IF Delivers THEN "accepted" ELSE "unavailable"
    /\ UNCHANGED <<config, phase, transporter, reachable, outages>>

ProviderFails ==
    /\ reachable
    /\ outages < MaxOutages
    /\ reachable' = FALSE
    /\ outages' = outages + 1
    /\ UNCHANGED <<config, phase, transporter, lastSend>>

ProviderRecovers ==
    /\ ~reachable
    /\ reachable' = TRUE
    /\ UNCHANGED <<config, phase, transporter, outages, lastSend>>

\* The process exits; the next one starts with its fields empty.
ProcessExits ==
    /\ phase # "down"
    /\ phase' = "down"
    /\ transporter' = FALSE
    /\ UNCHANGED <<config, reachable, outages, lastSend>>

Startup == \/ StartWithoutVerify
           \/ StartVerify
           \/ VerifySucceeds
           \/ VerifyFails

MailNext == \/ Startup
            \/ SendOtpEmail
            \/ ProviderFails
            \/ ProviderRecovers
            \/ ProcessExits

MailSpec == MailInit /\ [][MailNext]_mailVars

-----------------------------------------------------------------------------
(* Properties                                                              *)

\* Every variable has its type, and only a started SMTP service has a
\* transporter.
MailTypeOK ==
    /\ config \in Configurations
    /\ phase \in {"down", "verifying", "running"}
    /\ transporter \in BOOLEAN /\ reachable \in BOOLEAN
    /\ outages \in 0..MaxOutages
    /\ lastSend \in {"none", "skipped", "accepted", "unavailable"}
    /\ transporter => phase # "down" /\ UsesSmtp(config)

\* isMailConfigured and getMissingConfigKeys, which repeat the same case
\* analysis, agree: a startup is refused exactly with a reason to name.
RefusalIsExplained ==
    IsMailConfigured(config) <=> MissingConfigKeys(config) = {}

\* Codes are refused delivery only for a reason: the provider is down, a
\* variable is missing, or the startup of this process could not reach SMTP -
\* which SMTP_VERIFY_ON_STARTUP=false rules out.
RefusedForAReason ==
    [][ (lastSend' = "unavailable" /\ phase = "running" /\ lastSend' # lastSend)
          => \/ ~reachable
             \/ MissingConfigKeys(config) # {}
             \/ ~transporter /\ Has(config, "smtpVerifyOnStartup") ]_mailVars
=============================================================================
