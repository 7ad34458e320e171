---------------------------- MODULE ServerStartup ----------------------------
(***************************************************************************)
(* bootstrap: ConfigModule loads the environment, the services are built   *)
(* from it, MailService decides whether the process listens - and what the *)
(* services of a process that listens have understood.                     *)
(*                                                                         *)
(* The shell's variables go before those of the .env files.  What the      *)
(* validation returns is written back to process.env for variables that    *)
(* the shell has not set, and most of the moderation code reads            *)
(* process.env.                                                            *)
(***************************************************************************)
EXTENDS MailProvider, Environment

CONSTANT Deployments   \* bound: the deployments that are examined

VARIABLES
    deployment,   \* the shell's and the files' variables, and those of mail
    settings,     \* what validateEnvironment has returned
    processEnv    \* process.env

startupVars == <<deployment, settings, processEnv>>
serverVars == <<mailVars, startupVars>>

DeploymentTypes ==
    [shell : [Variables -> STRING], file : [Variables -> STRING],
     wanted : {"auto", "smtp", "resend"}, mail : SUBSET (Flags \ {"isProduction"})]

ASSUME DeploymentsAssumption ==
    \A d \in Deployments : /\ d \in DeploymentTypes
                           /\ \A v \in Variables : {d.shell[v], d.file[v]} \subseteq Texts(v)

NotLoaded == [v \in Variables |-> Unset]
Loaded == settings # NotLoaded

\* loadEnvFile and process.env: what validateEnvironment is given.
Merged(d) == [v \in Variables |-> IF d.shell[v] = Unset THEN d.file[v] ELSE d.shell[v]]
Validated(d) == ValidateEnvironment(Merged(d))

\* assignVarsToProcess
Assigned(d) == [v \in Variables |-> IF d.shell[v] = Unset THEN Validated(d)[v]
                                                          ELSE d.shell[v]]

\* isProduction is asked of ConfigService, which answers as validated.
MailConfig(d) ==
    [wanted |-> d.wanted,
     set |-> d.mail \cup (IF Validated(d)["NODE_ENV"] = "production"
                            THEN {"isProduction"} ELSE {})]

StartupInit ==
    /\ deployment \in Deployments
    /\ config = MailConfig(deployment)
    /\ MailInit
    /\ settings = NotLoaded
    /\ processEnv = deployment.shell

\* ConfigModule.forRoot; the process exits when the validation throws.
LoadConfig ==
    /\ phase = "down" /\ ~Loaded
    /\ Accepts(Validated(deployment))
    /\ settings' = Validated(deployment)
    /\ processEnv' = Assigned(deployment)
    /\ UNCHANGED <<deployment, mailVars>>

HasDatabase == processEnv["DATABASE_URL"] \notin Absent

\* A process that has exited leaves nothing of its environment to the next.
ExitsOrStays ==
    /\ UNCHANGED deployment
    /\ IF phase' = "down" THEN settings' = NotLoaded /\ processEnv' = deployment.shell
                          ELSE UNCHANGED <<settings, processEnv>>

\* The constructor of PrismaService or onModuleInit of MailService throws.
StartupRefused ==
    /\ Loaded /\ phase = "down"
    /\ ~HasDatabase \/ RefusesToStart(config)
    /\ UNCHANGED mailVars
    /\ ExitsOrStays

\* onModuleInit, and then listen.
ServerStarts == Loaded /\ HasDatabase /\ Startup /\ ExitsOrStays

ServerRuns == (SendOtpEmail \/ ProcessExits) /\ ExitsOrStays

ProviderStep == (ProviderFails \/ ProviderRecovers) /\ UNCHANGED startupVars

StartupNext == \/ LoadConfig
               \/ StartupRefused
               \/ ServerStarts
               \/ ServerRuns
               \/ ProviderStep

StartupSpec == StartupInit /\ [][StartupNext]_serverVars

-----------------------------------------------------------------------------
(* Properties                                                              *)

\* Variables have their types; a process that has loaded its environment has a
\* secret, which outside of tests is not the example's, and a key for moderation
\* when that is on; a process that serves requests has a database too.
StartupTypeOK ==
    /\ MailTypeOK
    /\ \A v \in Variables : /\ settings[v] \in Texts(v) \cup {Default(v), Parse(v, "")}
                                               \cup {Parse(v, t) : t \in Texts(v)}
                            /\ settings[v] # Throws
    /\ phase # "down" => Loaded /\ HasDatabase
    /\ Loaded => settings["JWT_SECRET"] \notin Absent
    /\ Loaded /\ settings["NODE_ENV"] # "test"
         => Lowered(settings["JWT_SECRET"]) # "dev-secret"
    /\ Loaded /\ settings["AI_MODERATION_ENABLED"] = "true"
         => settings["OPENROUTER_API_KEY"] \notin Absent

\* The texts that are understood in two ways when the shell has them.
Misread(v) ==
    CASE v = "AI_MODERATION_ENABLED" -> {"TRUE", "1"}
      [] v \in Features -> {"FALSE", "0"}
      [] v \in PositiveIntegers -> {""}
      [] v = "AI_AUTO_APPROVE_CONFIDENCE_MIN" -> {""}
      [] v = "NODE_ENV" -> {"Test", "Production"}
      [] OTHER -> {}

\* Whether the services that read variable v of process.env for themselves have
\* understood what the validation has returned; NODE_ENV has two such readers,
\* the worker and the CORS option.
Agrees(v) ==
    LET valid == settings[v]
        Same(reads) == valid = (IF reads THEN "true" ELSE "false")
    IN  CASE v = "AI_MODERATION_ENABLED" -> Same(ServicesEnabled(processEnv))
          [] v \in Features -> Same(FeatureEnabled(processEnv, v))
          [] v \in PositiveIntegers -> valid = IntegerRead(processEnv, v)
          [] v = "AI_AUTO_APPROVE_CONFIDENCE_MIN" -> valid = ConfidenceRead(processEnv)
          [] v = "NODE_ENV" -> /\ InTest(processEnv) <=> (valid = "test")
                               /\ InProduction(processEnv) <=> (valid = "production")
          [] OTHER -> valid = TextRead(processEnv, v)

ReadForThemselves ==
    Variables \ {"PORT", "OTP_EXPIRES_MINUTES", "JWT_SECRET", "JWT_EXPIRES_IN",
                 "TRUST_PROXY", "DATABASE_URL"}

\* A setting means the same to the validation and to the services, wherever it
\* is set, but for the texts of Misread in the shell's environment, a blank
\* value among them; and the cookie lives as long as its token but for a
\* lifetime that is a number without a unit, seconds to one and milliseconds to
\* the other, or that has a fraction of a second, which only the cookie keeps
\* (env.validation.ts:84, auth.service.ts:333).
ReadersAgree ==
    phase = "running" =>
        /\ \A v \in ReadForThemselves :
             Agrees(v) <=> deployment.shell[v] \notin Misread(v)
        /\ LET t == settings["JWT_EXPIRES_IN"]
           IN  CookieMs(t) = TokenMs(t)
                 <=> \/ CookieMs(t) = 0
                     \/ Duration(t)[2] # "" /\ CookieMs(t) % 1000 = 0

\* What automation relies on has been validated: listings are moderated only if
\* the validation has found moderation enabled and the key that is used; they
\* are approved by the validated confidence or by NaN, which approves nothing;
\* and the worker polls in a test environment only if the shell has misspelt it:
\* "Test" is validated as test and starts the worker (worker.service.ts:27).
\* The optional features are not promised: "FALSE" in the shell leaves them on.
AutomationIsValidated ==
    phase = "running" =>
        /\ ServicesEnabled(processEnv) =>
             /\ settings["AI_MODERATION_ENABLED"] = "true"
             /\ TextRead(processEnv, "OPENROUTER_API_KEY")
                  = settings["OPENROUTER_API_KEY"]
             /\ settings["OPENROUTER_API_KEY"] # Unset
        /\ ConfidenceRead(processEnv) \in
             {settings["AI_AUTO_APPROVE_CONFIDENCE_MIN"], "NaN"}
        /\ Polls(processEnv) /\ settings["NODE_ENV"] = "test"
             => deployment.shell["NODE_ENV"] \in Misread("NODE_ENV")
=============================================================================
