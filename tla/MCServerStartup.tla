--------------------------- MODULE MCServerStartup ---------------------------
(* The instance of ServerStartup that TLC checks: every way to set one     *)
(* variable, every way to set the five that decide about moderation, and   *)
(* every configuration of mail.                                            *)
EXTENDS ServerStartup

Usual == [v \in Variables |-> IF v \in {"JWT_SECRET", "DATABASE_URL"}
                              THEN CHOOSE t \in Texts(v) : Parse(v, t) = t
                                     /\ t \notin Absent \cup {"dev-secret", "DEV-SECRET"}
                              ELSE Unset]

Deployed(shell, file, wanted, mail) ==
    [shell |-> shell, file |-> file, wanted |-> wanted, mail |-> mail]

\* One variable is set, by the shell, a file or both.
OneVariable ==
    UNION {{Deployed([NotLoaded EXCEPT ![v] = s], [Usual EXCEPT ![v] = f],
                     "auto", {"manual"}) : s \in Texts(v), f \in Texts(v)}
           : v \in Variables}

\* The shell sets those that decide whether and when a listing is approved.
Moderating ==
    {Deployed([NotLoaded EXCEPT !["NODE_ENV"] = n,
                                !["JWT_SECRET"] = j,
                                !["AI_MODERATION_ENABLED"] = e,
                                !["OPENROUTER_API_KEY"] = k,
                                !["AI_AUTO_APPROVE_CONFIDENCE_MIN"] = c],
              Usual, "auto", {"manual"}) :
        n \in {Unset, "Production", "Test"},
        j \in {Unset, "dev-secret"},
        e \in {Unset, "true", "TRUE", "1", "false", "0"},
        k \in {Unset, "", "some text"},
        c \in {Unset, "", "0.9"}}

EveryMail ==
    {Deployed([NotLoaded EXCEPT !["NODE_ENV"] = n], Usual, w, m) :
        n \in {Unset, "production"},
        w \in {"auto", "smtp", "resend"},
        m \in SUBSET (Flags \ {"isProduction"})}

AllDeployments == OneVariable \cup Moderating \cup EveryMail
=============================================================================
