-------------------------------- MODULE MCOutputs --------------------------------
(* What leaves the handlers: capture files, counts, events and what Home
   Assistant makes of it.  The four share no state: the run looks at each, by
   choosing at the start which one it is about. *)
EXTENDS Captures, Scores, EventStream, HomeAssistant

VARIABLE about

vars == <<about, captureVars, scoreVars, eventVars, homeVars>>

Init ==
    /\ about \in {"captures", "scores", "events", "home"}
    /\ CapturesInit /\ ScoresInit /\ EventsInit /\ HomeInit
    /\ about # "captures" => captures = {}
    /\ about # "events" => ~running
    /\ about # "home" =>
          /\ served = {}
          /\ setting = (CHOOSE v \in Values : TRUE) /\ secret = (CHOOSE t \in Tokens : TRUE)

EventsOnly ==
    about = "events" /\ UNCHANGED <<about, captureVars, scoreVars, homeVars>>
HomeOnly ==
    about = "home" /\ UNCHANGED <<about, captureVars, scoreVars, eventVars>>

Next ==
    \/ about = "captures" /\ CapturesNext
          /\ UNCHANGED <<about, scoreVars, eventVars, homeVars>>
    \/ about = "scores" /\ ScoresNext
          /\ UNCHANGED <<about, captureVars, eventVars, homeVars>>
    \/ EventsNext /\ EventsOnly
    \/ HomeNext /\ HomeOnly

\* The listener tries to connect for ever, and a write to a broken connection fails
\* in the end: at the latest the keepalive's, after 30 s.
EventsFairness ==
    /\ WF_vars(Unsubscribe /\ EventsOnly)
    /\ \A s \in Subscribers : WF_vars(Connect(s) /\ EventsOnly)

\* Home Assistant polls, retries a setup and reloads an entry; the server answers.
HomeFairness ==
    /\ WF_vars(Setup /\ HomeOnly) /\ WF_vars(Poll /\ HomeOnly)
    /\ WF_vars(Answer /\ HomeOnly) /\ WF_vars(Update /\ HomeOnly)
    /\ WF_vars(ReloadWyoming /\ HomeOnly)

Spec == Init /\ [][Next]_vars /\ EventsFairness /\ HomeFairness
=============================================================================
