------------------------------ MODULE HomeAssistant ------------------------------
(***************************************************************************)
(* The Home Assistant integration, one config entry for one server: the       *)
(* flows and services that change models and settings, the coordinator that   *)
(* polls them, the score sensors it adds and removes, and the reload of the    *)
(* Wyoming entry, whose wake words Home Assistant caches.                     *)
(*                                                                         *)
(* The server is what its HTTP API answers: models, a setting, or 401.  Home   *)
(* Assistant itself is external: it sets an entry up again after              *)
(* ConfigEntryNotReady, and after ConfigEntryAuthFailed stops polling and asks  *)
(* the user for a token.  Detections are in EventStream.                      *)
(***************************************************************************)
EXTENDS Naturals

CONSTANTS
    Ids, Values, Tokens,
    MaxHappenings           \* bound: changes and outages

ASSUME HomeAssumption == MaxHappenings \in Nat

VARIABLES
    served, setting,    \* the server's models and one of its settings
    reachable, secret,  \* the server is; its API token
    entry,              \* none, starting, retrying, refused (by the server), loaded
    token,              \* entry.data[CONF_TOKEN]
    asks,               \* the GET under way: none, info, models, scores, settings
    draft,              \* models of the poll under way
    shown,              \* coordinator.data
    fresh,              \* coordinator.last_update_success
    scheduled,          \* the next poll is, by the interval or a request
    asking,             \* the reauthentication flow is open
    known,              \* known_models of the sensor platform
    registry,           \* models with a score sensor in the entity registry
    assist,             \* wake words of the Wyoming entry
    reload,             \* the Wyoming entry is to be reloaded
    happenings,
    orphans,            \* history: sensors from before the last setup whose model
                        \* was gone then
    behind              \* history: the models have changed otherwise than through
                        \* Home Assistant since the Wyoming entry was loaded

serverVars == <<served, setting, reachable, secret>>
pollVars == <<asks, draft, shown, fresh, scheduled>>
sensorVars == <<known, registry, orphans>>
assistVars == <<assist, reload, behind>>
homeVars == <<serverVars, entry, token, asking, pollVars, sensorVars, assistVars, happenings>>

Admitted == reachable /\ token = secret

Happens == happenings < MaxHappenings /\ happenings' = happenings + 1

----------------------------------------------------------------------------
\* Setup and polling

Setup ==
    /\ entry \in {"starting", "retrying"} /\ asks = "none"
    /\ asks' = "info"
    /\ UNCHANGED <<serverVars, entry, token, asking, draft, shown, fresh, scheduled,
                   sensorVars, assistVars, happenings>>

Poll ==
    /\ entry = "loaded" /\ asks = "none" /\ scheduled
    /\ asks' = "models" /\ scheduled' = FALSE
    /\ UNCHANGED <<serverVars, entry, token, asking, draft, shown, fresh,
                   sensorVars, assistVars, happenings>>

After == [info |-> "models", models |-> "scores", scores |-> "settings"]

Answer ==
    /\ asks \in DOMAIN After /\ Admitted
    /\ asks' = After[asks]
    /\ draft' = IF asks = "models" THEN served ELSE draft
    /\ UNCHANGED <<serverVars, entry, token, asking, shown, fresh, scheduled,
                   sensorVars, assistVars, happenings>>

\* known_models after _sync_score_sensors.
Synced_Grows(before, current) == before \cup current    \* mutant: none is forgotten
Synced(before, current) == current

\* The last answer; an entry that was not yet loaded gets its platforms now.
Update ==
    /\ asks = "settings" /\ Admitted
    /\ asks' = "none" /\ entry' = "loaded"
    /\ shown' = [models |-> draft, setting |-> setting]
    /\ fresh' = TRUE /\ scheduled' = TRUE
    /\ LET before == IF entry = "loaded" THEN known ELSE {}
       IN  /\ known' = Synced(before, draft)
           /\ registry' = (registry \cup (draft \ before)) \ (before \ draft)
           /\ orphans' = (IF entry = "loaded" THEN orphans ELSE registry) \ draft
    /\ UNCHANGED <<serverVars, token, asking, draft, assistVars, happenings>>

Failed_Stops == fresh' = FALSE /\ scheduled' = FALSE    \* mutant: polling is over
Failed == fresh' = FALSE /\ scheduled' = TRUE

\* NanoWakeWordApiError: UpdateFailed, or ConfigEntryNotReady.
Fail ==
    /\ asks # "none"
    /\ \/ ~reachable /\ UNCHANGED happenings
       \/ Happens
    /\ asks' = "none" /\ Failed
    /\ entry' = IF entry = "loaded" THEN "loaded" ELSE "retrying"
    /\ UNCHANGED <<serverVars, token, asking, draft, shown, sensorVars, assistVars>>

\* NanoWakeWordAuthError: ConfigEntryAuthFailed.
Refuse ==
    /\ asks # "none" /\ reachable /\ token # secret
    /\ asks' = "none" /\ fresh' = FALSE /\ scheduled' = FALSE
    /\ entry' = IF entry = "loaded" THEN "loaded" ELSE "refused"
    /\ asking' = TRUE
    /\ UNCHANGED <<serverVars, token, draft, shown, sensorVars, assistVars, happenings>>

----------------------------------------------------------------------------
\* The configuration flow

Begin ==
    /\ entry' = "starting" /\ asks' = "none" /\ fresh' = FALSE /\ scheduled' = FALSE
    /\ asking' = FALSE
    /\ UNCHANGED <<serverVars, draft, shown, sensorVars>>

\* async_step_user, async_step_zeroconf_confirm: a token that /api/info accepts.
AddEntry ==
    /\ entry = "none" /\ reachable
    /\ token' = secret
    /\ Begin
    /\ UNCHANGED <<assistVars, happenings>>

\* async_step_reauth_confirm: the entry is reloaded with the new token.
Reauthenticate ==
    /\ asking /\ reachable
    /\ token' = secret
    /\ Begin
    /\ UNCHANGED <<assistVars, happenings>>

\* Home Assistant starts again; the Wyoming entry is loaded as well.
RestartHome ==
    /\ entry # "none" /\ Happens
    /\ Begin /\ reload' = TRUE
    /\ UNCHANGED <<token, assist, behind>>

----------------------------------------------------------------------------
\* The options flow, services and entities of a loaded entry

\* async_request_refresh; a poll under way is followed by another one.
RequestRefresh == scheduled' = TRUE

\* A change of models that the server has answered: async_notify_model_change.  What
\* is served afterwards is up to the file and models.yaml (ModelStore), and a change
\* that the server refuses or that is not answered leaves Home Assistant as it is.
Changed(models) ==
    /\ entry = "loaded" /\ Admitted /\ Happens
    /\ served' = models
    /\ RequestRefresh
    /\ reload' = TRUE
    /\ UNCHANGED <<setting, reachable, secret, entry, token, asking, asks, draft, shown,
                   fresh, sensorVars, assist, behind>>

UploadModel == \E ids \in SUBSET Ids : Changed(ids)
DeleteModel == \E ids \in SUBSET Ids : Changed(ids)
Restore == \E ids \in SUBSET Ids : Changed(ids)
Reload == \E ids \in SUBSET Ids : Changed(ids)

\* Switches, numbers and async_step_configure_verifier.
ApplySettings ==
    /\ entry = "loaded" /\ Admitted /\ Happens
    /\ setting' \in Values
    /\ RequestRefresh
    /\ UNCHANGED <<served, reachable, secret, entry, token, asking, asks, draft, shown,
                   fresh, sensorVars, assistVars>>

\* The Wyoming integration asks the server for its wake words again.
ReloadWyoming ==
    /\ reload /\ reachable
    /\ reload' = FALSE /\ assist' = served /\ behind' = FALSE
    /\ UNCHANGED <<serverVars, entry, token, asking, pollVars, sensorVars, happenings>>

----------------------------------------------------------------------------
\* The server

\* By another client of the API, or by a call of this one whose answer was lost.
ChangeElsewhere ==
    /\ reachable /\ Happens
    /\ served' \in SUBSET Ids /\ setting' \in Values
    /\ behind' = (behind \/ served' # served)
    /\ UNCHANGED <<reachable, secret, entry, token, asking, pollVars, sensorVars,
                   assist, reload>>

Outage ==
    /\ reachable /\ Happens
    /\ reachable' = FALSE
    /\ UNCHANGED <<served, setting, secret, entry, token, asking, pollVars, sensorVars,
                   assistVars>>

\* Back, perhaps with other files and another token.
Return ==
    /\ ~reachable /\ reachable' = TRUE
    /\ served' \in SUBSET Ids /\ secret' \in Tokens
    /\ behind' = (behind \/ served' # served)
    /\ UNCHANGED <<setting, entry, token, asking, pollVars, sensorVars, assist, reload,
                   happenings>>

HomeInit ==
    /\ served \in SUBSET Ids /\ setting \in Values
    /\ reachable = TRUE /\ secret \in Tokens /\ token = secret
    /\ entry = "none" /\ asks = "none" /\ asking = FALSE
    /\ draft = {} /\ shown = [models |-> {}, setting |-> setting]
    /\ fresh = FALSE /\ scheduled = FALSE
    /\ known = {} /\ registry = {} /\ orphans = {}
    /\ assist = served /\ reload = FALSE /\ behind = FALSE
    /\ happenings = 0

HomeNext ==
    \/ Setup \/ Poll \/ Answer \/ Update \/ Fail \/ Refuse
    \/ AddEntry \/ Reauthenticate \/ RestartHome
    \/ UploadModel \/ DeleteModel \/ Restore \/ Reload \/ ApplySettings \/ ReloadWyoming
    \/ ChangeElsewhere \/ Outage \/ Return

HomeSpec == HomeInit /\ [][HomeNext]_homeVars

----------------------------------------------------------------------------
\* Each model of the last successful poll has its score sensor, and there are no
\* others: neither after models have come and gone, nor after failed polls ("a
\* server hiccup must not delete every score sensor", sensor.py:52), but for those
\* of models that went while the entry was not loaded.  The wake words to choose
\* from in Voice Assist are the server's, or about to be, unless they have been
\* changed by other means.
EntitiesFollow ==
    /\ entry = "loaded" => registry = shown.models \cup orphans
    /\ assist # served => reload \/ behind

\* As long as Home Assistant polls, retries a setup and reloads, and the server
\* answers: a server that can be reached and accepts the token is shown as it is, whatever
\* has failed before; after a 401 it may take the user.
CatchesUp ==
    (entry # "none" /\ Admitted) ~>
        \/ entry = "loaded" /\ fresh /\ ~reload
           /\ shown = [models |-> served, setting |-> setting]
        \/ ~Admitted \/ asking
=============================================================================
