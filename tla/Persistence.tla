---------------------------- MODULE Persistence -----------------------------
(***************************************************************************)
(* The stick's settings: what the network tasks hold in RAM (STATE), what  *)
(* the manifest_store task saves, and the one flash sector it saves to.    *)
(*                                                                         *)
(* A Provisioning is reduced to its ntfy topic, a NetworkConfig to a model *)
(* value.  All tasks share one cooperative executor, and Store::save has   *)
(* no await: between its erase and its write only a power loss can happen, *)
(* so every other action needs the flash to be settled.                    *)
(***************************************************************************)
EXTENDS Naturals

CONSTANTS Topics, NoTopic,         \* ntfy topics, and none
          Manifests, NoManifest,   \* network manifests, and none
          TooBig,                  \* manifests whose record exceeds MAX_RECORD_LEN
          Http,                    \* manifests that enable the web server
          MaxResets,               \* budget of power losses and resets
          MaxFlashErrors           \* budget of failing erases and writes

ASSUME SettingsAssumption ==
    /\ NoTopic \notin Topics
    /\ NoManifest \notin Manifests
    /\ TooBig \subseteq Manifests
    /\ Http \subseteq Manifests
    /\ MaxResets \in Nat /\ MaxFlashErrors \in Nat

VARIABLES mode,             \* "station" or "provisioning"
          flash,            \* the settings sector
          manifest,         \* STATE.manifest
          ntfy_topic,       \* STATE.ntfy_topic
          MANIFESTS,        \* channels of capacity one
          TOPIC_UPDATES,
          provisioning,     \* the settings the flash task last took up
          network,
          at,               \* the flash task: "idle", "writing" or "restarting"
          serving,          \* the web server is bound
          last_save,        \* ghost: "done" or "failed"
          resets, errors    \* faults still to come

stateVars == <<manifest, ntfy_topic, MANIFESTS, TOPIC_UPDATES, serving>>
storeVars == <<provisioning, network, at, last_save>>
vars == <<mode, flash, stateVars, storeVars, resets, errors>>

Settings(topic, net) == [topic |-> topic, network |-> net]

\* No record, or one whose checksum does not match: Store::load finds nothing.
Blank == Settings(NoTopic, NoManifest)

Records == [topic : Topics \cup {NoTopic}, network : Manifests \cup {NoManifest}]

TypeOK ==
    /\ mode \in {"station", "provisioning"}
    /\ flash \in Records
    /\ manifest \in Manifests \cup {NoManifest}
    /\ ntfy_topic \in Topics \cup {NoTopic}
    /\ MANIFESTS \in Manifests \cup {NoManifest}
    /\ TOPIC_UPDATES \in Topics \cup {NoTopic}
    /\ provisioning \in Topics \cup {NoTopic}
    /\ network \in Manifests \cup {NoManifest}
    /\ at \in {"idle", "writing", "restarting"}
    /\ serving \in BOOLEAN
    /\ last_save \in {"done", "failed"}
    /\ resets \in Nat /\ errors \in Nat

-----------------------------------------------------------------------------
(* network::start: station mode from a loaded record, provisioning without *)
(* one or with the button held (force).                                    *)

\* A factory-new stick.
Init ==
    /\ mode = "provisioning"
    /\ flash = Blank
    /\ manifest = NoManifest
    /\ ntfy_topic = NoTopic
    /\ MANIFESTS = NoManifest
    /\ TOPIC_UPDATES = NoTopic
    /\ provisioning = NoTopic
    /\ network = NoManifest
    /\ at = "idle"
    /\ serving = FALSE
    /\ last_save = "done"
    /\ resets = MaxResets
    /\ errors = MaxFlashErrors

Boot(force) ==
    LET saved == IF force THEN Blank ELSE flash IN
    /\ mode' = IF saved.topic = NoTopic THEN "provisioning" ELSE "station"
    /\ manifest' = saved.network
    /\ ntfy_topic' = saved.topic
    /\ provisioning' = saved.topic
    /\ network' = saved.network
    /\ MANIFESTS' = NoManifest
    /\ TOPIC_UPDATES' = NoTopic
    /\ at' = "idle"
    /\ serving' = FALSE
    /\ last_save' = "done"

\* Power loss or reset at any point, also between the erase and the write.
PowerLoss(force) ==
    /\ resets > 0
    /\ resets' = resets - 1
    /\ Boot(force)
    /\ UNCHANGED <<flash, errors>>

-----------------------------------------------------------------------------
(* Store::save.                                                            *)

FlashError == errors > 0 /\ errors' = errors - 1

\* The record is refused before the sector is touched, or the sector is erased,
\* or the erase fails somewhere.  The callers ignore the error.
Save(topic, net) ==
    /\ provisioning' = topic
    /\ network' = net
    /\ \/ /\ net \in TooBig
          /\ last_save' = "failed"
          /\ UNCHANGED <<flash, at, errors>>
       \/ /\ net \notin TooBig
          /\ flash' = Blank
          /\ at' = "writing"
          /\ UNCHANGED <<last_save, errors>>
       \/ /\ net \notin TooBig
          /\ FlashError
          /\ flash' \in {flash, Blank}
          /\ last_save' = "failed"
          /\ UNCHANGED at

\* The write behind the erase; after a submitted form the stick restarts.
WriteRecord ==
    /\ at = "writing"
    /\ \/ /\ flash' = Settings(provisioning, network)
          /\ at' = IF mode = "station" THEN "idle" ELSE "restarting"
          /\ last_save' = "done"
          /\ UNCHANGED errors
       \/ /\ FlashError
          /\ at' = "idle"
          /\ last_save' = "failed"
          /\ UNCHANGED flash
    /\ UNCHANGED <<mode, stateVars, provisioning, network, resets>>

-----------------------------------------------------------------------------
(* Provisioning mode.                                                      *)

\* POST /configure with valid settings.
Configure(topic) ==
    /\ mode = "provisioning" /\ at = "idle"
    /\ Save(topic, NoManifest)
    /\ UNCHANGED <<mode, stateVars, resets>>

\* The response is out, a second has passed: software_reset.
Restart(force) ==
    /\ at = "restarting"
    /\ Boot(force)
    /\ UNCHANGED <<flash, resets, errors>>

-----------------------------------------------------------------------------
(* The manifest from USB and the web server.                               *)

\* Mutant: a full channel keeps its old entry.
LatestKeepsFirst(channel, none, value) == IF channel = none THEN value ELSE channel

\* try_send, and on a full channel try_receive and try_send again.
Latest(channel, none, value) == value

\* update_manifest, called by the main task in either mode.
UpdateManifest(m) ==
    /\ at # "writing"
    /\ m # manifest
    /\ manifest' = m
    /\ MANIFESTS' = Latest(MANIFESTS, NoManifest, m)
    /\ UNCHANGED <<mode, flash, ntfy_topic, TOPIC_UPDATES, serving, storeVars, resets, errors>>

\* http_server binds once the manifest enables it and is not stopped again.
Bind ==
    /\ mode = "station" /\ at # "writing"
    /\ ~serving /\ manifest \in Http
    /\ serving' = TRUE
    /\ UNCHANGED <<mode, flash, manifest, ntfy_topic, MANIFESTS, TOPIC_UPDATES, storeVars,
                   resets, errors>>

\* POST /api/v1/notifications/topic/regenerate
Regenerate(topic) ==
    /\ serving /\ at # "writing"
    /\ ntfy_topic' = topic
    /\ TOPIC_UPDATES' = Latest(TOPIC_UPDATES, NoTopic, topic)
    /\ UNCHANGED <<mode, flash, manifest, MANIFESTS, serving, storeVars, resets, errors>>

-----------------------------------------------------------------------------
(* manifest_store, spawned in station mode only.                           *)

\* Mutant: the task saves the topic it was started with.
TopicAtStart(topic) == provisioning

TopicToSave(topic) == topic

StoreManifest ==
    /\ mode = "station" /\ at = "idle"
    /\ MANIFESTS # NoManifest
    /\ MANIFESTS' = NoManifest
    /\ Save(provisioning, MANIFESTS)
    /\ UNCHANGED <<mode, manifest, ntfy_topic, TOPIC_UPDATES, serving, resets>>

\* select polls MANIFESTS first.
StoreTopic ==
    /\ mode = "station" /\ at = "idle"
    /\ MANIFESTS = NoManifest /\ TOPIC_UPDATES # NoTopic
    /\ TOPIC_UPDATES' = NoTopic
    /\ Save(TopicToSave(TOPIC_UPDATES), network)
    /\ UNCHANGED <<mode, manifest, ntfy_topic, MANIFESTS, serving, resets>>

Next ==
    \/ \E force \in BOOLEAN : PowerLoss(force) \/ Restart(force)
    \/ WriteRecord \/ Bind \/ StoreManifest \/ StoreTopic
    \/ \E topic \in Topics : Configure(topic) \/ Regenerate(topic)
    \/ \E m \in Manifests : UpdateManifest(m)

Spec == Init /\ [][Next]_vars

-----------------------------------------------------------------------------
(* Safety.                                                                 *)

\* The store task has nothing left to do.
Settled ==
    /\ mode = "station" /\ at = "idle"
    /\ MANIFESTS = NoManifest /\ TOPIC_UPDATES = NoTopic

\* When the store task has drained its channels and its last save went through,
\* the flash holds exactly the topic and the manifest the stick is working with:
\* neither the displacement of a queued value nor the order in which select
\* takes the two channels loses the last update of either.
SettingsSaved == Settled /\ last_save = "done" => flash = Settings(ntfy_topic, manifest)

\* STATE is what the store task has taken up, overridden by what is queued.
StateFollowed ==
    mode = "station" =>
        /\ manifest = IF MANIFESTS = NoManifest THEN network ELSE MANIFESTS
        /\ ntfy_topic = IF TOPIC_UPDATES = NoTopic THEN provisioning ELSE TOPIC_UPDATES
        /\ provisioning # NoTopic

\* The inductive invariant behind SettingsSaved.
PersistenceInv ==
    /\ TypeOK
    /\ StateFollowed
    /\ mode = "station" /\ at = "idle" /\ last_save = "done" => flash = Settings(provisioning, network)
    /\ at = "writing" => provisioning # NoTopic
    /\ mode = "station" => at # "restarting"
    /\ serving => mode = "station"
    /\ flash.topic = NoTopic => flash = Blank

\* network.md: "Credentials and the output manifest persist."  A stick that has
\* joined the network comes back in station mode after a restart without the
\* button held.
CredentialsPersist ==
    [][mode = "station" /\ PowerLoss(FALSE) => mode' = "station"]_vars

\* network.md: "Topic generation writes the replacement to flash immediately";
\* the response says "New ntfy topic generated and saved."  With flash that
\* works (MaxFlashErrors = 0), the store task at rest has saved the topic in use.
GeneratedTopicSaved == Settled /\ errors = MaxFlashErrors => flash.topic = ntfy_topic

-----------------------------------------------------------------------------
(* Liveness.                                                               *)

\* The executor polls the store task whenever a channel holds something.  After
\* a manifest the task polls both channels again before it yields, so a stream
\* of manifests does not starve the topic: strong fairness.
FairSpec ==
    /\ Spec
    /\ WF_vars(WriteRecord) /\ WF_vars(StoreManifest) /\ SF_vars(StoreTopic)

\* network.md: "Topic generation writes the replacement to flash immediately."
\* A regenerated topic reaches the flash, also under a stream of manifests, unless
\* it is replaced by another one, the stick restarts first, or the save fails.
TopicReachesFlash ==
    \A t \in Topics : []<>(ntfy_topic = t => flash.topic = t \/ last_save = "failed")

=============================================================================
