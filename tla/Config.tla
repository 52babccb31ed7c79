------------------------------- MODULE Config -------------------------------
(***************************************************************************)
(* Validation of the daemon's configuration (config.rs).                   *)
(*                                                                         *)
(* Durations are in milliseconds.  Of a text only what validation asks of  *)
(* it is kept: "" is the empty one, a path is well formed or not, an ID    *)
(* consists of legal characters or is one of BadIds, a server is an        *)
(* HTTP URL or not.  An optional section is a sequence of at most one.     *)
(***************************************************************************)
EXTENDS Pages, Rules, FiniteSets

CONSTANTS BadIds,       \* IDs that are empty, too long or have other characters
          FramePages    \* pages of a manifest that a device frame holds

IdsValid(ids) ==
    /\ ToSet(ids) \cap BadIds = {}
    /\ Cardinality(ToSet(ids)) = Len(ids)

SourcesValid(config) ==
    /\ config.filesystems # <<>>
    /\ IdsValid(Ids(config.filesystems)) /\ IdsValid(Ids(config.smart))
    /\ \A item \in ToSet(config.filesystems) \cup ToSet(config.smart) :
          item.label # "" /\ item.path_valid
    /\ config.failures_before_unavailable # 0
    /\ config.task_history_limit # 0
    /\ config.internet.target # "" /\ config.internet.interval # 0
    /\ config.internet.timeout # 0 /\ config.internet.failures_before_failed # 0

RulesValid(config) ==
    /\ config.default.message # ""
    /\ IdsValid(Ids(config.rules))
    /\ \A rule \in ToSet(config.rules) :
          ConditionValid(rule.when, config.filesystems) /\ rule.message # ""

OutputsValid(config) ==
    /\ \A http \in ToSet(config.http) :
          /\ http.enabled => http.views # <<>>
          /\ ToSet(http.views) \subseteq DOMAIN config.views
          /\ http.hostname_valid /\ http.port # 0
    /\ \A ntfy \in ToSet(config.ntfy) :
          /\ ntfy.enabled => /\ ntfy.server_is_url
                             /\ ntfy.severities # {}
                             /\ ntfy.repeat_critical # <<0>>
          /\ "healthy" \notin ntfy.severities

\* What parsing gives.
Typed(config) ==
    /\ config.lcd \in Seq(STRING)
    /\ \A http \in ToSet(config.http) : http.views \in Seq(STRING)
    /\ \A id \in DOMAIN config.views :
          LET view == config.views[id]
          IN  /\ view.layout \in {"overview", "resources", "storage", "power_network", "guests"}
              /\ view.layout = "guests" => view.paginate \in BOOLEAN
              /\ view.layout = "storage" =>
                    view.filesystems \in Seq(STRING) /\ view.smart \in Seq(STRING)

\* Mutant: only the display manifest is tried.
DisplayFits(config) ==
    /\ DisplayConfigured(config, 0)
    /\ Len(compile_pages_for(config, config.lcd, 0)) <= FramePages

\* validate_manifest_sizes: both manifests can be built and encoded for no guests.
ManifestsFit(config) ==
    /\ DisplayFits(config)
    /\ NetworkConfigured(config, 0)
    /\ \A http \in ToSet(config.http) : Len(compile_pages_for(config, http.views, 0)) <= FramePages

\* Config::validate
Valid(config) ==
    /\ config.version = 2
    /\ config.update_interval # 0 /\ config.reconnect_interval # 0
    /\ config.hold_time # 0 /\ config.animation_delay < config.hold_time
    /\ SourcesValid(config)
    /\ RulesValid(config)
    /\ OutputsValid(config)
    /\ ManifestsFit(config)

=============================================================================
