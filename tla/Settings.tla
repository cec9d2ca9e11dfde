------------------------------ MODULE Settings ------------------------------
(***************************************************************************)
(* How a configuration file becomes the configuration of the agent         *)
(* (config/loader.go mergeWithDefaults, config/config.go Default and       *)
(* Validate).  The options are grouped by the rule that merges them.  0 is *)
(* the value of an option the file does not set (zero, false, empty), 1    *)
(* and 2 are two proper values, and Odd is one of the right YAML type that *)
(* Validate refuses where it looks.                                        *)
(***************************************************************************)
EXTENDS Integers

Odd == 3

\* A number counts if it is positive.
Numbers ==
    {"agent.local_block_ttl", "agent.cloud_block_ttl", "agent.cloud_max_ttl",
     "log.max_size", "log.max_backups", "log.max_age",
     "detector.score_high", "detector.score_medium", "detector.score_low",
     "detector.weights.dangerous_pattern", "detector.weights.dangerous_method",
     "detector.weights.file_upload", "detector.windows", "stats.report_interval",
     "cloud.sync_interval", "cloud.heartbeat_interval", "cloud.command_interval",
     "cloud.feature_interval", "port_scan.block_ttl", "port_scan.weight",
     "port_scan.windows", "body_scan.max_body_size"}

\* A text or a list counts if it is not empty.
Texts ==
    {"log.level", "log.file", "unix_socket.path", "ipset.whitelist", "ipset.blacklist",
     "detector.mode", "detector.sensitivity", "detector.skip_paths",
     "detector.known_http_clients", "detector.sensitive_paths",
     "detector.dangerous_patterns", "cloud.base_url", "cloud.tenant_id",
     "cloud.agent_secret", "cloud.plugin_path", "port_scan.source", "port_scan.log_path",
     "port_scan.log_prefix", "port_scan.pcap_iface", "port_scan.pcap_filter",
     "body_scan.content_types", "body_scan.blocked_extensions",
     "body_scan.blocked_mime_types", "resource_baseline.patterns",
     "log_sources.path", "log_sources.parser"}

\* A switch that the file can only turn on.
Raised ==
    {"cloud.enabled", "port_scan.enabled", "body_scan.enabled", "resource_baseline.enabled"}

\* A switch whose value is taken from the file, set there or not.
Taken == {"detector.enabled", "log.compress"}

\* Options of the structures that mergeWithDefaults does not mention.
Unmerged ==
    {"detector.consistency", "detector.trusted_subnets", "detector.honeypot_paths",
     "log_sources.allow_upload", "log_sources.custom_regex", "log_sources.regex_groups"}

Options == Numbers \cup Texts \cup Raised \cup Taken \cup Unmerged

EmptyByDefault ==
    {"log.file", "ipset.blacklist", "detector.known_http_clients",
     "detector.sensitive_paths", "detector.dangerous_patterns", "cloud.base_url",
     "cloud.tenant_id", "cloud.agent_secret", "cloud.plugin_path",
     "body_scan.max_body_size", "body_scan.content_types", "body_scan.blocked_extensions",
     "body_scan.blocked_mime_types", "resource_baseline.patterns", "log_sources.path"}

Default == [o \in Options |-> IF o \in Raised \cup Unmerged \cup EmptyByDefault THEN 0 ELSE 1]

MergeWithDefaults(user) ==
    [o \in Options |->
        IF o \in Unmerged THEN Default[o]
        ELSE IF o \in Taken \/ user[o] # 0 THEN user[o]
        ELSE Default[o]]

\* Options that Validate looks at whatever the others are.
AlwaysChecked ==
    {"log.level", "log.file", "unix_socket.path", "ipset.whitelist", "ipset.blacklist"}

CheckedIfDetecting == {"detector.sensitivity", "detector.mode"}

Validate(c) ==
    /\ \A o \in AlwaysChecked : c[o] # Odd
    /\ c["log_sources.custom_regex"] # Odd
    /\ c["log_sources.custom_regex"] = 0 => c["log_sources.parser"] # Odd
    /\ c["detector.enabled"] # 0 => \A o \in CheckedIfDetecting : c[o] # Odd

\* A file that sets nothing.
Blank == [o \in Options |-> 0]
=============================================================================
