---------------------------- MODULE ServerConfig ----------------------------
(***************************************************************************)
(* The server's settings (config.rs): layered sources, the bounds between  *)
(* settings that a server insists on before it starts, and the part of     *)
(* them that it tells its clients (app.rs).  A value that does not parse   *)
(* refuses the start too, and is left out.                                 *)
(***************************************************************************)
EXTENDS IdTemplates

CONSTANTS Second,          \* durations are in ticks, so that they may be fractions of one
          MaxTtlLimit,     \* ticks
          Zip32Max, MaxFilesCeiling, MaxManifestCeiling, KdfMin, KdfMax,
          Cpus,
          Unset

\* A record with a value for every setting, under the last part of its name; the sources are
\* functions on some of these names.
CONSTANTS Defaults, ConfigFiles, Environments

Keys == DOMAIN Defaults

\* What a source says is of the type that its setting has.
Parsed(source) ==
  /\ \A k \in DOMAIN source : k \in {"min_ttl", "max_ttl", "default_ttl", "max_payload_bytes",
       "max_files", "max_manifest_bytes", "pbkdf2_iterations", "max_bytes",
       "max_hash_memory_bytes", "hash_bytes"} => source[k] \in Nat
  /\ "template" \in DOMAIN source => IsTemplate(source["template"])
  /\ "ttl_presets" \in DOMAIN source => source["ttl_presets"] \subseteq Nat
  /\ "max_concurrent_hashes" \in DOMAIN source =>
       source["max_concurrent_hashes"] \in Nat \cup {Unset}

ASSUME ConfigAssumption ==
  /\ Second \in Nat \ {0} /\ Cpus \in Nat \ {0}
  /\ MaxTtlLimit \in Nat /\ KdfMin \in Nat /\ KdfMax \in Nat
  /\ Zip32Max \in Nat /\ MaxFilesCeiling \in Nat /\ MaxManifestCeiling \in Nat
  /\ {"min_ttl", "max_ttl", "default_ttl", "ttl_presets", "max_payload_bytes", "max_files",
      "max_manifest_bytes", "pbkdf2_iterations", "mode", "max_bytes", "template",
      "max_hash_memory_bytes", "hash_bytes", "max_concurrent_hashes"} \subseteq Keys
  /\ \A source \in {Defaults} \cup ConfigFiles \cup Environments : Parsed(source)

\* A key that is unknown or was removed refuses the start.
Known(source) == DOMAIN source \subseteq Keys

\* The environment (and --listen over it) wins over the file, and the file over the defaults.
Layered(file, env) ==
  [k \in Keys |-> IF k \in DOMAIN env THEN env[k]
                  ELSE IF k \in DOMAIN file THEN file[k] ELSE Defaults[k]]

InRange(x, lo, hi) == lo <= x /\ x <= hi

IsAcceptedKdfIterations(n) == InRange(n, KdfMin, KdfMax)

MessagesAccepted(v) ==
  /\ \A ttl \in {v.min_ttl, v.max_ttl, v.default_ttl} \cup v.ttl_presets : ttl % Second = 0
  /\ v.max_ttl <= MaxTtlLimit
  /\ InRange(v.min_ttl, Second, v.max_ttl)
  /\ \A ttl \in {v.default_ttl} \cup v.ttl_presets : InRange(ttl, v.min_ttl, v.max_ttl)
  /\ InRange(v.max_payload_bytes, 1, Zip32Max)
  /\ InRange(v.max_files, 1, MaxFilesCeiling)
  /\ InRange(v.max_manifest_bytes, 1, MaxManifestCeiling)
  /\ IsAcceptedKdfIterations(v.pbkdf2_iterations)

MessageIdAccepted(v) ==
  /\ InRange(v.min_bits, 1, 256)
  /\ WordlistAccepted /\ TemplateAccepted(v.template) /\ HasBits(v.template, v.min_bits)

StoreAccepted(v) ==
  /\ v.mode \in {"memory", "sqlite"}
  /\ v.mode = "sqlite" => v.path # Unset
  /\ v.max_messages > 0
  /\ v.max_bytes >= v.max_payload_bytes

\* How many hashes the memory budget has room for; an explicit number is lowered to that.
Fits(v) == v.max_hash_memory_bytes \div (IF v.hash_bytes = 0 THEN 1 ELSE v.hash_bytes)
LesserOf(a, b) == IF a <= b THEN a ELSE b

\* An explicit number as it is.
HashConcurrencyExplicit(v) ==
  IF v.max_concurrent_hashes = Unset THEN LesserOf(Fits(v), Cpus) ELSE v.max_concurrent_hashes
HashConcurrency(v) ==
  LesserOf(Fits(v), IF v.max_concurrent_hashes = Unset THEN Cpus ELSE v.max_concurrent_hashes)

PinAccepted(v) ==
  /\ Fits(v) > 0
  /\ v.max_concurrent_hashes = Unset \/ v.max_concurrent_hashes > 0
  /\ v.max_failed_attempts > 0 /\ v.max_queued_hashes > 0
  /\ v.hash_bytes > 0    \* one of Argon2's own conditions

RateLimitAccepted(v) ==
  /\ v.window >= Second
  /\ v.create_per_window > 0 /\ v.retrieve_per_window > 0 /\ v.max_tracked_keys > 0

Accepted(v) ==
  /\ MessagesAccepted(v) /\ MessageIdAccepted(v) /\ StoreAccepted(v)
  /\ PinAccepted(v) /\ RateLimitAccepted(v)
  /\ v.max_concurrent_uploads > 0

\* The settings a server can be started with.
Settings == {v \in {Layered(f, e) : f \in {g \in ConfigFiles : Known(g)},
                                    e \in {g \in Environments : Known(g)}} : Accepted(v)}

\* ClientConfig::from_config: what the pages embed and /api/config answers, in seconds.
ClientConfig(v) ==
  [storeMode |-> v.mode, maxPayloadBytes |-> v.max_payload_bytes, maxFiles |-> v.max_files,
   maxManifestBytes |-> v.max_manifest_bytes, pbkdf2Iterations |-> v.pbkdf2_iterations,
   minTtl |-> v.min_ttl \div Second, maxTtl |-> v.max_ttl \div Second,
   defaultTtl |-> v.default_ttl \div Second,
   ttlPresets |-> {ttl \div Second : ttl \in v.ttl_presets}]
=============================================================================
