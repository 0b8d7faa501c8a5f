---------------------------- MODULE ManagerStart ----------------------------
(***************************************************************************)
(* The start of the connection manager: cmd/server/main.go with the        *)
(* settings it loads, the server certificate it makes for the addresses of *)
(* the host, the migrations it applies and the admin row it writes, each   *)
(* start leaving on disk and in the database what the next one finds.      *)
(*                                                                         *)
(* A certificate is the key it was made for, the addresses it names and    *)
(* the day it ends; a file that a crash cut short is Torn.  A migration is *)
(* one transaction of the database: it is applied whole or not at all.     *)
(***************************************************************************)
EXTENDS Integers, FiniteSets

CONSTANTS
    Addresses,    \* addresses the host may have beside its loopback
    Sources,      \* where the database host may be set: url, auto, bound, file
    CAKeys,       \* PEM types the CA key file may have, None when it is missing
    Migrations,   \* how many migrations the binary embeds
    Valid, Week,  \* days a certificate lasts, days before its end it is renewed
    None, Torn,
    MaxNow, MaxBoots

VARIABLES
    pc,        \* where main is: down, refused, or the step it is at
    host,      \* addresses the host has now
    found,     \* addresses this start found
    ca,        \* what kind of key the CA file holds
    cert, key, \* the server's certificate and key files
    issuer,    \* whether the certificate service holds a CA
    warned,    \* EnsureServerCert has returned an error in this start
    version, dirty, schema,   \* schema_migrations, and what was applied
    admin,     \* the admin row: the password it has
    now, boots,
    halved,    \* a start has ended between the certificate and its key, by a crash or an error
    failed     \* a migration did not run to its end

vars == <<pc, host, found, ca, cert, key, issuer, warned, version, dirty, schema,
          admin, now, boots, halved, failed>>
disk == <<cert, key, halved>>
process == <<found, issuer, warned>>
database == <<version, dirty, schema, admin, failed>>
outside == <<host, ca, now, boots>>

Certificate(k, ips) == [key |-> k, ips |-> ips, ends |-> now + Valid]

Init ==
    /\ pc = "down" /\ host \in SUBSET Addresses /\ found = {}
    /\ ca \in CAKeys
    /\ cert = None /\ key = None /\ issuer = FALSE /\ warned = FALSE
    /\ version = 0 /\ dirty = FALSE /\ schema = {} /\ admin = None
    /\ now = 0 /\ boots = 0 /\ halved = FALSE /\ failed = FALSE

-----------------------------------------------------------------------------
(* config.Load: the defaults have no database host; the file, the          *)
(* environment and DATABASE_URL are read over them in that order, EDR_     *)
(* names before the ones bound.  validator refuses a host nobody set.      *)

applyDatabaseURL(s, h) == IF s.url # None THEN s.url ELSE h

bindEnvVars(s) == IF s.auto # None THEN s.auto
                  ELSE IF s.bound # None THEN s.bound ELSE s.file

Load(s) == applyDatabaseURL(s, bindEnvVars(s))

Boot(s) ==
    /\ pc \in {"down", "refused"} /\ boots < MaxBoots
    /\ boots' = boots + 1
    /\ pc' = IF Load(s) = None THEN "refused" ELSE "certificate"
    /\ found' = host /\ issuer' = FALSE /\ warned' = FALSE
    /\ UNCHANGED <<host, ca, now, disk, database>>

-----------------------------------------------------------------------------
(* EnsureServerCert.  A failure is a warning: main goes on with the files  *)
(* it has.                                                                 *)

\* certCoversIPs.
certCoversIPs(c, ips) ==
    /\ c \notin {None, Torn}
    /\ c.ends - now >= Week
    /\ ips \subseteq c.ips

\* security.loadCA reads the three PEM types an RSA or EC key comes in.
loadCA == ca \in {"RSA PRIVATE KEY", "EC PRIVATE KEY", "PRIVATE KEY"}

EnsureServerCert ==
    /\ pc = "certificate"
    /\ \/ pc' = "tls" /\ warned' = TRUE                    \* discoverHostIPs fails
       \/ certCoversIPs(cert, found) /\ pc' = "tls" /\ UNCHANGED warned
       \/ ~certCoversIPs(cert, found) /\ loadCA /\ pc' = "create" /\ UNCHANGED warned
       \/ ~certCoversIPs(cert, found) /\ ~loadCA /\ pc' = "tls" /\ warned' = TRUE
    /\ UNCHANGED <<found, issuer, outside, disk, database>>

\* generateServerCert: the certificate file is emptied and written, then the
\* key file.  The number of the start stands for the key made in it.
WriteCert(c) ==
    /\ pc = "create"
    /\ cert' = c
    /\ pc' = IF c = Torn THEN "create" ELSE "key"
    /\ UNCHANGED <<key, halved, process, outside, database>>

WriteKeyOnce(k) ==
    /\ pc = "key"
    /\ key' = IF key = None THEN k ELSE key
    /\ pc' = IF k = Torn THEN "key" ELSE "tls"
    /\ UNCHANGED <<cert, halved, process, outside, database>>

WriteKey(k) ==
    /\ pc = "key"
    /\ key' = k
    /\ pc' = IF k = Torn THEN "key" ELSE "tls"
    /\ UNCHANGED <<cert, halved, process, outside, database>>

\* A file that cannot be opened (the directory is mounted read-only) stays as
\* it is; one that cannot be written to its end stays Torn.  Either way main
\* warns and goes on with what there is.
WriteFails ==
    /\ pc \in {"create", "key"}
    /\ pc' = "tls" /\ warned' = TRUE
    /\ halved' = (halved \/ pc = "key")
    /\ UNCHANGED <<cert, key, found, issuer, outside, database>>

generateServerCert ==
    \/ WriteCert(Torn) \/ WriteCert(Certificate(boots, found))
    \/ WriteKey(Torn) \/ WriteKey(boots)
    \/ WriteFails

\* LoadServerTLSConfig: a pair that does not fit ends the process (Fatalf).
\* The CA certificate itself is taken to be readable.
LoadServerTLSConfig ==
    /\ pc = "tls"
    /\ pc' = IF cert \notin {None, Torn} /\ key = cert.key THEN "connect" ELSE "refused"
    /\ UNCHANGED <<process, outside, disk, database>>

-----------------------------------------------------------------------------
(* The database: without it main goes on, with nothing it would build on.  *)

NewPostgresPool ==
    /\ pc = "connect"
    /\ pc' \in {"up", "version"}
    /\ UNCHANGED <<process, outside, disk, database>>

\* RunMigrations: a dirty version is forced clean, and Up starts behind it.
Force ==
    /\ pc = "version"
    /\ dirty' = FALSE /\ pc' = "migrate"
    /\ UNCHANGED <<version, schema, admin, failed, process, outside, disk>>

\* migrate's Up marks the version dirty, runs the file, marks it clean; an
\* error leaves it dirty and main ends.
UpBegins ==
    /\ pc = "migrate" /\ version < Migrations
    /\ version' = version + 1 /\ dirty' = TRUE /\ pc' = "run"
    /\ UNCHANGED <<schema, admin, failed, process, outside, disk>>

UpRuns ==
    /\ pc = "run"
    /\ schema' = schema \cup {version} /\ pc' = "ran"
    /\ UNCHANGED <<version, dirty, admin, failed, process, outside, disk>>

UpFails ==
    /\ pc = "run"
    /\ failed' = TRUE /\ pc' = "refused"
    /\ UNCHANGED <<version, dirty, schema, admin, process, outside, disk>>

UpEnds ==
    /\ pc = "ran"
    /\ dirty' = FALSE /\ pc' = "migrate"
    /\ UNCHANGED <<version, schema, admin, failed, process, outside, disk>>

UpDone ==
    /\ pc = "migrate" /\ version = Migrations
    /\ pc' = "services"
    /\ UNCHANGED <<process, outside, disk, database>>

RunMigrations == Force \/ UpBegins \/ UpRuns \/ UpFails \/ UpEnds \/ UpDone

\* NewCertificateService: its own loadCA knows two of the three PEM types;
\* without a CA every Issue fails.
NewCertificateService ==
    /\ pc = "services"
    /\ issuer' = (ca \in {"RSA PRIVATE KEY", "PRIVATE KEY"})
    /\ pc' = "seed"
    /\ UNCHANGED <<found, warned, outside, disk, database>>

\* seedDefaultAdmin writes the password it knows over the one in the row.
seedDefaultAdmin ==
    /\ pc = "seed"
    /\ admin' \in {admin, "admin"}    \* a failed INSERT is a warning
    /\ pc' = "up"
    /\ UNCHANGED <<version, dirty, schema, failed, process, outside, disk>>

ChangePassword ==
    /\ pc = "up" /\ admin # None /\ admin' = "own"
    /\ UNCHANGED <<pc, version, dirty, schema, failed, process, outside, disk>>

-----------------------------------------------------------------------------
Shutdown ==
    /\ pc = "up" /\ pc' = "down"
    /\ UNCHANGED <<process, outside, disk, database>>

\* The process or its host dies between two steps.
Crash ==
    /\ pc \notin {"down", "refused"} /\ pc' = "down"
    /\ halved' = (halved \/ pc = "key")
    /\ failed' = (failed \/ pc = "run")
    /\ UNCHANGED <<cert, key, version, dirty, schema, admin, process, outside>>

HostMoves ==
    /\ host' \in SUBSET Addresses \ {host}
    /\ UNCHANGED <<pc, process, ca, now, boots, disk, database>>

Tick ==
    /\ now < MaxNow /\ now' = now + 1
    /\ UNCHANGED <<pc, process, host, ca, boots, disk, database>>

Next ==
    \/ \E s \in Sources : Boot(s)
    \/ EnsureServerCert \/ generateServerCert \/ LoadServerTLSConfig
    \/ NewPostgresPool \/ RunMigrations
    \/ NewCertificateService \/ seedDefaultAdmin \/ ChangePassword
    \/ Shutdown \/ Crash \/ HostMoves \/ Tick

Spec == Init /\ [][Next]_vars

TypeOK ==
    /\ pc \in {"down", "refused", "certificate", "create", "key", "tls", "connect", "version", "migrate", "run", "ran",
               "services", "seed", "up"}
    /\ host \cup found \subseteq Addresses /\ ca \in CAKeys /\ schema \subseteq 1 .. Migrations
    /\ version \in 0 .. Migrations /\ now \in 0 .. MaxNow /\ boots \in 0 .. MaxBoots

-----------------------------------------------------------------------------
\* Wherever the starts before it were cut, main serves with a certificate
\* that is its key file's and, unless it has warned, names every address it
\* found; and it refuses the files it has brought in order itself only after
\* a start that ended between the two.
ServesItsAddresses ==
    /\ pc \in {"connect", "version", "migrate", "run", "ran", "services", "seed"} =>
         cert.key = key /\ (~warned => found \subseteq cert.ips)
    /\ pc = "tls" /\ ~warned =>
         /\ cert \notin {None, Torn} /\ found \subseteq cert.ips
         /\ ~halved => cert.key = key

\* Not so: with a CA to sign with, a start leaves a pair that the next can
\* use.  A start that ends between the two files leaves a certificate that
\* covers the host, so none after it makes another, and every one refuses.
PairIsRepaired == pc = "tls" /\ ~warned => cert.key = key

\* While no migration was cut short, a clean version means that every
\* migration up to it is in the schema.
CleanIsApplied == ~failed /\ ~dirty => schema = 1..version

\* Not so: after one was, Force passes over it and the next start migrates on
\* from there.
CleanIsAlwaysApplied == pc = "up" /\ version = Migrations /\ ~dirty => schema = 1..version

=============================================================================
