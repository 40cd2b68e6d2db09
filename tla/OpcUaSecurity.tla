---------------------------- MODULE OpcUaSecurity ----------------------------
(***************************************************************************)
(* configureSecurity() and configureServerVerification() of                *)
(* src/opcua/security.cpp, in a build with a crypto backend, as functions  *)
(* of what the operator configured, of what the files hold and of what the *)
(* protocol stack answers.  The stack (open62541) is external: what its    *)
(* calls leave in a configuration, and which channels it then opens.       *)
(*                                                                         *)
(* A certificate is the name of whose it is.                               *)
(***************************************************************************)
EXTENDS Integers, FiniteSets

(* The certificates a server may be told to trust, and those a probe may.  *)
ClientCertificates == {"provisioned", "colleague"}
ServerCertificates == {"server", "predecessor"}

(* A file named in the environment.                                        *)
Files == {"unset", "unreadable", "readable"}

(* A directory of certificates: not named, not to be listed, or one that   *)
(* holds .der files, of which some can be read.                            *)
Unset == [named |-> FALSE, listable |-> FALSE, der |-> {}, readable |-> {}]

Directories(certificates) ==
  {Unset} \cup
  {d \in [named: {TRUE}, listable: BOOLEAN, der: SUBSET certificates,
          readable: SUBSET certificates] :
     d.readable \subseteq d.der /\ (~d.listable => d.der = {})}

(* SecurityOptions, as main() of safeedge_opcua.cpp fills them in: naming  *)
(* a directory is what asks for client authentication.                     *)
SecurityOptions ==
  [certificate: Files, key: Files, trust_list: Directories(ClientCertificates),
   allow_unencrypted: BOOLEAN]

(* Which of the stack's calls succeed.                                     *)
StackAnswers == [create: BOOLEAN, policies: BOOLEAN, minimal: BOOLEAN]

(* What a UA_ServerConfig comes to: the server's own certificate, whether  *)
(* an unencrypted endpoint is offered, whether client certificates are     *)
(* checked, and against which.                                             *)
BareConfig ==
  [certificate |-> "none", endpoints |-> {}, checks |-> FALSE, trusted |-> {}]

readTrustList(directory) == IF directory.listable THEN directory.readable ELSE {}

M_keepEndpoints(endpoints) == endpoints

dropUnencryptedEndpoints(endpoints) == endpoints \ {"None"}

RefusedPosture(options, count) ==
  [origin |-> "none", policy_count |-> 0, allows_unencrypted |-> FALSE,
   allows_anonymous |-> TRUE, checks |-> options.trust_list.named,
   trusted_certificate_count |-> count]

(* Refused before anything is built.                                       *)
RefusedAtOnce(options, trusted) ==
  options.trust_list.named /\ (options.allow_unencrypted \/ trusted = {})

(* The server's own identity: loaded, made now, or not to be had.          *)
Identity(options, stack) ==
  IF options.certificate = "readable" /\ options.key = "readable" THEN "server"
  ELSE IF stack.create THEN "throwaway" ELSE "none"

(* configureSecurity(): the configuration and the posture reported.        *)
configureSecurity(options, stack) ==
  LET wants_trust_list == options.trust_list.named
      trusted    == IF wants_trust_list THEN readTrustList(options.trust_list) ELSE {}
      loaded     == IF options.allow_unencrypted THEN 0 ELSE Cardinality(trusted)
      refused    == [config |-> BareConfig, posture |-> RefusedPosture(options, loaded)]
      identity   == Identity(options, stack)
      offered    == {"None", "SignAndEncrypt"}
  IN
  IF RefusedAtOnce(options, trusted) THEN refused
  ELSE IF identity = "none" THEN
    IF options.allow_unencrypted /\ stack.minimal
    THEN [config  |-> [BareConfig EXCEPT !.endpoints = {"None"}],
          posture |-> [refused.posture EXCEPT !.policy_count = 1,
                                              !.allows_unencrypted = TRUE]]
    ELSE refused
  ELSE IF ~stack.policies THEN refused
  ELSE [config  |-> [certificate |-> identity,
                     endpoints   |-> IF options.allow_unencrypted THEN offered
                                     ELSE dropUnencryptedEndpoints(offered),
                     checks      |-> wants_trust_list,
                     trusted     |-> trusted],
        posture |-> [origin             |-> IF identity = "server" THEN "loaded"
                                            ELSE "generated",
                     policy_count       |-> Cardinality(offered),
                     allows_unencrypted |-> options.allow_unencrypted,
                     allows_anonymous   |-> TRUE,
                     checks             |-> wants_trust_list,
                     trusted_certificate_count |-> Cardinality(trusted)]]
-----------------------------------------------------------------------------
(* ServerVerificationOptions of a probe, and its own identity: read from   *)
(* files or made for the run.                                              *)
ProbeOptions ==
  [certificate: {"provisioned", "fresh"}, trust_list: Directories(ServerCertificates),
   insecure_accept_any_certificate: BOOLEAN]

(* configureServerVerification(): whether it may be used to connect, and   *)
(* which server certificates it accepts.                                   *)
configureServerVerification(options, stack) ==
  LET trusted == readTrustList(options.trust_list)
      insecure == options.insecure_accept_any_certificate
  IN [configured |-> \/ insecure /\ ~options.trust_list.named
                     \/ ~insecure /\ trusted # {} /\ stack,
      verifies_server_certificate |-> ~insecure /\ trusted # {} /\ stack,
      trusted |-> trusted]

(* The channels the stack opens: encrypted, with certificates that each    *)
(* side accepts.                                                           *)
Connects(options, stack, config) ==
  LET verification == configureServerVerification(options, stack) IN
  /\ verification.configured
  /\ "SignAndEncrypt" \in config.endpoints
  /\ config.checks => options.certificate \in config.trusted
  /\ verification.verifies_server_certificate => config.certificate \in verification.trusted
=============================================================================
