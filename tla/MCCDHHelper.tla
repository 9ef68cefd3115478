---------------------------- MODULE MCCDHHelper ----------------------------
(* A pod with three sealed variables, one of them the root key; a request  *)
(* that names another stack; secrets that gain a variable, then one sealed *)
(* to another stack.                                                       *)
EXTENDS CDHHelper

Config == [kmsURL |-> "", rpcURL |-> "https", avs |-> "avs", stack |-> "stack",
           platformURL |-> "https", apiKey |-> "key"]
Data(config) == [wire |-> "gzip", oversized |-> FALSE, config |-> config,
                 rego |-> <<[comment |-> FALSE, digest |-> "d", registry |-> "r"]>>]
MCInitDatas == {Data(Config), Data([Config EXCEPT !.kmsURL = "http"])}

MCRequests == {[stack |-> "other", key |-> "A"], [stack |-> "stack", key |-> "B"],
               [stack |-> "stack", key |-> "root"]}

Sealed(to, value) == [to |-> to, value |-> value]
MCSnapshots == << [A |-> Sealed("stack", "a1")],
                  [A |-> Sealed("stack", "a2"), B |-> Sealed("stack", "b")],
                  [A |-> Sealed("other", "a3")] >>

Cert(role) == [role |-> role, genuine |-> TRUE]
Report(fmc) ==
    [genuine |-> TRUE, wellFormed |-> TRUE,
     certs |-> <<Cert("vcek"), Cert(""), Cert("ask"), Cert("ark")>>,
     tcb |-> [fmc |-> fmc, bootloader |-> 3, tee |-> 1, snp |-> 8, microcode |-> 115],
     wireTcb |-> IF fmc = None THEN <<3, 1, 0, 0, 0, 0, 8, 115>> ELSE <<fmc, 3, 1, 8, 0, 0, 0, 115>>,
     measurement |-> "m", debug |-> FALSE, migrateMA |-> FALSE, vmpl |-> 0]
MCReports == {Report(None), Report(1)}

MCKeyOf(stack) == <<"key", stack>>
MCWrongKey == <<"key", "">>

ASSUME MCGenuinePods == GenuinePods
=============================================================================
