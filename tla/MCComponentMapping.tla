--------------------------- MODULE MCComponentMapping ---------------------------
(* An instance of ComponentMapping for TLC: two SBOMs of one image and tenant    *)
(* and one of another tenant; every event alone, two that come together, and one *)
(* that comes with a binding.                                                   *)
EXTENDS ComponentMapping

CONSTANTS s1, s2, s3, ours, theirs, image, other, ssl, tls, web, h1, h2, h3,
          bin, shared, script, dir, first, second

Document(tenant, hashes, files) ==
  [tenant |-> tenant, image |-> image, hashes |-> hashes, files |-> files]

\* In s1 two components have the hash h2 and the file "shared".
SomeDocuments ==
  [d \in {s1, s2, s3} |->
     CASE d = s1 -> Document(ours, [c \in {ssl, tls, web} |-> IF c = web THEN {h1} ELSE {h2}],
                             [c \in {ssl, tls, web} |-> CASE c = ssl -> {bin, shared}
                                                          [] c = tls -> {shared}
                                                          [] OTHER -> {script}])
       [] d = s2 -> Document(ours, [c \in {ssl} |-> {h1}], [c \in {ssl} |-> {}])
       [] d = s3 -> Document(theirs, [c \in {tls} |-> {h1, h2}], [c \in {tls} |-> {bin}])]
SomePrefixes ==
  [p \in {bin, shared, script} |-> IF p = script THEN <<script>> ELSE <<p, dir>>]

Ran(its, hash, path, interpreter, resource) ==
  [tenant |-> ours, image |-> its, hash |-> hash, path |-> path,
   interpreter |-> interpreter, resource |-> resource, binding |-> Missing]
SomeSendings ==
  {[e \in {first} |-> Ran(its, h, p, i, r)] :
     its \in {image, other}, h \in {h1, h2, Missing}, p \in {bin, script},
     i \in BOOLEAN, r \in {shared, script, Missing}}
    \cup {[e \in {first, second} |-> Ran(image, h1, bin, FALSE, shared)]}
    \cup {[e \in {first} |-> [Ran(image, h1, bin, FALSE, shared) EXCEPT
                                 !.binding = Binding("bound", s3, tls)]]}
=============================================================================
