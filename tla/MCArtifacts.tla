---------------------------- MODULE MCArtifacts -----------------------------
(***************************************************************************)
(* Small instances of the artifact files for TLC.                          *)
(***************************************************************************)
EXTENDS ArtifactProperties

Manifest(kind, regime) ==
  [ artifact_kind |-> kind, artifact_hash |-> ZeroHash, regime_id |-> regime,
    compiler_version |-> "c1", ir_schema_version |-> "1.1.0",
    source_corpus_hash |-> "corpus", form |-> "canonical" ]

Span(document, article) == [document |-> document, article |-> {article}]

Rule(id, form) == [rule_id |-> id, form |-> form]

Says(document, tree) ==
  [source |-> Span(document, "36"), tree |-> tree, obligations |-> <<>>]

Leaf(spans) == [span |-> spans, obligations |-> <<>>]

(* As in the repository's goldens: regime and document share a name, and   *)
(* one intent spans two articles of one document. The two packs of rules   *)
(* cite a document in common; r2 and r3 are in conflict.                   *)
MCText ==
  [ r1 |-> Says("mica", <<Leaf({Span("shared", "3")}), Leaf({}),
                          Leaf({Span("mica", "36")})>>),
    r2 |-> Says("shared", <<Leaf({})>>),
    r3 |-> Says("other", <<Leaf({})>>),
    r4 |-> Says("other", <<Leaf({})>>) ]

Pack(form) ==
  [ manifest |-> Manifest("RegimePack", "mica"),
    payload |-> [rules |-> <<Rule("r1", form)>>] ]

Conflicting ==
  [ manifest |-> Manifest("RegimePack", "b"),
    payload |-> [rules |-> <<Rule("r2", "canonical"), Rule("r3", "canonical")>>] ]

Intent ==
  [ manifest |-> Manifest("IntentSpec", "pay"),
    payload |-> [intent |-> [ action_class |-> "payment", form |-> "raw",
                              spans |-> <<Span("policy", "4"), Span("policy", "7")>> ]] ]

NotCanonicalizable ==
  [ manifest |-> Manifest("RegimePack", "b"),
    payload |-> [rules |-> <<Rule("r4", "invalid")>>] ]

MCSources == {Pack("raw"), Pack("canonical"), Conflicting, Intent, NotCanonicalizable}
FewSources == {Pack("raw"), Intent}

MCT4Conflicts == {<<"r2", "r3">>}

Full == <<"SourceFidelity", "ScenarioCoverage", "PublicationApproval">>
MCBundles == {{}, {Permissive}}
MCAttestArgs == {Full, <<"SourceFidelity", "PublicationApproval">>}

Statement(type, version, class, expiration) ==
  [type |-> type, version |-> version, class |-> class, expiration |-> expiration]

(* The platform's set, with a horizon; a set under another policy version; *)
(* one whose timestamp is labelled as a production authority's.            *)
Horizon(date) ==
  [ i \in 1..3 |-> Statement(Full[i], "ap-1", "Mock", {date}) ]

OtherSets ==
  { <<Statement("SourceFidelity", "ap-2", "Mock", {})>>,
    <<Statement("SourceFidelity", "ap-1", "Rfc3161External", {})>> }

(* The end of February in a year divisible by four that has no leap day;   *)
(* the day number is from an almanac, not from the code.                   *)
MCStarts == {[date |-> <<2100, 2, 28>>, day |-> 47540]}

MCStatements == OtherSets \cup {Horizon(<<2100, 3, 1>>)}

Places == Permutations(Place)

=============================================================================
