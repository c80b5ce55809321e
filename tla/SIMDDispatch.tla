---------------------------- MODULE SIMDDispatch ----------------------------
(***************************************************************************)
(* The choice of a SIMD implementation at run time: the header that        *)
(* SIMDDispatcherUtils generates for the functions of a JSON file and for  *)
(* the feature sets a file was compiled with, the features of the          *)
(* processor (System/SIMD.cpp), and the implementation a generated         *)
(* Dispatch function returns.  The text of the header is left out: what it *)
(* declares and what its table holds is kept.                              *)
(***************************************************************************)
EXTENDS Integers, Sequences, SequencesExt, FiniteSetsExt, TLC

CONSTANTS
  Platforms,   \* what the program is compiled for
  Bits,        \* bound: the bits of simdpp::Arch that some processor has
  Builds,      \* lists of keys that a file was compiled for, ascending, for each platform
  Functions,   \* functions of the JSON file: name, paramTypes
  Separator    \* "__" between the features of a key

DispatchAssumption == Platforms \subseteq DOMAIN Builds

VARIABLES
  platform, cpu,   \* what the program runs on: the bits that the processor has
  header,          \* the generated headers, one for each function
  supported,       \* the static list of getSupportedSIMDFeatureSet, when it was made
  chosen           \* what the Dispatch function returned

vars == <<platform, cpu, header, supported, chosen>>

-----------------------------------------------------------------------------
(* getAllPotentialSIMDFeatures: each feature with the bits it needs; the   *)
(* bits are numbered as simdpp::Arch does.                                 *)
Feature(id, bits) == [id |-> id, bits |-> bits]

X86Features ==
  LET sse2 == {0}
      sse3 == sse2 \cup {1}
      ssse3 == sse3 \cup {2}
      sse4_1 == ssse3 \cup {3}
      avx == sse4_1 \cup {5}
      avx2 == avx \cup {6}
      avx512f == avx2 \cup {10}
  IN  <<Feature("x86_sse2", sse2), Feature("x86_sse3", sse3), Feature("x86_ssse3", ssse3),
        Feature("x86_sse4_1", sse4_1), Feature("x86_popcnt", {4}),
        Feature("x86_avx", avx), Feature("x86_avx2", avx2),
        Feature("x86_fma3", sse3 \cup {7}), Feature("x86_fma4", sse3 \cup {8}), Feature("x86_xop", sse3 \cup {9}),
        Feature("x86_avx512f", avx512f), Feature("x86_avx512bw", avx512f \cup {11}),
        Feature("x86_avx512dq", avx512f \cup {12}), Feature("x86_avx512vl", avx512f \cup {13})>>

FeaturesOf(p) ==
  CASE p = "x86" -> X86Features
    [] p = "arm" -> <<Feature("neon", {0}), Feature("neonfltsp", {0, 1})>>
    [] p = "arm64" -> <<Feature("neon", {0, 1}), Feature("neonfltsp", {0, 1})>>
    [] p = "ppc" -> <<Feature("power_altivec", {0}), Feature("power_vsx_206", {0, 1}),
                      Feature("power_vsx_207", {0, 1, 2})>>
    [] p = "mips" -> <<Feature("mips_msa", {0})>>
    [] OTHER -> <<>>

\* Sorted by the arch enum, the highest first
ArchEnum(f) == SumSet({2 ^ b : b \in f.bits})
GetAllPotentialSIMDFeatures(p) == SortSeq(FeaturesOf(p), LAMBDA f, g : ArchEnum(f) > ArchEnum(g))

\* _getSupportedSIMDFeatureSet: the features whose bits the processor has
SupportedFeatures ==
  LET all == SelectSeq(GetAllPotentialSIMDFeatures(platform), LAMBDA f : f.bits \subseteq cpu)
  IN  [i \in DOMAIN all |-> all[i].id]

-----------------------------------------------------------------------------
(* A key as it is written: features with separators between them.          *)

KeyText(features) ==
  [i \in 1..(2 * Len(features) - 1) |-> IF i % 2 = 1 THEN features[(i + 1) \div 2] ELSE Separator]

\* _separateSIMDFeatureSetKey: cut off at each separator, and the last entry
SeparateKey(text) ==
  FoldLeft(LAMBDA keys, token : IF token = Separator THEN Append(keys, <<>>)
                                ELSE [keys EXCEPT ![Len(keys)] = Append(@, token)],
           << <<>> >>, text)

\* _isSIMDFeatureSetSupported: no feature of the key that is not in the list
IsSupported(list, text) ==
  \A k \in DOMAIN SeparateKey(text) : \E i \in DOMAIN list : SeparateKey(text)[k] = <<list[i]>>

\* Mutant: the first key that is supported.
FirstOf(keys) == keys[1]

\* "Sorted in ascending order of performance"
Best(keys) == keys[Len(keys)]

Fallback == <<"fallback">>

\* getOptimalSIMDFeatureSetKey
GetOptimalKey(list, featureSetKeys) ==
  LET keys == SelectSeq(featureSetKeys, LAMBDA key : IsSupported(list, key))
  IN  IF keys = <<>> THEN Fallback ELSE Best(keys)

-----------------------------------------------------------------------------
(* The header.                                                             *)

\* Mutant: the caller has to name the fallback.
WithoutFallback(arches) == arches

\* generateAndDumpHeader: "Add fallback here so it's in the output map"
WithFallback(arches) == Append(arches, Fallback)

\* getFunctionString, getArchFuncDeclString: a template when there are types
Instance(function, arch) == [arch |-> arch, name |-> function.name, args |-> function.paramTypes]

\* jsonToSIMDInfo, getFullFuncString: declarations, type, table and keys
Generate(function, arches) ==
  [function |-> function.name,
   template |-> function.paramTypes,
   declared |-> {[arch |-> arches[i], name |-> function.name, template |-> function.paramTypes] : i \in DOMAIN arches},
   type     |-> Instance(function, Fallback),
   impls    |-> [arch \in ToSet(arches) |-> Instance(function, arch)],
   keys     |-> arches]

Headers(arches) == {Generate(f, WithFallback(arches)) : f \in Functions}

Init ==
  /\ platform \in Platforms /\ cpu \in SUBSET (Bits \cap UNION {f.bits : f \in ToSet(FeaturesOf(platform))})
  /\ \E b \in Builds[platform] : header = Headers([i \in DOMAIN b |-> KeyText(b[i])])
  /\ supported = <<>> /\ chosen = [done |-> FALSE]

\* getSupportedSIMDFeatureSet: "Only do this once"
GetSupportedSIMDFeatureSet ==
  /\ supported = <<>>
  /\ supported' = <<SupportedFeatures>>
  /\ UNCHANGED <<platform, cpu, header, chosen>>

\* The Dispatch function of a header; Impls.at throws without a fallback
Dispatch(h) ==
  /\ supported # <<>> /\ ~chosen.done
  /\ LET key == GetOptimalKey(supported[1], h.keys)
     IN  chosen' = [done |-> TRUE, header |-> h,
                    impl |-> IF key \in DOMAIN h.impls THEN <<h.impls[key]>>
                             ELSE IF Fallback \in DOMAIN h.impls THEN <<h.impls[Fallback]>>
                             ELSE <<>>]
  /\ UNCHANGED <<platform, cpu, header, supported>>

Next == GetSupportedSIMDFeatureSet \/ \E h \in header : Dispatch(h)

Spec == Init /\ [][Next]_vars

-----------------------------------------------------------------------------
\* The processor has what the features of a key need; the fallback needs nothing.
Runs(arch) ==
  arch # Fallback =>
    \A i \in DOMAIN arch : arch[i] # Separator =>
      \E f \in ToSet(FeaturesOf(platform)) : f.id = arch[i] /\ f.bits \subseteq cpu

\* "choose the most optimal runnable SIMD function": the Dispatch functions
\* return, whatever processor runs them, an implementation that it can run,
\* and the last of those in the list.
OptimalRunnable ==
  chosen.done =>
    /\ chosen.impl # <<>>
    /\ LET arch == chosen.impl[1].arch
           keys == chosen.header.keys
       IN  /\ Runs(arch)
           /\ \A i \in DOMAIN keys :
                Runs(keys[i]) /\ keys[i] # Fallback =>
                  \E j \in DOMAIN keys : j >= i /\ keys[j] = arch

(* The generated header stands alone: the table has one entry for every    *)
(* feature set, each is an instance of a function that the header declares *)
(* with as many template parameters, and so is the type of the table.      *)
HeaderCloses ==
  \A h \in header :
    /\ \A arch \in DOMAIN h.impls : h.impls[arch].arch = arch
    /\ \A i \in {h.impls[arch] : arch \in DOMAIN h.impls} \cup {h.type} :
         \E d \in h.declared : d.arch = i.arch /\ d.name = i.name /\ d.template = i.args
=============================================================================
