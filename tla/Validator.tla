----------------------------- MODULE Validator -----------------------------
(***************************************************************************)
(* DefaultValidator (validators package) and the ValidatorOptions of       *)
(* validators/rules.go, as operators over module descriptions.             *)
(*                                                                         *)
(* A module is what wasmtime's Module exposes to the validator: its byte  *)
(* size, whether it parses, and its exports and imports in order, each an  *)
(* extern of type "func" (with parameter and result value kinds),         *)
(* "global", "memory" or "table" (with a minimum and an optional          *)
(* maximum, NoMax when absent).  A validation result is Accept or the     *)
(* ValidationError's rule name.                                            *)
(***************************************************************************)
EXTENDS Naturals, Sequences, SequencesExt

CONSTANTS ResourceLimits,   \* DefaultResourceLimits(), scaled
          KindI32, KindI64, KindF32, KindF64, KindExternref, KindFuncref,
          Accept, NoMax, NoValidator

Reject(rule) == [rule |-> rule]

\* The switch of validateType from a value kind to its name.
TypeName(k) ==
    CASE k = KindI32 -> "i32"   [] k = KindI64 -> "i64"
      [] k = KindF32 -> "f32"   [] k = KindF64 -> "f64"
      [] k = KindExternref -> "externref" [] k = KindFuncref -> "funcref"

\* A SecurityRule; Type is one of the SecurityRuleType strings.  The only
\* Validator function the code builds is the memory cap of
\* WithCustomMemoryLimits, represented by its maxPages.
SecurityRule(type, name, allow, deny, validator) ==
    [type |-> type, name |-> name, allow |-> allow, deny |-> deny,
     validator |-> validator]

DefaultSecurityRules ==
    << SecurityRule("instruction", "default-instructions", {},
           {"table.get", "table.set", "table.size", "table.grow", "table.fill",
            "table.init", "elem.drop", "data.drop", "table.copy"}, NoValidator),
       SecurityRule("memory", "default-memory", {}, {"memory.grow"}, NoValidator) >>

\* Each ValidatorOption of rules.go appends one rule with AddCustomRule;
\* an option is represented by the rule it appends.
WithDeterministicFloatingPoint ==
    SecurityRule("floating_point", "strict-float",
        {"f32.add", "f32.sub", "f32.mul", "f32.div",
         "f64.add", "f64.sub", "f64.mul", "f64.div"},
        {"f32.nearest", "f32.ceil", "f32.floor", "f32.trunc",
         "f64.nearest", "f64.ceil", "f64.floor", "f64.trunc"}, NoValidator)

WithRestrictedInstructions ==
    SecurityRule("instruction", "restricted-instructions", {},
        {"memory.grow", "memory.size", "table.grow", "table.size", "unreachable"},
        NoValidator)

WithCustomMemoryLimits(maxPages) ==
    SecurityRule("memory", "custom-memory-limits", {}, {}, [maxPages |-> maxPages])

\* The Validator closure of WithCustomMemoryLimits: every exported memory's
\* minimum, and its maximum if it has one, within maxPages.
CustomValidator(val, mod) ==
    IF \E e \in Range(mod.exports) :
          /\ e.type = "memory"
          /\ \/ e.min > val.maxPages
             \/ e.max # NoMax /\ e.max > val.maxPages
    THEN Reject("memory-limits") ELSE Accept

(***************************************************************************)
(* Construction.                                                           *)
(***************************************************************************)
NewDefaultValidator(config) ==
    [defaultRules |-> IF config.defaultRules THEN DefaultSecurityRules ELSE << >>,
     customRules  |-> config.customRules,
     limits       |-> config.limits]

DefaultValidatorConfig ==
    [limits |-> ResourceLimits, defaultRules |-> TRUE, customRules |-> << >>]

\* DefaultValidatorConfig's limits, the default rules, then each option
\* appended by AddCustomRule in turn (no option returns an error).
NewDefaultValidatorWithOptions(opts) ==
    [defaultRules |-> DefaultSecurityRules,
     customRules  |-> DefaultValidatorConfig.customRules \o opts,
     limits       |-> DefaultValidatorConfig.limits]

(***************************************************************************)
(* The per-kind rule checks of ValidateSecurityRules.                      *)
(***************************************************************************)
ValidateType(kind, rule) ==
    IF rule.deny = {} THEN Accept
    ELSE IF TypeName(kind) \in rule.deny THEN Reject(rule.name) ELSE Accept

Signature(e) == Range(e.params) \union Range(e.results)

\* Function-typed exports and imports, each parameter and result kind.
ValidateInstructions(mod, rule) ==
    IF \E e \in Range(mod.exports \o mod.imports) :
          e.type = "func" /\ \E k \in Signature(e) : ValidateType(k, rule) # Accept
    THEN Reject(rule.name) ELSE Accept

\* (mutant) floats in an exported signature refused whatever the allow list.
ValidateFloatingPointNoAllow(mod, rule) ==
    IF \E e \in Range(mod.exports) :
          e.type = "func" /\ Signature(e) \cap {KindF32, KindF64} # {}
    THEN Reject(rule.name) ELSE Accept

\* The first float in an exported signature decides: accepted outright if
\* the rule has an allow list, rejected otherwise.
ValidateFloatingPoint(mod, rule) ==
    IF \E e \in Range(mod.exports) :
          e.type = "func" /\ Signature(e) \cap {KindF32, KindF64} # {}
    THEN IF rule.allow # {} THEN Accept ELSE Reject(rule.name)
    ELSE Accept

\* Exported memories in order: an unbounded one is refused when the rule
\* denies memory.grow; a rule with an allow list accepts at the first
\* memory.  The rule's Validator is never called.
RECURSIVE ValidateMemoryOperations(_, _)
ValidateMemoryOperations(exps, rule) ==
    IF exps = << >> THEN Accept
    ELSE IF Head(exps).type # "memory" THEN ValidateMemoryOperations(Tail(exps), rule)
    ELSE IF "memory.grow" \in rule.deny /\ Head(exps).max = NoMax THEN Reject(rule.name)
    ELSE IF rule.allow # {} THEN Accept
    ELSE ValidateMemoryOperations(Tail(exps), rule)

RuleCheck(mod, rule) ==
    CASE rule.type = "instruction"    -> ValidateInstructions(mod, rule)
      [] rule.type = "floating_point" -> ValidateFloatingPoint(mod, rule)
      [] rule.type = "memory"         -> ValidateMemoryOperations(mod.exports, rule)
      [] rule.type = "custom"         ->
             IF rule.validator # NoValidator /\ CustomValidator(rule.validator, mod) # Accept
             THEN Reject(rule.name) ELSE Accept
      [] OTHER -> Accept

\* The rules in order; the first failure is returned.
ValidateSecurityRules(mod, rules) ==
    LET i == SelectInSeq(rules, LAMBDA r : RuleCheck(mod, r) # Accept)
    IN  IF i = 0 THEN Accept ELSE RuleCheck(mod, rules[i])

(***************************************************************************)
(* ValidateResourceLimits: function, export, import and global counts,    *)
(* then exported memories and tables.  Every refusal names the rule       *)
(* "resource-limits".                                                      *)
(***************************************************************************)
Count(type, exts) == Len(SelectSeq(exts, LAMBDA e : e.type = type))

\* (mutant) the maximum of a memory or table is not checked.
WithinLimitNoMax(e, lim) == e.min <= lim

\* uint32(Minimum()) <= limit, and the declared maximum too.
WithinLimit(e, lim) == e.min <= lim /\ (e.max = NoMax \/ e.max <= lim)

ValidateResourceLimits(mod, limits) ==
    LET exts == mod.exports \o mod.imports IN
    IF \/ Count("func", exts) > limits.MaxFunctions
       \/ Len(mod.exports) > limits.MaxExports
       \/ Len(mod.imports) > limits.MaxImports
       \/ Count("global", exts) > limits.MaxGlobals
       \/ \E e \in Range(mod.exports) :
             e.type = "memory" /\ ~WithinLimit(e, limits.MaxMemoryPages)
       \/ \E e \in Range(mod.exports) :
             e.type = "table" /\ ~WithinLimit(e, limits.MaxTableSize)
    THEN Reject("resource-limits") ELSE Accept

ValidateModule(v, mod) ==
    IF mod.size > v.limits.MaxContractSize THEN Reject("contract-size")
    ELSE IF ~mod.parses THEN Reject("parse")
    ELSE LET d == ValidateSecurityRules(mod, v.defaultRules)
             c == IF Len(v.customRules) > 0
                  THEN ValidateSecurityRules(mod, v.customRules) ELSE Accept
         IN  IF d # Accept THEN d
             ELSE IF c # Accept THEN c
             ELSE ValidateResourceLimits(mod, v.limits)

-----------------------------------------------------------------------------
(***************************************************************************)
(* The policy of spec section 4.2, item by item, for validator v.          *)
(***************************************************************************)
Rules(v) == v.defaultRules \o v.customRules

\* Items 1-5: size, parse, counts, memories and tables.  A memory rule
\* that denies memory.grow forbids an unbounded memory.  The checks are
\* over exported memories and tables (see README: imported memories).
WithinPolicyLimits(v, mod) ==
    LET lim  == v.limits
        exts == mod.exports \o mod.imports
        mems == {e \in Range(mod.exports) : e.type = "memory"}
        growDenied == \E r \in Range(Rules(v)) :
                         r.type = "memory" /\ "memory.grow" \in r.deny
    IN  /\ mod.size <= lim.MaxContractSize
        /\ mod.parses
        /\ Len(mod.exports) <= lim.MaxExports
        /\ Len(mod.imports) <= lim.MaxImports
        /\ Count("func", exts) <= lim.MaxFunctions
        /\ Count("global", exts) <= lim.MaxGlobals
        /\ \A e \in mems : e.min <= lim.MaxMemoryPages
                           /\ (e.max = NoMax \/ e.max <= lim.MaxMemoryPages)
                           /\ (growDenied => e.max # NoMax)
        /\ \A e \in Range(mod.exports) :
             e.type = "table" => e.min <= lim.MaxTableSize
                                 /\ (e.max = NoMax \/ e.max <= lim.MaxTableSize)

\* Item 6: no signature uses a value kind an instruction rule denies by
\* name, nor a float under a float rule with no allow list.
WithinTypeDiscipline(v, mod) ==
    \A r \in Range(Rules(v)), e \in Range(mod.exports \o mod.imports) :
        e.type = "func" =>
            /\ r.type = "instruction" => \A k \in Signature(e) : TypeName(k) \notin r.deny
            /\ (r.type = "floating_point" /\ r.allow = {})
                  => Signature(e) \cap {KindF32, KindF64} = {}

\* Item 7: every rule's custom predicate accepts the module.
WithinCustomRules(v, mod) ==
    \A r \in Range(Rules(v)) :
        r.validator # NoValidator => CustomValidator(r.validator, mod) = Accept

\* ValidateModule accepts only modules within the limits and the memory
\* growth policy.
ValidatorSound(v, mod) ==
    ValidateModule(v, mod) = Accept => WithinPolicyLimits(v, mod)

\* ValidateModule accepts every module the whole policy admits.
ValidatorComplete(v, mod) ==
    /\ WithinPolicyLimits(v, mod)
    /\ WithinTypeDiscipline(v, mod)
    /\ WithinCustomRules(v, mod)
    => ValidateModule(v, mod) = Accept

=============================================================================
