---------------------------- MODULE MCOperators ----------------------------
(***************************************************************************)
(* Checks the pure components, the resource codec and the module          *)
(* validator, over every input within the bounds below.  The one variable *)
(* holds the input under test; the state space is the set of inputs.       *)
(***************************************************************************)
EXTENDS ResourceCodec, Validator, FiniteSets

\* The abilities core defines (key, store, drop): distinct names that fit
\* the slot and end in a non-zero byte, as the real names do.
MCAbilities == {<<1>>, <<2>>, <<1, 2>>}

\* Every resource NewBaseResource builds from small inputs, moved or not.
MCResourceTypes == [name : BoundedSeq(Byte, 1), abilities : BoundedSeq(MCAbilities, 2)]
Created ==
    {NewBaseResource(id, typ, owner, data) :
        id \in [1..IdLen -> Byte], typ \in MCResourceTypes,
        owner \in [1..AddrLen -> Byte], data \in BoundedSeq(Byte, 1)}
Resources == Created \union {MarkMoved(r) : r \in Created}

\* DefaultResourceLimits scaled: every count and size limit is 1 except
\* MaxExports, so that a module can export a function and a memory.
MCResourceLimits ==
    [MaxContractSize |-> 1, MaxFunctions |-> 1, MaxImports |-> 1, MaxExports |-> 2,
     MaxGlobals |-> 1, MaxMemoryPages |-> 1, MaxTableSize |-> 1]

\* Module descriptions: one external of each type on either side of each
\* limit; at most one memory, as a module without multi-memory declares.
Fn(params, results) ==
    [type |-> "func", params |-> params, results |-> results, min |-> 0, max |-> NoMax]
Ext(type, min, max) == [type |-> type, params |-> << >>, results |-> << >>, min |-> min, max |-> max]

MCExports ==
    {Fn(<<KindI32>>, << >>), Fn(<< >>, <<KindF32>>), Ext("global", 0, NoMax),
     Ext("memory", 1, 1), Ext("memory", 1, NoMax), Ext("memory", 1, 2),
     Ext("memory", 2, 2), Ext("table", 1, 1), Ext("table", 1, 2)}
MCImports == {Fn(<<KindI64>>, << >>), Ext("global", 0, NoMax), Ext("memory", 1, NoMax)}

\* Three exports, one more than MaxExports.
TooManyExports == << Fn(<<KindI32>>, << >>), Ext("table", 1, 1), Ext("memory", 1, 1) >>

Memories(mod) == Count("memory", mod.exports \o mod.imports)

Modules ==
    {mod \in [size : {1}, parses : {TRUE}, exports : BoundedSeq(MCExports, 2) \union {TooManyExports},
              imports : BoundedSeq(MCImports, 2)] : Memories(mod) <= 1}
    \union [size : {1, 2}, parses : BOOLEAN, exports : {<< >>}, imports : {<< >>}]

\* Validators built from up to two options, and from configs whose custom
\* rule caps memory with a predicate, forbids floats or denies a kind.
MCValidators ==
    {NewDefaultValidatorWithOptions(opts) :
        opts \in BoundedSeq({WithDeterministicFloatingPoint, WithRestrictedInstructions,
                             WithCustomMemoryLimits(0)}, 2)}
    \union
    {NewDefaultValidator([defaultRules |-> d, customRules |-> c, limits |-> ResourceLimits]) :
        d \in BOOLEAN,
        c \in {<< >>,
               << SecurityRule("custom", "memory-cap", {}, {}, [maxPages |-> 0]) >>,
               << SecurityRule("floating_point", "no-float", {}, {}, NoValidator) >>,
               << SecurityRule("instruction", "no-i64", {}, {"i64"}, NoValidator) >>}}

\* Byte strings up to MaxInput long: shorter than MinLen, and long enough
\* for every field with a length of up to Base - 1.
MaxInput == 8

Inputs ==
    {[kind |-> "resource", r |-> r, d |-> <<>>] : r \in Resources}
    \union {[kind |-> "bytes", r |-> Fresh, d |-> d] : d \in BoundedSeq(Byte, MaxInput)}
    \union {[kind |-> "validate", v |-> v, mod |-> mod] : v \in MCValidators, mod \in Modules}

VARIABLE in

Init == in \in Inputs
Next == UNCHANGED in
Spec == Init /\ [][Next]_in

\* BaseResource.Marshal/Unmarshal agree on the layout for every resource.
MarshalledDecodes == in.kind = "resource" => DecodesMarshalled(in.r)

\* BaseResource.Unmarshal never reads past the end of its input.
UnmarshalNeverPanics == in.kind = "bytes" => UnmarshalTotal(in.d)

\* BaseResource.Marshal/Unmarshal preserve the owner address.
OwnerPreserved == in.kind = "resource" => OwnerRoundTrips(in.r)

\* DefaultValidator.ValidateModule accepts only modules within the resource
\* limits, and no unbounded memory under a rule denying memory.grow.
AcceptedWithinLimits == in.kind = "validate" => ValidatorSound(in.v, in.mod)

\* DefaultValidator.ValidateModule accepts every module the policy of spec
\* section 4.2 admits: no rule, option or limit check rejects more.
PolicyAccepted == in.kind = "validate" => ValidatorComplete(in.v, in.mod)

=============================================================================
