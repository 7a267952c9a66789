\* Scaled widths: 1-byte id, 2-byte address in a 1-byte owner slot (33 in
\* 32), 1-digit lengths, 2-byte ability slots, bytes of 0..2.
CONSTANTS
    Base = 3
    IdLen = 1
    AddrLen = 2
    OwnerSlot = 1
    LenWidth = 1
    AbilityWidth = 2
    Ok = Ok
    Err = Err
    Panic = Panic
    ResourceLimits <- MCResourceLimits
    KindI32 = KindI32
    KindI64 = KindI64
    KindF32 = KindF32
    KindF64 = KindF64
    KindExternref = KindExternref
    KindFuncref = KindFuncref
    Accept = Accept
    NoMax = NoMax
    NoValidator = NoValidator
SPECIFICATION Spec
INVARIANT MarshalledDecodes
INVARIANT UnmarshalNeverPanics
INVARIANT AcceptedWithinLimits
INVARIANT PolicyAccepted
