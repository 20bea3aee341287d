SPECIFICATION Spec
CONSTANT Registers <- MCRegisters
INVARIANT Represents
