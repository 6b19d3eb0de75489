------------------------------ MODULE Registros ------------------------------
(***************************************************************************)
(* The registers of a process and the instructions that only change them.  *)
(* AX to DX have 8 bits; EAX to EDX, SI, DI and PC have 32.  A byte has    *)
(* BYTE values (256 in the code) and a wide register ANCHO bytes (4).      *)
(***************************************************************************)
EXTENDS Integers, Sequences

CONSTANTS BYTE, ANCHO

ASSUME ConstantesRegistros == BYTE \in Nat \ {0, 1} /\ ANCHO \in Nat \ {0}

\* Arithmetic that the provers do not do.
ASSUME PotenciasDeByte == \A k \in 0 .. ANCHO : BYTE ^ k \in Nat \ {0}

Registros8  == {"AX", "BX", "CX", "DX"}
Datos32     == {"EAX", "EBX", "ECX", "EDX"}
DeDatos     == Registros8 \cup Datos32
Registros32 == Datos32 \cup {"SI", "DI", "PC"}
Registros   == Registros8 \cup Registros32

revisar_registro(r) == r \in Registros8
Modulo(r) == BYTE ^ (IF revisar_registro(r) THEN 1 ELSE ANCHO)

\* In bytes; of SI, DI and PC it is -1, kept without sign.
obtener_tamanio_registro(r) ==
  CASE r \in Registros8 -> 1
    [] r \in Datos32 -> ANCHO
    [] OTHER -> BYTE ^ ANCHO - 1

RegistrosNulos == [r \in Registros |-> 0]

\* The little-endian bytes of a value, and back.
Bytes(v, n) == [i \in 1 .. n |-> (v \div BYTE ^ (i - 1)) % BYTE]
Valor(b) ==
  LET v[i \in 0 .. Len(b)] == IF i = 0 THEN 0 ELSE v[i - 1] + b[i] * BYTE ^ (i - 1)
  IN  v[Len(b)]

\* str_to_uint8 and str_to_uint32 keep the low bits.
set(reg, r, v) == [reg EXCEPT ![r] = v % Modulo(r)]

\* Registers of different widths are not added.
sum(reg, d, o) ==
  IF revisar_registro(d) # revisar_registro(o) THEN reg
  ELSE [reg EXCEPT ![d] = (@ + reg[o]) % Modulo(d)]

sub(reg, d, o) ==
  IF revisar_registro(d) # revisar_registro(o) THEN reg
  ELSE [reg EXCEPT ![d] = (@ - reg[o]) % Modulo(d)]

jnz(reg, r, n) == IF reg[r] = 0 THEN reg ELSE [reg EXCEPT !["PC"] = n]

\* loguear_y_sumar_pc
sumar_pc(reg) == [reg EXCEPT !["PC"] = (@ + 1) % Modulo("PC")]

\* The instructions that need neither memory nor the kernel.
Aritmeticas == {"SET", "SUM", "SUB", "JNZ"}
Operar(reg, i) ==
  CASE i[1] = "SET" -> set(reg, i[2], i[3])
    [] i[1] = "SUM" -> sum(reg, i[2], i[3])
    [] i[1] = "SUB" -> sub(reg, i[2], i[3])
    [] i[1] = "JNZ" -> jnz(reg, i[2], i[3])

=============================================================================
