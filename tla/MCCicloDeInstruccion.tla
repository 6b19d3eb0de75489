------------------------ MODULE MCCicloDeInstruccion ------------------------
(* Two processes and an interface of each type; a byte has four values, a    *)
(* wide register two bytes, a page two bytes and a process three pages.      *)
EXTENDS CicloDeInstruccion

MCTipoDe == "SLEEP" :> "GENERICA" @@ "TECLADO" :> "STDIN" @@ "PANTALLA" :> "STDOUT"
            @@ "DIALFS" :> "DIALFS"
MCPids   == {0, 1}
MCMarcos == 0 :> <<4, 1, 2>> @@ 1 :> <<0, 5, 3>>
MCTextos == {<<2>>, <<1, 2, 3>>}

\* A text that crosses a page, read back and printed.
Teclado == << <<"SET", "EAX", 1>>, <<"SET", "EBX", 3>>,
              <<"IO_STDIN_READ", "TECLADO", "EAX", "EBX">>, <<"MOV_IN", "ECX", "EAX">>,
              <<"MOV_OUT", "EBX", "ECX">>, <<"IO_STDOUT_WRITE", "PANTALLA", "EAX", "EBX">>, <<"EXIT">> >>

\* A value written, copied and printed.
Copia == << <<"SET", "EAX", 9>>, <<"SET", "DI", 3>>, <<"MOV_OUT", "SI", "EAX">>,
            <<"COPY_STRING", 2>>, <<"IO_STDOUT_WRITE", "PANTALLA", "DI", "DI">>,
            <<"MOV_IN", "BX", "DI">>, <<"EXIT">> >>

\* A file written and read.
Archivo == << <<"SET", "EAX", 7>>, <<"SET", "EBX", 2>>, <<"IO_FS_CREATE", "DIALFS", "f">>,
              <<"IO_FS_TRUNCATE", "DIALFS", "f", "EBX">>, <<"MOV_OUT", "EBX", "EAX">>,
              <<"IO_FS_WRITE", "DIALFS", "f", "EBX", "EBX", "SI">>,
              <<"IO_FS_READ", "DIALFS", "f", "SI", "EBX", "SI">>, <<"EXIT">> >>

\* A loop, with a register that wraps, and an interface that does not exist.
Bucle == << <<"SET", "AX", 6>>, <<"SET", "BX", 3>>, <<"SUM", "AX", "BX">>, <<"JNZ", "AX", 2>>,
            <<"SUB", "EAX", "BX">>, <<"SUB", "AX", "BX">>, <<"IO_GEN_SLEEP", "SLEEP", 1>>,
            <<"IO_GEN_SLEEP", "OTRA", 1>>, <<"EXIT">> >>

Par(a, b) == 0 :> a @@ 1 :> b

MCProgramas == {Par(Teclado, Copia), Par(Archivo, Bucle), Par(Teclado, Archivo), Par(Copia, Bucle)}
MCTecladoYCopia == {Par(Teclado, Copia)}

\* The instance is one of those the theorems speak of.
ASSUME ProgramasValidos == PidenLoQueHay /\ BienEscritos

=============================================================================
