----------------------- MODULE CommandExecutor_proofs -----------------------
(***************************************************************************)
(* The loop that compares a subject with a pattern, for every set of       *)
(* tokens and every length; type correctness and the safety properties of  *)
(* the executor, which runs that loop for every row, for every set of      *)
(* users, permissions without "*", subjects, sids and streams.             *)
(***************************************************************************)
EXTENDS CommandExecutor, SubjectMatch, TLAPS

(* A permission without "*" (user_permissions.rs, can_subscribe) covers    *)
(* every subject that a subscription it accepts can match.                 *)
THEOREM PermisoTransitivo ==
  ASSUME NEW S,
         NEW permiso \in Seq(S), NEW sub \in Seq(S), NEW asunto \in Seq(S),
         SinComodin(permiso), Coincide(permiso, sub), Coincide(sub, asunto)
  PROVE  Coincide(permiso, asunto)
<1> USE DEF Coincide, CoincidenHasta, Acepta, SinComodin, Comodin, Resto
<1>1. CASE \E k \in 1..Len(permiso) :
             permiso[k] = Resto /\ CoincidenHasta(permiso, sub, k - 1)
  <2>1. PICK k \in 1..Len(permiso) :
             permiso[k] = Resto /\ CoincidenHasta(permiso, sub, k - 1)
    BY <1>1
  <2>2. \A j \in 1..(k - 1) :
          permiso[j] = sub[j] /\ sub[j] # Resto /\ sub[j] # Comodin
    BY <2>1
  <2>3. k - 1 <= Len(asunto) /\ \A j \in 1..(k - 1) : permiso[j] = asunto[j]
    <3>1. CASE \E m \in 1..Len(sub) :
                 sub[m] = Resto /\ CoincidenHasta(sub, asunto, m - 1)
      <4>1. PICK m \in 1..Len(sub) :
                 sub[m] = Resto /\ CoincidenHasta(sub, asunto, m - 1)
        BY <3>1
      <4>2. m >= k
        BY <2>2, <4>1
      <4> QED BY <4>1, <4>2, <2>2
    <3>2. CASE Len(sub) = Len(asunto) /\ CoincidenHasta(sub, asunto, Len(sub))
      BY <3>2, <2>1, <2>2
    <3> QED BY <3>1, <3>2
  <2>4. CoincidenHasta(permiso, asunto, k - 1)
    BY <2>2, <2>3
  <2> QED BY <2>4, <2>1
<1>2. CASE Len(permiso) = Len(sub) /\ CoincidenHasta(permiso, sub, Len(permiso))
  <2>1. \A j \in 1..Len(permiso) :
          permiso[j] = sub[j] /\ sub[j] # Resto /\ sub[j] # Comodin
    BY <1>2
  <2>2. Len(sub) = Len(asunto) /\ CoincidenHasta(sub, asunto, Len(sub))
    BY <2>1, <1>2
  <2>3. CoincidenHasta(permiso, asunto, Len(permiso))
    BY <1>2, <2>1, <2>2
  <2> QED BY <2>2, <2>3, <1>2
<1> QED BY <1>1, <1>2

-----------------------------------------------------------------------------
(* The loop: what it returns is what the actions of the executor use.      *)

LEMMA BucleEmpieza == InitBucle => InvBucle
<1> SUFFICES ASSUME InitBucle PROVE InvBucle
  OBVIOUS
<1>1. token \in Seq(Tokens) /\ subject \in Seq(Tokens)
  BY DEF InitBucle, Secuencias
<1>2. CoincidenHasta(token, subject, 0)
  BY <1>1 DEF CoincidenHasta
<1> QED
  BY <1>1, <1>2 DEF InitBucle, InvBucle, TypeBucle, Recorrido, ResultadoCorrecto

LEMMA BucleSigue == InvBucle /\ [NextBucle]_varsBucle => InvBucle'
<1> SUFFICES ASSUME InvBucle, [NextBucle]_varsBucle PROVE InvBucle'
  OBVIOUS
<1> USE DEF InvBucle, TypeBucle, Recorrido, ResultadoCorrecto, CoincidenHasta, Acepta
<1>1. CASE VeResto
  <2>1. Coincide(token, subject)
    BY <1>1 DEF VeResto, Coincide
  <2> QED BY <1>1, <2>1 DEF VeResto, Retorna
<1>2. CASE Avanza
  BY <1>2 DEF Avanza
<1>3. CASE Rechaza
  <2>1. ~Coincide(token, subject)
    BY <1>3 DEF Rechaza, Coincide
  <2> QED BY <1>3, <2>1 DEF Rechaza, Retorna
<1>4. CASE Agota
  <2>1. i = Len(token)
    BY <1>4 DEF Agota
  <2>2. Coincide(token, subject) <=> i >= Len(subject)
    BY <1>4, <2>1 DEF Agota, Coincide
  <2>3. /\ token' = token /\ subject' = subject /\ i' = i
        /\ pc' = "fin" /\ res' = (i >= Len(subject))
    BY <1>4 DEF Agota, Retorna
  <2>4. res' \in BOOLEAN
    BY <2>3
  <2>5. ResultadoCorrecto'
    BY <2>2, <2>3
  <2> QED BY <2>3, <2>4, <2>5
<1>5. CASE UNCHANGED varsBucle
  BY <1>5 DEF varsBucle, Coincide
<1> QED BY <1>1, <1>2, <1>3, <1>4, <1>5 DEF NextBucle

(* For every set of tokens and every length, subject_matches_token returns *)
(* what the reference definition says.                                     *)
THEOREM ResultadoCorrectoSiempre == SpecBucle => []ResultadoCorrecto
<1>1. InvBucle => ResultadoCorrecto
  BY DEF InvBucle
<1> QED BY <1>1, BucleEmpieza, BucleSigue, PTL DEF SpecBucle

(* A subscription that a permission without "*" accepts brings nothing the *)
(* permission does not cover (can_subscribe looks only at the pattern).    *)
THEOREM PermisoCubreSiempre == SpecBucle => []PermisoCubre
<1>1. InvBucle => PermisoCubre
  <2> SUFFICES ASSUME InvBucle, SinComodin(token), Coincide(token, subject),
                      NEW s \in Secuencias, Coincide(subject, s)
               PROVE  Coincide(token, s)
    BY DEF PermisoCubre
  <2>1. /\ token \in Seq(Tokens) /\ subject \in Seq(Tokens)
        /\ s \in Seq(Tokens)
    BY DEF InvBucle, TypeBucle, Secuencias
  <2> QED BY <2>1, PermisoTransitivo
<1> QED BY <1>1, BucleEmpieza, BucleSigue, PTL DEF SpecBucle

-----------------------------------------------------------------------------
(* The executor                                                            *)

(* What the rows of the table keep true so that a delivery is permitted.   *)
FilasPermitidas == \A s \in suscriptions : CanSubscribe(s.usuario, s.subject)

LEMMA InitTypeOK == Init => TypeOK
  BY ExecutorAssumption DEF Init, TypeOK, Hecho

(* Counting a message keeps a row a row, unless it underflows.             *)
LEMMA DescuentaTipo ==
  ASSUME NEW s \in TipoFila, NEW fallan, s.max # 0
  PROVE  Descuenta(s, fallan) \in TipoFila
<1>1. CASE s.max = Ninguno
  BY <1>1 DEF Descuenta
<1>2. CASE s.max # Ninguno
  <2> DEFINE e == IF s.conn \in fallan THEN s.entregados ELSE s.entregados + 1
  <2>1. s.max - 1 \in Nat /\ e \in Nat
    BY <1>2 DEF TipoFila, Ninguno
  <2>2. Descuenta(s, fallan) = [s EXCEPT !.max = s.max - 1, !.entregados = e]
    BY <1>2 DEF Descuenta, TipoFila
  <2> QED BY <2>1, <2>2 DEF TipoFila
<1> QED BY <1>1, <1>2

LEMMA RepartoTipo ==
  ASSUME suscriptions \subseteq TipoFila,
         NEW ds \in SUBSET suscriptions, NEW fallan,
         \A s \in ds : s.max # 0
  PROVE  Reparte(ds, fallan) \subseteq TipoFila
  BY DescuentaTipo DEF Reparte

LEMMA EntregasTipo ==
  ASSUME suscriptions \subseteq TipoFila,
         NEW ds \in SUBSET suscriptions, NEW fallan, NEW a \in Asuntos
  PROVE  Entregas(ds, a, fallan) \subseteq TipoEntrega
  BY DEF Entregas, TipoEntrega, TipoFila

LEMMA GuardaTipo ==
  ASSUME TypeOK, NEW a, Guarda(a)
  PROVE  /\ DOMAIN js_streams' \subseteq DOMAIN Flujos
         /\ js_streams' \in [DOMAIN js_streams' -> Nat]
  BY DEF TypeOK, Guarda

LEMMA PublicaTipo ==
  ASSUME TypeOK, NEW op, NEW c, NEW a \in Asuntos, NEW e, NEW fallan,
         Publica(op, c, a, e, fallan)
  PROVE  TypeOK'
<1> DEFINE ds == Destinos(a)
<1>1. ds \in SUBSET suscriptions /\ \A s \in ds : s.max # 0
  BY DEF Destinos, Publica
<1>2. Reparte(ds, fallan) \subseteq TipoFila
  BY <1>1, RepartoTipo DEF TypeOK
<1>3. suscriptions' \subseteq TipoFila
  BY <1>2 DEF Publica, SinMensajes
<1>4. ultimo'.entregas \subseteq TipoEntrega
  BY <1>1, EntregasTipo DEF Publica, Hecho, TypeOK
<1> QED
  BY <1>3, <1>4, GuardaTipo DEF Publica, TypeOK

LEMMA CaeTipo ==
  ASSUME TypeOK, NEW op, NEW c, NEW a \in Asuntos, NEW fallan,
         PublicaYCae(op, c, a, fallan)
  PROVE  TypeOK'
<1> DEFINE ds == Destinos(a)
           agotadas == {s \in ds : s.max = 0}
           antes == {s \in ds : \A t \in agotadas : s.orden < t.orden}
<1>1. antes \in SUBSET suscriptions
  BY DEF Destinos
<1>2. \A s \in antes : s.max # 0
  BY DEF Destinos, TypeOK, TipoFila
<1>3. suscriptions' \subseteq TipoFila
  BY <1>1, <1>2, RepartoTipo DEF PublicaYCae, TypeOK
<1>4. ultimo'.entregas \subseteq TipoEntrega
  BY <1>1, EntregasTipo DEF PublicaYCae, Hecho, TypeOK
<1> QED
  BY <1>3, <1>4, GuardaTipo DEF PublicaYCae, TypeOK

LEMMA HpubTipo ==
  ASSUME TypeOK, NEW c, NEW a \in Asuntos, NEW fallan, Hpub(c, a, fallan)
  PROVE  TypeOK'
<1> DEFINE ds == Destinos(a)
           agotadas == {s \in ds : s.max = 0}
           antes == {s \in ds : \A t \in agotadas : s.orden < t.orden}
<1>1. antes \in SUBSET suscriptions
  BY DEF Destinos
<1>2. \A s \in antes : s.max # 0
  BY DEF Destinos, TypeOK, TipoFila
<1>3. Reparte(antes, fallan) \subseteq TipoFila
  BY <1>1, <1>2, RepartoTipo DEF TypeOK
<1>4. suscriptions' \subseteq TipoFila
  BY <1>3 DEF Hpub, SinMensajes
<1>5. ultimo'.entregas \subseteq TipoEntrega
  BY <1>1, EntregasTipo DEF Hpub, Hecho, TypeOK
<1> QED
  BY <1>4, <1>5 DEF Hpub, TypeOK

LEMMA ComandoTipo ==
  ASSUME TypeOK, NEW c \in Ids, Comando(c)
  PROVE  TypeOK'
<1> c \in Nat \ {0}
  BY DEF Ids, TypeOK
<1> USE DEF Registra, Hecho
<1>1. ASSUME NEW u \in Usuarios, Connect(c, u) PROVE TypeOK'
  BY <1>1 DEF Connect, TypeOK
<1>2. CASE Rechazar(c)
  BY <1>2 DEF Rechazar, tablas, TypeOK
<1>3. ASSUME NEW x \in Patrones, NEW sid \in Sids, Sub(c, x, sid)
      PROVE  TypeOK'
  <2>1. PICK n \in 1..MaxOrden :
          /\ EsOrdenNuevo(n)
          /\ suscriptions' = suscriptions \cup {Fila(n, c, sid, x, permissions[c])}
    BY <1>3 DEF Sub
  <2>2. permissions[c] \in Usuarios
    BY <1>3 DEF Sub, PermiteSub, TypeOK
  <2>3. Fila(n, c, sid, x, permissions[c]) \in TipoFila
    BY <2>1, <2>2 DEF Fila, TipoFila, EsOrdenNuevo
  <2> QED BY <1>3, <2>1, <2>3 DEF Sub, TypeOK
<1>4. ASSUME NEW sid \in Sids, UnsubYa(c, sid) PROVE TypeOK'
  BY <1>4 DEF UnsubYa, TypeOK
<1>5. ASSUME NEW sid \in Sids, NEW n \in Topes, UnsubTras(c, sid, n)
      PROVE  TypeOK'
  <2>1. PICK s \in suscriptions :
          suscriptions' = (suscriptions \ {s}) \cup
            {[s EXCEPT !.max = n, !.limite = n, !.entregados = 0]}
    BY <1>5 DEF UnsubTras, EsLaFila
  <2>2. n \in Nat
    BY ExecutorAssumption
  <2>3. [s EXCEPT !.max = n, !.limite = n, !.entregados = 0] \in TipoFila
    BY <2>1, <2>2 DEF TypeOK, TipoFila
  <2> QED BY <1>5, <2>1, <2>3 DEF UnsubTras, TypeOK
<1>6. ASSUME NEW a \in Asuntos, NEW fallan \in SUBSET clientes_map,
             Pub(c, a, fallan)
      PROVE  TypeOK'
  BY <1>6, PublicaTipo, CaeTipo DEF Pub
<1>7. ASSUME NEW a \in Asuntos, NEW fallan \in SUBSET clientes_map,
             Hpub(c, a, fallan)
      PROVE  TypeOK'
  BY <1>7, HpubTipo
<1>8. CASE Shutdown(c)
  BY <1>8 DEF Shutdown, TypeOK
<1>9. ASSUME NEW f \in DOMAIN Flujos, CreateStream(c, f) PROVE TypeOK'
  BY <1>9 DEF CreateStream, TypeOK
<1> QED
  BY <1>1, <1>2, <1>3, <1>4, <1>5, <1>6, <1>7, <1>8, <1>9 DEF Comando

LEMMA NextTypeOK == TypeOK /\ [Next]_vars => TypeOK'
<1> SUFFICES ASSUME TypeOK, [Next]_vars PROVE TypeOK'
  OBVIOUS
<1>1. CASE Aceptar
  BY <1>1 DEF Aceptar, SiguienteId, Registra, Hecho, TypeOK
<1>2. ASSUME NEW c \in clientes_map, Quitar(c) PROVE TypeOK'
  BY <1>2 DEF Quitar, Registra, Hecho, TypeOK
<1>3. ASSUME NEW c \in Ids, Comando(c) PROVE TypeOK'
  BY <1>3, ComandoTipo
<1>4. ASSUME NEW a \in Asuntos, NEW fallan \in SUBSET clientes_map,
             PubConsumer(a, fallan)
      PROVE  TypeOK'
  BY <1>4, PublicaTipo, CaeTipo DEF PubConsumer
<1>5. CASE UNCHANGED vars
  BY <1>5 DEF vars, TypeOK
<1> QED BY <1>1, <1>2, <1>3, <1>4, <1>5 DEF Next

(* The tables of command_executor.rs keep their types through every        *)
(* command, including the panic of an underflow.                           *)
THEOREM TypeOKSiempre == Spec => []TypeOK
  BY InitTypeOK, NextTypeOK, PTL DEF Spec

-----------------------------------------------------------------------------
(* The inductive invariant.  LimiteRespetado is inductive by itself; the   *)
(* permission of a delivery needs the permission of the row it came from,  *)
(* and a fresh connection is clean because no table has reached its id.    *)
IInv ==
  /\ TypeOK
  /\ IdsYaUsados
  /\ FilasPermitidas
  /\ LimiteRespetado
  /\ EntregaPermitida

(* What a row keeps from a step to the next one.                           *)
Herencia(t, s) ==
  t.conn = s.conn /\ t.usuario = s.usuario /\ t.subject = s.subject

LimiteDe(s) == s.max # Ninguno => s.max >= 0 /\ s.entregados + s.max <= s.limite

(* A step that makes every row out of an earlier one of the same           *)
(* connection, permission and subject, and keeps its limit.                *)
FilasHeredadas ==
  \A t \in suscriptions' :
    \E s \in suscriptions : Herencia(t, s) /\ (LimiteDe(s) => LimiteDe(t))

LEMMA DescuentaHereda ==
  ASSUME NEW s \in TipoFila, NEW fallan, s.max # 0
  PROVE  LET t == Descuenta(s, fallan)
         IN  Herencia(t, s) /\ (LimiteDe(s) => LimiteDe(t))
<1>1. CASE s.max = Ninguno
  BY <1>1 DEF Descuenta, Herencia
<1>2. CASE s.max # Ninguno
  <2> DEFINE e == IF s.conn \in fallan THEN s.entregados ELSE s.entregados + 1
             t == Descuenta(s, fallan)
  <2>1. s.max - 1 \in Nat /\ e \in Nat /\ e <= s.entregados + 1
    BY <1>2 DEF TipoFila, Ninguno
  <2>2. t = [s EXCEPT !.max = s.max - 1, !.entregados = e]
    BY <1>2 DEF Descuenta, TipoFila
  <2>3. /\ t.conn = s.conn /\ t.usuario = s.usuario /\ t.subject = s.subject
        /\ t.limite = s.limite /\ t.max = s.max - 1 /\ t.entregados = e
    BY <2>2 DEF TipoFila
  <2> HIDE DEF t, e
  <2>4. s.max \in Nat /\ s.limite \in Nat /\ s.entregados \in Nat
    BY <1>2 DEF TipoFila
  <2>5. LimiteDe(s) => LimiteDe(t)
    BY <2>1, <2>3, <2>4, <1>2 DEF LimiteDe, Ninguno
  <2> QED BY <2>3, <2>5 DEF Herencia, t
<1> QED BY <1>1, <1>2

LEMMA RepartoHereda ==
  ASSUME suscriptions \subseteq TipoFila,
         NEW ds \in SUBSET suscriptions, NEW fallan,
         \A s \in ds : s.max # 0,
         suscriptions' \subseteq Reparte(ds, fallan)
  PROVE  FilasHeredadas
<1> SUFFICES ASSUME NEW t \in Reparte(ds, fallan)
             PROVE \E s \in suscriptions :
                     Herencia(t, s) /\ (LimiteDe(s) => LimiteDe(t))
  BY DEF FilasHeredadas
<1>1. CASE t \in suscriptions
  BY <1>1 DEF Herencia
<1>2. CASE \E s \in ds : t = Descuenta(s, fallan)
  BY <1>2, DescuentaHereda
<1> QED BY <1>1, <1>2 DEF Reparte

(* Whatever was written by a publication is permitted: by the permission   *)
(* of the row, and the permission covers what the row can match.           *)
LEMMA EntregaDeFilas ==
  ASSUME TypeOK, FilasPermitidas,
         NEW a \in Asuntos, NEW ds \in SUBSET Destinos(a), NEW fallan,
         ultimo'.entregas = Entregas(ds, a, fallan)
  PROVE  EntregaPermitida'
<1> SUFFICES ASSUME NEW d \in Entregas(ds, a, fallan)
             PROVE  CanSubscribe(d.usuario, d.asunto)
  BY DEF EntregaPermitida, CanSubscribe
<1>1. PICK s \in ds : d.usuario = s.usuario /\ d.asunto = a
  BY DEF Entregas
<1>2. s \in TipoFila /\ Coincide(s.subject, a) /\ CanSubscribe(s.usuario, s.subject)
  BY DEF Destinos, TypeOK, FilasPermitidas
<1>3. PICK p \in PuedeSuscribir[s.usuario] : Coincide(p, s.subject)
  BY <1>2 DEF CanSubscribe
<1>4. /\ p \in Seq(STRING) /\ SinComodin(p)
      /\ s.subject \in Seq(STRING) /\ a \in Seq(STRING)
  BY <1>2, ExecutorAssumption, PermisosSinComodin DEF TipoFila
<1>5. Coincide(p, a)
  BY <1>2, <1>3, <1>4, PermisoTransitivo
<1> QED BY <1>1, <1>5 DEF CanSubscribe

(* What the invariant needs of a step that publishes.                      *)
Difunde ==
  /\ FilasHeredadas
  /\ EntregaPermitida'
  /\ UNCHANGED <<connection_id_counter, clientes_map, permissions>>

LEMMA PublicaDifunde ==
  ASSUME IInv, NEW op, NEW c, NEW a \in Asuntos, NEW e, NEW fallan,
         Publica(op, c, a, e, fallan)
  PROVE  Difunde
<1> DEFINE ds == Destinos(a)
<1>1. ds \in SUBSET suscriptions /\ \A s \in ds : s.max # 0
  BY DEF Destinos, Publica
<1>2. suscriptions' \subseteq Reparte(ds, fallan)
  BY DEF Publica, SinMensajes
<1>3. FilasHeredadas
  BY <1>1, <1>2, RepartoHereda DEF IInv, TypeOK
<1>4. ultimo'.entregas = Entregas(ds, a, fallan)
  BY DEF Publica, Hecho
<1>5. EntregaPermitida'
  BY <1>4, EntregaDeFilas DEF IInv
<1> QED BY <1>3, <1>5 DEF Difunde, Publica

LEMMA CaeDifunde ==
  ASSUME IInv, NEW op, NEW c, NEW a \in Asuntos, NEW fallan,
         PublicaYCae(op, c, a, fallan)
  PROVE  Difunde
<1> DEFINE ds == Destinos(a)
           agotadas == {s \in ds : s.max = 0}
           antes == {s \in ds : \A t \in agotadas : s.orden < t.orden}
<1>1. antes \in SUBSET ds /\ ds \in SUBSET suscriptions
  BY DEF Destinos
<1>2. \A s \in antes : s.max # 0
  BY <1>1 DEF IInv, TypeOK, TipoFila
<1>3. suscriptions' = Reparte(antes, fallan)
  BY DEF PublicaYCae
<1>4. FilasHeredadas
  BY <1>1, <1>2, <1>3, RepartoHereda DEF IInv, TypeOK
<1>5. ultimo'.entregas = Entregas(antes, a, fallan)
  BY DEF PublicaYCae, Hecho
<1>6. EntregaPermitida'
  BY <1>1, <1>5, EntregaDeFilas DEF IInv
<1> QED BY <1>4, <1>6 DEF Difunde, PublicaYCae

LEMMA HpubDifunde ==
  ASSUME IInv, NEW c, NEW a \in Asuntos, NEW fallan, Hpub(c, a, fallan)
  PROVE  Difunde
<1> DEFINE ds == Destinos(a)
           agotadas == {s \in ds : s.max = 0}
           antes == {s \in ds : \A t \in agotadas : s.orden < t.orden}
<1>1. antes \in SUBSET ds /\ ds \in SUBSET suscriptions
  BY DEF Destinos
<1>2. \A s \in antes : s.max # 0
  BY <1>1 DEF IInv, TypeOK, TipoFila
<1>3. suscriptions' \subseteq Reparte(antes, fallan)
  BY DEF Hpub, SinMensajes
<1>4. FilasHeredadas
  BY <1>1, <1>2, <1>3, RepartoHereda DEF IInv, TypeOK
<1>5. ultimo'.entregas = Entregas(antes, a, fallan)
  BY DEF Hpub, Hecho
<1>6. EntregaPermitida'
  BY <1>1, <1>5, EntregaDeFilas DEF IInv
<1> QED BY <1>4, <1>6 DEF Difunde, Hpub

LEMMA DifundeIInv == IInv /\ Difunde /\ TypeOK' => IInv'
<1> SUFFICES ASSUME IInv, Difunde, TypeOK' PROVE IInv'
  OBVIOUS
<1>1. IdsYaUsados'
  BY DEF IInv, Difunde, IdsYaUsados, FilasHeredadas, Herencia
<1>2. FilasPermitidas'
  BY DEF IInv, Difunde, FilasPermitidas, FilasHeredadas, Herencia, CanSubscribe
<1>3. LimiteRespetado'
  BY DEF IInv, Difunde, LimiteRespetado, FilasHeredadas, LimiteDe
<1> QED BY <1>1, <1>2, <1>3 DEF IInv, Difunde

LEMMA InitIInv == Init => IInv
  BY InitTypeOK DEF Init, IInv, IdsYaUsados, FilasPermitidas, LimiteRespetado,
     EntregaPermitida, Hecho

LEMMA ComandoIInv ==
  ASSUME IInv, TypeOK', NEW c \in Ids, Comando(c)
  PROVE  IInv'
<1> USE DEF IInv, Registra, Hecho, EntregaPermitida
<1>1. ASSUME NEW u \in Usuarios, Connect(c, u) PROVE IInv'
  BY <1>1 DEF Connect, IdsYaUsados, FilasPermitidas, LimiteRespetado, CanSubscribe
<1>2. CASE Rechazar(c)
  BY <1>2 DEF Rechazar, tablas, IdsYaUsados, FilasPermitidas, LimiteRespetado,
              CanSubscribe
<1>3. ASSUME NEW x \in Patrones, NEW sid \in Sids, Sub(c, x, sid)
      PROVE  IInv'
  <2> DEFINE u == permissions[c]
  <2>1. PICK n \in 1..MaxOrden :
          suscriptions' = suscriptions \cup {Fila(n, c, sid, x, u)}
    BY <1>3 DEF Sub
  <2> DEFINE t == Fila(n, c, sid, x, u)
  <2>2. t.conn = c /\ t.usuario = u /\ t.subject = x /\ t.max = Ninguno
    BY DEF Fila
  <2>3. c < connection_id_counter /\ CanSubscribe(u, x)
    BY <1>3 DEF Sub, PermiteSub, IdsYaUsados
  <2> HIDE DEF t
  <2>4. IdsYaUsados'
    BY <1>3, <2>1, <2>2, <2>3 DEF t, Sub, IdsYaUsados
  <2>5. FilasPermitidas'
    BY <2>1, <2>2, <2>3 DEF t, FilasPermitidas, CanSubscribe
  <2>6. LimiteRespetado'
    BY <2>1, <2>2 DEF t, LimiteRespetado
  <2> QED BY <1>3, <2>4, <2>5, <2>6 DEF Sub
<1>4. ASSUME NEW sid \in Sids, UnsubYa(c, sid) PROVE IInv'
  BY <1>4 DEF UnsubYa, IdsYaUsados, FilasPermitidas, LimiteRespetado, CanSubscribe
<1>5. ASSUME NEW sid \in Sids, NEW n \in Topes, UnsubTras(c, sid, n)
      PROVE  IInv'
  <2>1. PICK s \in suscriptions :
          suscriptions' = (suscriptions \ {s}) \cup
            {[s EXCEPT !.max = n, !.limite = n, !.entregados = 0]}
    BY <1>5 DEF UnsubTras, EsLaFila
  <2> DEFINE t == [s EXCEPT !.max = n, !.limite = n, !.entregados = 0]
  <2>2. /\ t.conn = s.conn /\ t.usuario = s.usuario /\ t.subject = s.subject
        /\ t.max = n /\ t.limite = n /\ t.entregados = 0 /\ n \in Nat
    BY ExecutorAssumption DEF TypeOK, TipoFila
  <2> HIDE DEF t
  <2>3. IdsYaUsados'
    BY <1>5, <2>1, <2>2 DEF t, UnsubTras, IdsYaUsados
  <2>4. FilasPermitidas'
    BY <2>1, <2>2 DEF t, FilasPermitidas, CanSubscribe
  <2>5. LimiteRespetado'
    <3>1. suscriptions' = (suscriptions \ {s}) \cup {t}
      BY <2>1 DEF t
    <3>2. LimiteDe(t)
      BY <2>2 DEF LimiteDe
    <3>3. \A r \in suscriptions : LimiteDe(r)
      BY DEF LimiteRespetado, LimiteDe
    <3>4. \A r \in suscriptions' : LimiteDe(r)
      BY <3>1, <3>2, <3>3
    <3> QED BY <3>4 DEF LimiteRespetado, LimiteDe
  <2> QED BY <1>5, <2>3, <2>4, <2>5 DEF UnsubTras
<1>6. ASSUME NEW a \in Asuntos, NEW fallan \in SUBSET clientes_map,
             Pub(c, a, fallan)
      PROVE  IInv'
  BY <1>6, PublicaDifunde, CaeDifunde, DifundeIInv DEF Pub
<1>7. ASSUME NEW a \in Asuntos, NEW fallan \in SUBSET clientes_map,
             Hpub(c, a, fallan)
      PROVE  IInv'
  BY <1>7, HpubDifunde, DifundeIInv
<1>8. CASE Shutdown(c)
  BY <1>8 DEF Shutdown, IdsYaUsados, FilasPermitidas, LimiteRespetado, CanSubscribe
<1>9. ASSUME NEW f \in DOMAIN Flujos, CreateStream(c, f) PROVE IInv'
  BY <1>9 DEF CreateStream, IdsYaUsados, FilasPermitidas, LimiteRespetado,
              CanSubscribe
<1> QED
  BY <1>1, <1>2, <1>3, <1>4, <1>5, <1>6, <1>7, <1>8, <1>9 DEF Comando

LEMMA NextIInv == IInv /\ [Next]_vars => IInv'
<1> SUFFICES ASSUME IInv, [Next]_vars PROVE IInv'
  OBVIOUS
<1>1. TypeOK'
  BY NextTypeOK DEF IInv
<1> USE DEF IInv, Registra, Hecho
<1>2. CASE Aceptar
  <2>1. connection_id_counter' = connection_id_counter + 1
    BY <1>2 DEF Aceptar, SiguienteId
  <2>2. IdsYaUsados'
    BY <1>2, <2>1 DEF Aceptar, IdsYaUsados, TypeOK, TipoFila
  <2> QED
    BY <1>1, <1>2, <2>2 DEF Aceptar, FilasPermitidas, LimiteRespetado,
       EntregaPermitida, CanSubscribe
<1>3. ASSUME NEW c \in clientes_map, Quitar(c) PROVE IInv'
  BY <1>1, <1>3 DEF Quitar, IdsYaUsados, FilasPermitidas, LimiteRespetado,
     EntregaPermitida, CanSubscribe
<1>4. ASSUME NEW c \in Ids, Comando(c) PROVE IInv'
  BY <1>1, <1>4, ComandoIInv
<1>5. ASSUME NEW a \in Asuntos, NEW fallan \in SUBSET clientes_map,
             PubConsumer(a, fallan)
      PROVE  IInv'
  BY <1>1, <1>5, PublicaDifunde, CaeDifunde, DifundeIInv DEF PubConsumer
<1>6. CASE UNCHANGED vars
  BY <1>1, <1>6 DEF vars, IdsYaUsados, FilasPermitidas, LimiteRespetado,
     EntregaPermitida, CanSubscribe
<1> QED BY <1>2, <1>3, <1>4, <1>5, <1>6 DEF Next

LEMMA IInvSiempre == Spec => []IInv
  BY InitIInv, NextIInv, PTL DEF Spec

(* The tables never mention a connection that is still to be inserted      *)
(* (server.rs run, connection_id_counter; command_executor.rs sub, connect)*)
THEOREM IdsYaUsadosSiempre == Spec => []IdsYaUsados
<1>1. IInv => IdsYaUsados
  BY DEF IInv
<1> QED BY <1>1, IInvSiempre, PTL

(* No message ever reaches a connection on a subject its user may not      *)
(* receive, through any pattern (command_executor.rs sub, publish).        *)
THEOREM EntregaPermitidaSiempre == Spec => []EntregaPermitida
<1>1. IInv => EntregaPermitida
  BY DEF IInv
<1> QED BY <1>1, IInvSiempre, PTL

(* UNSUB sid n is never exceeded, whatever else is executed                *)
(* (command_executor.rs unsub, write_publish_msg, hpublish).               *)
THEOREM LimiteRespetadoSiempre == Spec => []LimiteRespetado
<1>1. IInv => LimiteRespetado
  BY DEF IInv
<1> QED BY <1>1, IInvSiempre, PTL

(* A connection enters the map with no permission and no subscription      *)
(* under its id (server.rs run, connection_id_counter).                    *)
THEOREM ConexionNuevaLimpiaSiempre == Spec => ConexionNuevaLimpia
<1>1. IInv /\ [Next]_vars =>
        [\A c \in clientes_map' \ clientes_map :
           /\ c \notin DOMAIN permissions
           /\ \A s \in suscriptions : s.conn # c]_vars
  <2> SUFFICES ASSUME IInv, Next, NEW c \in clientes_map' \ clientes_map
               PROVE  /\ c \notin DOMAIN permissions
                      /\ \A s \in suscriptions : s.conn # c
    OBVIOUS
  <2>1. CASE Aceptar
    <3>1. c = connection_id_counter
      BY <2>1 DEF Aceptar
    <3> QED BY <3>1 DEF IInv, IdsYaUsados, TypeOK, TipoFila
  <2>2. ASSUME clientes_map' \subseteq clientes_map PROVE FALSE
    BY <2>2
  <2>3. ASSUME NEW x \in clientes_map, Quitar(x) PROVE FALSE
    BY <2>3, <2>2 DEF Quitar
  <2>4. ASSUME NEW x \in Ids, Comando(x) PROVE FALSE
    BY <2>4, <2>2 DEF Comando, Connect, Rechazar, tablas, Sub, UnsubYa, UnsubTras,
       Pub, Publica, PublicaYCae, Hpub, Shutdown, CreateStream
  <2>5. ASSUME NEW a \in Asuntos, NEW fallan \in SUBSET clientes_map,
               PubConsumer(a, fallan)
        PROVE  FALSE
    BY <2>5, <2>2 DEF PubConsumer, Publica, PublicaYCae
  <2> QED BY <2>1, <2>3, <2>4, <2>5 DEF Next
<1> QED BY <1>1, IInvSiempre, PTL DEF Spec, ConexionNuevaLimpia

-----------------------------------------------------------------------------
(* What a publication may do to the row s: count a message it wrote to it, *)
(* or drop it when it has none left.                                       *)
SoloCuenta(s) ==
  \/ s \in suscriptions'
  \/ s.max \in {0, 1}
  \/ \E t \in suscriptions' :
       /\ t.orden = s.orden /\ t.conn = s.conn /\ t.sid = s.sid
       /\ t.subject = s.subject /\ t.max = s.max - 1

LEMMA RepartoSoloCuenta ==
  ASSUME suscriptions \subseteq TipoFila,
         NEW ds \in SUBSET suscriptions, NEW fallan,
         \A s \in ds : s.max # 0,
         SinMensajes(Reparte(ds, fallan)) \subseteq suscriptions',
         NEW s \in suscriptions
  PROVE  SoloCuenta(s)
<1>1. CASE s \notin ds
  BY <1>1 DEF SinMensajes, Reparte, SoloCuenta
<1>2. CASE s \in ds /\ s.max = Ninguno
  <2>1. Descuenta(s, fallan) = s
    BY <1>2 DEF Descuenta
  <2>2. s \in Reparte(ds, fallan) /\ s.max # 0
    BY <1>2, <2>1 DEF Reparte
  <2> QED BY <2>2 DEF SinMensajes, SoloCuenta
<1>3. CASE s \in ds /\ s.max # Ninguno
  <2> DEFINE e == IF s.conn \in fallan THEN s.entregados ELSE s.entregados + 1
             t == Descuenta(s, fallan)
  <2>1. s \in TipoFila /\ s.max \in Nat \ {0}
    BY <1>3 DEF TipoFila
  <2>2. t = [s EXCEPT !.max = s.max - 1, !.entregados = e]
    BY <1>3, <2>1 DEF Descuenta, TipoFila
  <2>3. /\ t.orden = s.orden /\ t.conn = s.conn /\ t.sid = s.sid
        /\ t.subject = s.subject /\ t.max = s.max - 1
    BY <2>1, <2>2 DEF TipoFila
  <2>4. t \in Reparte(ds, fallan)
    BY <1>3 DEF Reparte
  <2> HIDE DEF t
  <2>5. CASE s.max = 1
    BY <2>5 DEF SoloCuenta
  <2>6. CASE s.max # 1
    <3>1. t.max # 0
      BY <2>1, <2>3, <2>6
    <3>2. t \in suscriptions'
      BY <2>4, <3>1 DEF SinMensajes
    <3> QED BY <2>3, <3>2 DEF SoloCuenta
  <2> QED BY <2>5, <2>6
<1> QED BY <1>1, <1>2, <1>3

LEMMA AntesSoloCuenta ==
  ASSUME TypeOK, NEW a \in Asuntos, NEW fallan,
         NEW antes, antes = {s \in Destinos(a) :
                      \A t \in {d \in Destinos(a) : d.max = 0} : s.orden < t.orden},
         SinMensajes(Reparte(antes, fallan)) \subseteq suscriptions',
         NEW s \in suscriptions
  PROVE  SoloCuenta(s)
<1>1. antes \in SUBSET suscriptions
  BY DEF Destinos
<1>2. \A d \in antes : d.max # 0
  BY DEF Destinos, TypeOK, TipoFila
<1> QED BY <1>1, <1>2, RepartoSoloCuenta DEF TypeOK

LEMMA PublicaSoloCuenta ==
  ASSUME TypeOK, NEW op, NEW c, NEW a \in Asuntos, NEW e, NEW fallan,
         Publica(op, c, a, e, fallan) \/ PublicaYCae(op, c, a, fallan),
         NEW s \in suscriptions
  PROVE  ultimo'.op = op /\ SoloCuenta(s)
<1>1. CASE Publica(op, c, a, e, fallan)
  <2>1. /\ Destinos(a) \in SUBSET suscriptions
        /\ \A d \in Destinos(a) : d.max # 0
    BY <1>1 DEF Destinos, Publica
  <2>2. SinMensajes(Reparte(Destinos(a), fallan)) \subseteq suscriptions'
    BY <1>1 DEF Publica, SinMensajes
  <2> QED BY <1>1, <2>1, <2>2, RepartoSoloCuenta DEF TypeOK, Publica, Hecho
<1>2. CASE PublicaYCae(op, c, a, fallan)
  <2> DEFINE antes == {x \in Destinos(a) :
                \A t \in {d \in Destinos(a) : d.max = 0} : x.orden < t.orden}
  <2>1. SinMensajes(Reparte(antes, fallan)) \subseteq suscriptions'
    BY <1>2 DEF PublicaYCae, SinMensajes
  <2>2. ultimo'.op = op
    BY <1>2 DEF PublicaYCae, Hecho
  <2> QED BY <2>1, <2>2, AntesSoloCuenta
<1> QED BY <1>1, <1>2

LEMMA HpubSoloCuenta ==
  ASSUME TypeOK, NEW c, NEW a \in Asuntos, NEW fallan, Hpub(c, a, fallan),
         NEW s \in suscriptions
  PROVE  ultimo'.op = "HPUB" /\ SoloCuenta(s)
<1> DEFINE antes == {x \in Destinos(a) :
              \A t \in {d \in Destinos(a) : d.max = 0} : x.orden < t.orden}
<1>1. SinMensajes(Reparte(antes, fallan)) \subseteq suscriptions'
  BY DEF Hpub, SinMensajes
<1>2. ultimo'.op = "HPUB"
  BY DEF Hpub, Hecho
<1> QED BY <1>1, <1>2, AntesSoloCuenta

(* sids collide, but no command touches a row of another connection, save  *)
(* to count a message (command_executor.rs unsub, shutdown, remove_subs).  *)
THEOREM SoloElDuenoTocaSiempre == Spec => SoloElDuenoToca
<1> DEFINE Toca(s) ==
      \/ s \in suscriptions'
      \/ /\ ultimo'.op \in {"PUB", "HPUB"}
         /\ \/ s.max \in {0, 1}
            \/ \E t \in suscriptions' :
                 /\ t.orden = s.orden /\ t.conn = s.conn /\ t.sid = s.sid
                 /\ t.subject = s.subject /\ t.max = s.max - 1
<1>1. TypeOK /\ [Next]_vars =>
        [\A s \in suscriptions : s.conn # ultimo'.conn => Toca(s)]_vars
  <2> SUFFICES ASSUME TypeOK, Next, NEW s \in suscriptions, s.conn # ultimo'.conn
               PROVE  Toca(s)
    OBVIOUS
  <2> USE DEF Registra, Hecho
  <2>1. ASSUME suscriptions \subseteq suscriptions' PROVE Toca(s)
    BY <2>1
  <2>2. ASSUME NEW x \in Ids, Comando(x) PROVE Toca(s)
    <3>1. ASSUME NEW sid \in Sids, UnsubYa(x, sid) PROVE Toca(s)
      BY <3>1 DEF UnsubYa, EsLaFila
    <3>2. ASSUME NEW sid \in Sids, NEW n \in Topes, UnsubTras(x, sid, n)
          PROVE  Toca(s)
      BY <3>2 DEF UnsubTras, EsLaFila
    <3>3. ASSUME NEW a \in Asuntos, NEW fallan \in SUBSET clientes_map,
                 Pub(x, a, fallan)
          PROVE  Toca(s)
      BY <3>3, PublicaSoloCuenta DEF Pub, SoloCuenta
    <3>4. ASSUME NEW a \in Asuntos, NEW fallan \in SUBSET clientes_map,
                 Hpub(x, a, fallan)
          PROVE  Toca(s)
      BY <3>4, HpubSoloCuenta DEF SoloCuenta
    <3>5. CASE Shutdown(x)
      BY <3>5 DEF Shutdown
    <3>6. ASSUME \/ \E u \in Usuarios : Connect(x, u)
                 \/ Rechazar(x)
                 \/ \E p \in Patrones, sid \in Sids : Sub(x, p, sid)
                 \/ \E f \in DOMAIN Flujos : CreateStream(x, f)
          PROVE  Toca(s)
      BY <2>1, <3>6 DEF Connect, Rechazar, tablas, Sub, CreateStream
    <3> QED BY <2>2, <3>1, <3>2, <3>3, <3>4, <3>5, <3>6 DEF Comando
  <2>3. ASSUME NEW a \in Asuntos, NEW fallan \in SUBSET clientes_map,
               PubConsumer(a, fallan)
        PROVE  Toca(s)
    BY <2>3, PublicaSoloCuenta DEF PubConsumer, SoloCuenta
  <2>4. ASSUME Aceptar \/ \E x \in clientes_map : Quitar(x) PROVE Toca(s)
    BY <2>1, <2>4 DEF Aceptar, Quitar
  <2> QED BY <2>2, <2>3, <2>4 DEF Next
<1> QED BY <1>1, TypeOKSiempre, PTL DEF Spec, SoloElDuenoToca
=============================================================================
