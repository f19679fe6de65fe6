---------------------------- MODULE MCCapstsLink ----------------------------
(***************************************************************************)
(* The programs of tsniff with up to one key, the transfers of TS and of   *)
(* B-CAS packets or both; and every command of capsts.h in a queue before  *)
(* another, CMD_PORT_CFG never last.  Behind CMD_PORT_CFG the firmware     *)
(* takes the offset of MCWaveAt112 for CMD_EP4AUTOINLEN.                    *)
(***************************************************************************)
EXTENDS CapstsLink

\* IR_CMD_FORMAT_BS, 0x04E2
MCKey == <<{7, 6, 5, 1}, {2}>>

MCOptions ==
    [ts : BOOLEAN, bcas : BOOLEAN, keys : {<< >>, <<MCKey>>}, setup : BOOLEAN]

MCCommands ==
    {<<cmd>> : cmd \in {CMD_EP6IN_START, CMD_EP6IN_STOP, CMD_EP2OUT_START, CMD_EP2OUT_STOP,
                        CMD_PORT_READ, CMD_MODE_IDLE, CMD_EP4IN_START, CMD_EP4IN_STOP}}
    \cup {<<cmd, {3}>> : cmd \in {CMD_REG_READ, CMD_PORT_WRITE, CMD_IFCONFIG, CMD_IR_RBUF}}
    \cup {<<CMD_REG_WRITE, {3}, {0}>>, <<CMD_IR_CODE, MCKey[1], MCKey[2]>>, <<CMD_PORT_CFG, {4}, {3}>>,
          <<CMD_IR_WBUF, {6}, {1}, {0}, {7}>>}

MCWaveAt112 == <<CMD_IR_WBUF, CMD_EP4AUTOINLEN, {0}, {7}>>

MCPrograms ==
    {RunProgram(option) : option \in {o \in MCOptions : o.ts \/ o.bcas}}
    \cup {ApiProgram(<<Push(cmd), Push(<<CMD_MODE_IDLE>>), Commit>>) : cmd \in MCCommands}
    \cup {ApiProgram(<<Push(<<CMD_PORT_CFG, {4}, {3}>>), Push(cmd), Commit>>) :
              cmd \in {c \in MCCommands : c[1] # CMD_PORT_CFG} \cup {MCWaveAt112}}

MCGarbage == {{}, {5, 6, 7}}
=============================================================================
